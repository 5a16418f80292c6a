------------------------ MODULE ReconciliationProofs ------------------------
(***************************************************************************)
(* Proofs about Reconciliation, for any institutions, declaration, scores, *)
(* lists, files and graphs: the recursive query walks just the paths it is *)
(* meant to, and what is made of them is right; every state is well typed; *)
(* what the worksheet shows is of one reconciliation, loses nothing of     *)
(* what it discovered, and has the employer ties of the files it named;    *)
(* and only two parents of one legal name make two ties of one key.        *)
(*                                                                         *)
(* The walk is a recursive function, of which TLAPS knows its equation     *)
(* alone. NatSetInduction, from the well-foundedness of < on Nat, is the   *)
(* induction it takes to find that its rows are the paths (RowsArePaths);  *)
(* the rest follows from the paths.                                        *)
(*                                                                         *)
(* The inductive invariants are Typed and Detailed, for the types; Whole:  *)
(* Typed and, for each point of a request, what the rows it still holds    *)
(* and the rows already in the tables add up to (Written); that a case is  *)
(* not on the worksheet while its tables are being replaced (Busy); that   *)
(* the keys gathered so far are apart (Keyed); and, once the case is       *)
(* moved, that the tables are those of its basis (Settled); and, on top of *)
(* Whole, that a climb nobody disturbed has the ties of the files for the  *)
(* employers it is done with (ByTheFile), which the worksheet then keeps   *)
(* (Stands).                                                               *)
(***************************************************************************)
EXTENDS Reconciliation, FiniteSetTheorems, SequenceTheorems, WellFoundedInduction, TLAPS

\* SetToSeq of a finite set lists each of its elements once: the order in which
\* rows are inserted does not matter to what is inserted.
LEMMA SetAsSequence ==
  ASSUME NEW S, IsFiniteSet(S)
  PROVE  /\ SetToSeq(S) \in Seq(S)
         /\ ToSet(SetToSeq(S)) = S
         /\ IsInjective(SetToSeq(S))
<1> DEFINE n == Cardinality(S)
           s == SetToSeq(S)
<1>1. n \in Nat /\ ExistsBijection(1..n, S)
  BY FS_CardinalityType
<1>2. \E f \in [1..n -> S] : IsInjective(f)
  BY <1>1 DEF ExistsBijection, Bijection, Injection
<1>3. s \in [1..n -> S] /\ IsInjective(s)
  BY <1>2 DEF SetToSeq
<1>4. s \in Seq(S)
  BY <1>1, <1>3
<1>5. s \in Injection(1..n, S)
  BY <1>3 DEF Injection
<1>6. IsFiniteSet(1..n) /\ Cardinality(1..n) = n
  BY <1>1, FS_Interval
<1>7. s \in Surjection(1..n, S)
  <2> HIDE DEF s
  <2>1. QED
    BY <1>5, <1>6, FS_Injection
<1>8. ToSet(s) = S
  BY <1>3, <1>7 DEF ToSet, Surjection
<1>9. QED
  BY <1>3, <1>4, <1>8

\* What is left of the rows to insert when the first was inserted.
LEMMA RestOfSequence ==
  ASSUME NEW T, NEW s \in Seq(T), s # <<>>
  PROVE  /\ Head(s) \in T /\ Tail(s) \in Seq(T)
         /\ Len(s) \in Nat /\ Len(Tail(s)) = Len(s) - 1
         /\ \A i \in 1..Len(Tail(s)) : Tail(s)[i] = s[i + 1]
         /\ ToSet(s) = {Head(s)} \union ToSet(Tail(s))
<1>1. Head(s) \in T /\ Tail(s) \in Seq(T) /\ Len(s) \in Nat \ {0} /\ Len(Tail(s)) = Len(s) - 1
  OBVIOUS
<1>2. \A i \in 1..Len(Tail(s)) : Tail(s)[i] = s[i + 1]
  OBVIOUS
<1>3. ASSUME NEW x \in ToSet(s) PROVE x \in {Head(s)} \union ToSet(Tail(s))
  <2>1. PICK i \in 1..Len(s) : x = s[i]
    BY DEF ToSet
  <2>2. CASE i = 1
    BY <2>1, <2>2
  <2>3. CASE i # 1
    <3>1. i - 1 \in 1..Len(Tail(s)) /\ Tail(s)[i - 1] = s[i]
      BY <1>1, <1>2, <2>1, <2>3
    <3>2. DOMAIN Tail(s) = 1..Len(Tail(s))
      BY <1>1
    <3>3. QED
      BY <2>1, <3>1, <3>2 DEF ToSet
  <2>4. QED
    BY <2>2, <2>3
<1>4. ToSet(Tail(s)) \subseteq ToSet(s)
  BY <1>1, <1>2 DEF ToSet
<1>5. Head(s) \in ToSet(s)
  BY <1>1 DEF ToSet
<1>6. QED
  BY <1>1, <1>2, <1>3, <1>4, <1>5

\* The rows of two lists put together are the rows of both.
LEMMA ConcatenatedSets ==
  ASSUME NEW T, NEW s \in Seq(T), NEW t \in Seq(T)
  PROVE  /\ s \o t \in Seq(T)
         /\ ToSet(s \o t) = ToSet(s) \union ToSet(t)
<1>1. s \o t \in Seq(T) /\ Len(s \o t) = Len(s) + Len(t)
  OBVIOUS
<1>2. /\ \A i \in 1..Len(s) : (s \o t)[i] = s[i]
      /\ \A i \in 1..Len(t) : (s \o t)[i + Len(s)] = t[i]
  OBVIOUS
<1>3. \A i \in 1..Len(s \o t) : i \in 1..Len(s) \/ i - Len(s) \in 1..Len(t)
  BY <1>1
<1>4. ASSUME NEW x \in ToSet(s \o t) PROVE x \in ToSet(s) \union ToSet(t)
  <2>1. PICK i \in 1..Len(s \o t) : x = (s \o t)[i]
    BY <1>1 DEF ToSet
  <2>2. CASE i \in 1..Len(s)
    BY <1>2, <2>1, <2>2 DEF ToSet
  <2>3. CASE i - Len(s) \in 1..Len(t)
    <3>1. x = t[i - Len(s)]
      BY <1>2, <2>1, <2>3
    <3>2. QED
      BY <2>3, <3>1 DEF ToSet
  <2>4. QED
    BY <1>3, <2>2, <2>3
<1>5. ToSet(s) \subseteq ToSet(s \o t)
  BY <1>1, <1>2 DEF ToSet
<1>6. ASSUME NEW x \in ToSet(t) PROVE x \in ToSet(s \o t)
  <2>1. PICK i \in 1..Len(t) : x = t[i]
    BY DEF ToSet
  <2>2. i + Len(s) \in 1..Len(s \o t)
    BY <1>1
  <2>3. QED
    BY <1>1, <1>2, <2>1, <2>2 DEF ToSet
<1>7. QED
  BY <1>1, <1>4, <1>5, <1>6

-----------------------------------------------------------------------------
\* Induction over the naturals, for a set of them.
LEMMA NatSetInduction ==
  ASSUME NEW S, 0 \in S, \A n \in Nat : n \in S => n + 1 \in S
  PROVE  Nat \subseteq S
<1> DEFINE Bad == Nat \ S
           R == OpToRel(<, Nat)
<1>1. SUFFICES ASSUME Bad # {} PROVE FALSE
  OBVIOUS
<1>2. IsWellFoundedOn(R, Nat)
  BY NatLessThanWellFounded
<1>3. Bad \subseteq Nat
  OBVIOUS
<1>4. PICK x \in Bad : \A y \in Bad : ~ (<<y, x>> \in R)
  <2> HIDE DEF Bad, R
  <2>1. QED
    BY <1>1, <1>2, <1>3, WFMin
<1>5. \A y \in Bad : ~(y < x)
  BY <1>4 DEF OpToRel
<1>6. x # 0 /\ x \in Nat
  OBVIOUS
<1>7. x - 1 \in Nat /\ x - 1 < x /\ x = (x - 1) + 1
  BY <1>6
<1>8. x - 1 \in S
  BY <1>5, <1>7
<1>9. QED
  BY <1>7, <1>8

\* What a path of so many hops is as a sequence.
Hiked(edges, lei, n, p) ==
  /\ p \in Seq(LEIs) /\ Len(p) = n + 1 /\ Hops(p) = n
  /\ p[1] = lei /\ Last(p) = p[n + 1] /\ Last(p) \in LEIs
  /\ DOMAIN p = 1..(n + 1)
  /\ \A i, j \in 1..(n + 1) : p[i] = p[j] => i = j
  /\ \A i \in 1..n : <<p[i], p[i + 1]>> \in edges

\* A path of the specification is one.
LEMMA PathShape ==
  ASSUME NEW edges, NEW lei \in LEIs, NEW n \in Nat, NEW p \in PathsFrom(edges, lei, n)
  PROVE  Hiked(edges, lei, n, p)
<1>1. p \in [1..(n + 1) -> LEIs] /\ p[1] = lei /\ IsPath(edges, p)
  BY DEF PathsFrom
<1>2. p \in Seq(LEIs) /\ Len(p) = n + 1 /\ DOMAIN p = 1..(n + 1)
  BY <1>1
<1>3. Hops(p) = n
  BY <1>2 DEF Hops
<1>4. Last(p) = p[n + 1] /\ Last(p) \in LEIs
  BY <1>1, <1>2 DEF Last
<1>5. \A i, j \in 1..(n + 1) : p[i] = p[j] => i = j
  BY <1>1, <1>2 DEF IsPath, IsInjective
<1>6. \A i \in 1..n : <<p[i], p[i + 1]>> \in edges
  BY <1>1, <1>3 DEF IsPath
<1>7. QED
  BY <1>1, <1>2, <1>3, <1>4, <1>5, <1>6 DEF Hiked

\* What makes a sequence a path.
LEMMA PathMade ==
  ASSUME NEW edges, NEW lei \in LEIs, NEW n \in Nat, NEW p \in Seq(LEIs), Len(p) = n + 1,
         p[1] = lei, \A i, j \in 1..(n + 1) : p[i] = p[j] => i = j,
         \A i \in 1..n : <<p[i], p[i + 1]>> \in edges
  PROVE  p \in PathsFrom(edges, lei, n)
<1>1. p \in [1..(n + 1) -> LEIs] /\ DOMAIN p = 1..(n + 1) /\ Hops(p) = n
  BY DEF Hops
<1>2. QED
  BY <1>1 DEF PathsFrom, IsPath, IsInjective

\* No hop is taken before the first.
LEMMA PathOfNoHops ==
  ASSUME NEW edges, NEW lei \in LEIs
  PROVE  PathsFrom(edges, lei, 0) = {<<lei>>}
<1>1. <<lei>> \in PathsFrom(edges, lei, 0)
  <2>1. <<lei>> \in Seq(LEIs) /\ Len(<<lei>>) = 0 + 1 /\ <<lei>>[1] = lei
    OBVIOUS
  <2>2. /\ \A i, j \in 1..(0 + 1) : <<lei>>[i] = <<lei>>[j] => i = j
        /\ \A i \in 1..0 : <<<<lei>>[i], <<lei>>[i + 1]>> \in edges
    OBVIOUS
  <2> DEFINE q == <<lei>>
  <2> HIDE DEF q
  <2>3. q \in PathsFrom(edges, lei, 0)
    BY <2>1, <2>2, PathMade DEF q
  <2>4. QED
    BY <2>3 DEF q
<1>2. ASSUME NEW p \in PathsFrom(edges, lei, 0) PROVE p = <<lei>>
  <2>1. p \in Seq(LEIs) /\ Len(p) = 1 /\ p[1] = lei
    <3>1. p \in Seq(LEIs) /\ Len(p) = 0 + 1 /\ p[1] = lei
      <4>1. Hiked(edges, lei, 0, p)
        BY PathShape, 0 \in Nat
      <4>2. QED
        BY <4>1 DEF Hiked
    <3>2. QED
      BY <3>1
  <2>2. QED
    BY <2>1
<1>3. QED
  BY <1>1, <1>2

\* A path goes on by a parent it has not met.
LEMMA PathGrows ==
  ASSUME NEW edges \in SUBSET (LEIs \X LEIs), NEW lei \in LEIs, NEW n \in Nat,
         NEW p \in PathsFrom(edges, lei, n), NEW q \in Longer(edges, p)
  PROVE  q \in PathsFrom(edges, lei, n + 1) /\ Front(q) = p
<1>1. /\ p \in Seq(LEIs) /\ Len(p) = n + 1 /\ p[1] = lei /\ Last(p) = p[n + 1]
      /\ \A i, j \in 1..(n + 1) : p[i] = p[j] => i = j
      /\ \A i \in 1..n : <<p[i], p[i + 1]>> \in edges
  <2>1. Hiked(edges, lei, n, p)
    BY PathShape
  <2>2. QED
    BY <2>1 DEF Hiked
<1>2. PICK x : x \in Parents(edges, Last(p)) \ ToSet(p) /\ q = Append(p, x)
  BY DEF Longer
<1>3. x \in LEIs /\ <<p[n + 1], x>> \in edges
  BY <1>1, <1>2 DEF Parents
<1>4. \A i \in 1..(n + 1) : p[i] # x
  BY <1>1, <1>2 DEF ToSet
<1>5. /\ q \in Seq(LEIs) /\ Len(q) = (n + 1) + 1 /\ q[n + 2] = x
      /\ \A i \in 1..(n + 1) : q[i] = p[i]
  BY <1>1, <1>2, <1>3
<1>6. \A i, j \in 1..((n + 1) + 1) : q[i] = q[j] => i = j
  <2>1. \A i \in 1..((n + 1) + 1) : i \in 1..(n + 1) \/ i = n + 2
    OBVIOUS
  <2>2. QED
    BY <1>1, <1>4, <1>5, <2>1
<1>7. \A i \in 1..(n + 1) : <<q[i], q[i + 1]>> \in edges
  <2>1. TAKE i \in 1..(n + 1)
  <2>2. CASE i = n + 1
    BY <1>3, <1>5, <2>2
  <2>3. CASE i # n + 1
    <3>1. i \in 1..n /\ i + 1 \in 1..(n + 1)
      BY <2>3
    <3>2. QED
      BY <1>1, <1>5, <3>1
  <2>4. QED
    BY <2>2, <2>3
<1>8. q[1] = lei /\ n + 1 \in Nat
  BY <1>1, <1>5
<1>9. q \in PathsFrom(edges, lei, n + 1)
  BY <1>5, <1>6, <1>7, <1>8, PathMade
<1>10. Front(q) = p
  BY <1>1, <1>2, <1>3 DEF Front
<1>11. QED
  BY <1>9, <1>10

\* A path of a hop more is a path and a parent it has not met.
LEMMA PathCameFrom ==
  ASSUME NEW edges \in SUBSET (LEIs \X LEIs), NEW lei \in LEIs, NEW n \in Nat,
         NEW q \in PathsFrom(edges, lei, n + 1)
  PROVE  /\ Front(q) \in PathsFrom(edges, lei, n)
         /\ q \in Longer(edges, Front(q))
         /\ Last(q) \in Parents(edges, Last(Front(q))) \ ToSet(Front(q))
<1>1. n + 1 \in Nat /\ (n + 1) + 1 = n + 2
  OBVIOUS
<1>2. /\ q \in Seq(LEIs) /\ Len(q) = n + 2 /\ q[1] = lei /\ Last(q) = q[n + 2]
      /\ \A i, j \in 1..(n + 2) : q[i] = q[j] => i = j
      /\ \A i \in 1..(n + 1) : <<q[i], q[i + 1]>> \in edges
  <2>1. /\ q \in Seq(LEIs) /\ Len(q) = (n + 1) + 1 /\ q[1] = lei /\ Last(q) = q[(n + 1) + 1]
        /\ \A i, j \in 1..((n + 1) + 1) : q[i] = q[j] => i = j
        /\ \A i \in 1..(n + 1) : <<q[i], q[i + 1]>> \in edges
    <3>1. Hiked(edges, lei, n + 1, q)
      BY <1>1, PathShape
    <3>2. QED
      BY <3>1 DEF Hiked
  <2>2. QED
    BY <1>1, <2>1
<1> DEFINE p == Front(q)
<1>3. /\ p \in Seq(LEIs) /\ Len(p) = n + 1 /\ \A i \in 1..(n + 1) : p[i] = q[i]
  BY <1>2 DEF Front
<1>4. q = Append(p, q[n + 2])
  BY <1>2, <1>3
<1> HIDE DEF p
<1>5. p \in PathsFrom(edges, lei, n)
  <2>1. p[1] = lei
    BY <1>2, <1>3
  <2>2. \A i, j \in 1..(n + 1) : p[i] = p[j] => i = j
    BY <1>2, <1>3
  <2>3. \A i \in 1..n : <<p[i], p[i + 1]>> \in edges
    <3>1. \A i \in 1..n : i \in 1..(n + 1) /\ i + 1 \in 1..(n + 1)
      OBVIOUS
    <3>2. QED
      BY <1>2, <1>3, <3>1
  <2>4. QED
    BY <1>3, <2>1, <2>2, <2>3, PathMade
<1>6. Last(p) = q[n + 1]
  BY <1>3 DEF Last
<1>7. <<Last(p), q[n + 2]>> \in edges
  <2>1. n + 1 \in 1..(n + 1) /\ (n + 1) + 1 = n + 2
    OBVIOUS
  <2>2. QED
    BY <1>2, <1>6, <2>1
<1>8. q[n + 2] \notin ToSet(p)
  <2>1. DOMAIN p = 1..(n + 1)
    BY <1>3
  <2>2. \A i \in 1..(n + 1) : p[i] # q[n + 2]
    BY <1>2, <1>3
  <2>3. QED
    BY <2>1, <2>2 DEF ToSet
<1>9. q[n + 2] \in Parents(edges, Last(p))
  BY <1>7 DEF Parents
<1>10. q \in Longer(edges, p)
  BY <1>4, <1>8, <1>9 DEF Longer
<1>11. QED
  BY <1>2, <1>5, <1>8, <1>9, <1>10 DEF p

\* The recursive query finds the paths of up to a hop past the depth bound, and
\* nothing else (graph.py, the walk CTE).
LEMMA RowsArePaths ==
  ASSUME NEW edges \in SUBSET (LEIs \X LEIs), NEW lei \in LEIs, NEW max_depth \in Nat
  PROVE  Rows(edges, lei, max_depth)
           = UNION {PathsFrom(edges, lei, n) : n \in 1..(max_depth + 1)}
<1> DEFINE step(w, d) == IF d = 0 THEN {<<lei>>} ELSE UNION {Longer(edges, p) : p \in w[d - 1]}
           D == 0..(max_depth + 1)
           g == [d \in D |-> PathsFrom(edges, lei, d)]
           walk == CHOOSE w : w = [d \in D |-> step(w, d)]
<1>1. Rows(edges, lei, max_depth) = UNION {walk[d] : d \in 1..(max_depth + 1)}
  BY DEF Rows
<1>2. \A d \in D : d # 0 => d - 1 \in D /\ d - 1 \in Nat /\ (d - 1) + 1 = d
  OBVIOUS
<1>3. \A n \in Nat : PathsFrom(edges, lei, n + 1)
                       = UNION {Longer(edges, p) : p \in PathsFrom(edges, lei, n)}
  <2>1. ASSUME NEW n \in Nat
        PROVE  PathsFrom(edges, lei, n + 1)
                 = UNION {Longer(edges, p) : p \in PathsFrom(edges, lei, n)}
    <3>1. \A q \in PathsFrom(edges, lei, n + 1) :
             Front(q) \in PathsFrom(edges, lei, n) /\ q \in Longer(edges, Front(q))
      BY PathCameFrom
    <3>2. \A p \in PathsFrom(edges, lei, n) : \A q \in Longer(edges, p) :
             q \in PathsFrom(edges, lei, n + 1)
      BY PathGrows
    <3>3. QED
      BY <3>1, <3>2
  <2>2. QED
    BY <2>1
<1>4. g = [d \in D |-> step(g, d)]
  <2>1. ASSUME NEW d \in D PROVE g[d] = step(g, d)
    <3>1. CASE d = 0
      BY <3>1, PathOfNoHops
    <3>2. CASE d # 0
      <4>1. g[d - 1] = PathsFrom(edges, lei, d - 1)
        BY <1>2, <3>2
      <4>2. QED
        BY <1>2, <1>3, <3>2, <4>1
    <3>3. QED
      BY <3>1, <3>2
  <2>2. QED
    BY <2>1
<1>5. walk = [d \in D |-> step(walk, d)]
  BY <1>4
<1> HIDE DEF walk
<1>6. \A n \in Nat : n \in D => walk[n] = PathsFrom(edges, lei, n)
  <2> DEFINE S == {n \in Nat : n \in D => walk[n] = PathsFrom(edges, lei, n)}
  <2>1. 0 \in S
    BY <1>5, PathOfNoHops
  <2>2. ASSUME NEW n \in Nat, n \in S PROVE n + 1 \in S
    <3>1. SUFFICES ASSUME n + 1 \in D PROVE walk[n + 1] = PathsFrom(edges, lei, n + 1)
      OBVIOUS
    <3>2. n \in D /\ n + 1 # 0 /\ (n + 1) - 1 = n
      BY <3>1
    <3>3. walk[n + 1] = UNION {Longer(edges, p) : p \in walk[n]}
      BY <1>5, <3>1, <3>2
    <3>4. QED
      BY <1>3, <2>2, <3>2, <3>3
  <2> HIDE DEF S
  <2>3. Nat \subseteq S
    BY <2>1, <2>2, NatSetInduction
  <2>4. QED
    BY <2>3 DEF S
<1>7. \A n \in 1..(max_depth + 1) : n \in Nat /\ n \in D
  OBVIOUS
<1>8. QED
  <2> HIDE DEF D
  <2>1. QED
    BY <1>1, <1>6, <1>7

\* The paths of one hop or more up to the depth bound.
Ways(edges, lei, depth) == UNION {PathsFrom(edges, lei, n) : n \in 1..depth}

\* Those that go as far as the bound or cannot go on.
Furthest(edges, lei, depth) ==
  {q \in Ways(edges, lei, depth) : Hops(q) = depth \/ Longer(edges, q) = {}}

\* The hops tell which paths a path is of.
LEMMA WaysByHops ==
  ASSUME NEW edges \in SUBSET (LEIs \X LEIs), NEW lei \in LEIs, NEW depth \in Nat,
         NEW p \in Ways(edges, lei, depth)
  PROVE  Hops(p) \in 1..depth /\ p \in PathsFrom(edges, lei, Hops(p))
<1>1. PICK n \in 1..depth : p \in PathsFrom(edges, lei, n)
  BY DEF Ways
<1>2. n \in Nat
  OBVIOUS
<1>3. Hiked(edges, lei, n, p)
  BY <1>1, <1>2, PathShape
<1>4. QED
  BY <1>1, <1>3 DEF Hiked

\* What is reported is all of them.
LEMMA ReportableAreWays ==
  ASSUME NEW edges \in SUBSET (LEIs \X LEIs), NEW lei \in LEIs, NEW depth \in Nat
  PROVE  Reportable(edges, lei, depth) = Ways(edges, lei, depth)
<1>1. Rows(edges, lei, depth) = UNION {PathsFrom(edges, lei, n) : n \in 1..(depth + 1)}
  BY RowsArePaths
<1>2. \A n \in Nat : \A p \in PathsFrom(edges, lei, n) : Hops(p) = n
  <2>1. TAKE n \in Nat
  <2>2. TAKE p \in PathsFrom(edges, lei, n)
  <2>3. Hiked(edges, lei, n, p)
    BY PathShape
  <2>4. QED
    BY <2>3 DEF Hiked
<1>3. \A n \in 1..(depth + 1) : n \in Nat /\ (n <= depth <=> n \in 1..depth)
  OBVIOUS
<1>4. \A n \in 1..depth : n \in 1..(depth + 1)
  OBVIOUS
<1>5. QED
  BY <1>1, <1>2, <1>3, <1>4 DEF Reportable, Ways

\* A path is the front of a reported one if it can go on within the bound
\* (parent_paths).
LEMMA FrontsGoOn ==
  ASSUME NEW edges \in SUBSET (LEIs \X LEIs), NEW lei \in LEIs, NEW depth \in Nat,
         NEW p \in Ways(edges, lei, depth)
  PROVE  p \in {Front(q) : q \in Ways(edges, lei, depth)}
           <=> ~(Hops(p) = depth \/ Longer(edges, p) = {})
<1>1. Hops(p) \in 1..depth /\ p \in PathsFrom(edges, lei, Hops(p))
  BY WaysByHops
<1>2. ASSUME NEW q \in Ways(edges, lei, depth), p = Front(q)
      PROVE  Hops(p) # depth /\ Longer(edges, p) # {}
  <2>1. Hops(q) \in 1..depth /\ q \in PathsFrom(edges, lei, Hops(q))
    BY WaysByHops
  <2> DEFINE n == Hops(q) - 1
  <2>2. n \in Nat /\ n + 1 = Hops(q) /\ n # depth
    BY <2>1
  <2> HIDE DEF n
  <2>3. q \in PathsFrom(edges, lei, n + 1)
    BY <2>1, <2>2
  <2>4. p \in PathsFrom(edges, lei, n) /\ q \in Longer(edges, p)
    BY <1>2, <2>2, <2>3, PathCameFrom
  <2>5. Hiked(edges, lei, n, p)
    BY <2>2, <2>4, PathShape
  <2>6. QED
    BY <2>2, <2>4, <2>5 DEF Hiked
<1>3. ASSUME Hops(p) # depth, NEW q \in Longer(edges, p)
      PROVE  q \in Ways(edges, lei, depth) /\ Front(q) = p
  <2> DEFINE n == Hops(p)
  <2>1. n \in Nat /\ n + 1 \in 1..depth
    BY <1>1, <1>3
  <2> HIDE DEF n
  <2>2. q \in PathsFrom(edges, lei, n + 1) /\ Front(q) = p
    <3>1. p \in PathsFrom(edges, lei, n)
      BY <1>1 DEF n
    <3>2. QED
      BY <1>3, <2>1, <3>1, PathGrows
  <2>3. QED
    BY <2>1, <2>2 DEF Ways
<1>4. QED
  BY <1>2, <1>3

\* The chains are the paths that go furthest, without the LEI asked about.
LEMMA ChainsAreFurthest ==
  ASSUME NEW edges \in SUBSET (LEIs \X LEIs), NEW lei \in LEIs, NEW depth \in Nat
  PROVE  Chains(edges, lei, depth) = {Tail(p) : p \in Furthest(edges, lei, depth)}
<1> DEFINE ways == Ways(edges, lei, depth)
<1>1. Chains(edges, lei, depth) = {Tail(p) : p \in ways \ {Front(q) : q \in ways}}
  BY ReportableAreWays DEF Chains
<1>2. ways \ {Front(q) : q \in ways} = Furthest(edges, lei, depth)
  <2>1. \A p \in ways : p \in {Front(q) : q \in ways}
                          <=> ~(Hops(p) = depth \/ Longer(edges, p) = {})
    BY FrontsGoOn
  <2> HIDE DEF ways
  <2>2. QED
    BY <2>1 DEF Furthest, ways
<1>3. QED
  BY <1>1, <1>2

\* What a path and its chain, without the LEI asked about, have in common.
Trimmed(lei, p) ==
  /\ Tail(p) \in Seq(LEIs) /\ Len(Tail(p)) = Hops(p) /\ Tail(p) # <<>>
  /\ Last(Tail(p)) = Last(p) /\ Last(p) \in LEIs
  /\ <<lei>> \o Tail(p) = p
  /\ ToSet(p) = {lei} \union ToSet(Tail(p))

\* A chain, put behind the LEI asked about, is its path again.
LEMMA TailOfWay ==
  ASSUME NEW edges \in SUBSET (LEIs \X LEIs), NEW lei \in LEIs, NEW depth \in Nat,
         NEW p \in Ways(edges, lei, depth)
  PROVE  Trimmed(lei, p)
<1> DEFINE n == Hops(p)
<1>1. n \in 1..depth /\ p \in PathsFrom(edges, lei, n)
  BY WaysByHops
<1>2. n \in Nat \ {0}
  BY <1>1
<1> HIDE DEF n
<1>3. Hiked(edges, lei, n, p)
  BY <1>1, <1>2, PathShape
<1>4. /\ p \in Seq(LEIs) /\ Len(p) = n + 1 /\ p[1] = lei /\ Last(p) = p[n + 1]
      /\ Last(p) \in LEIs
  BY <1>3 DEF Hiked
<1> DEFINE t == Tail(p)
<1>5. /\ t \in Seq(LEIs) /\ Len(t) = n /\ \A i \in 1..n : t[i] = p[i + 1]
  BY <1>2, <1>4
<1>6. <<lei>> \o t = p
  <2>1. <<lei>> \o t \in Seq(LEIs) /\ Len(<<lei>> \o t) = n + 1
    BY <1>2, <1>5
  <2>2. ASSUME NEW i \in 1..(n + 1) PROVE (<<lei>> \o t)[i] = p[i]
    <3>1. CASE i = 1
      BY <1>4, <1>5, <3>1
    <3>2. CASE i # 1
      <4>1. i - 1 \in 1..n /\ (<<lei>> \o t)[i] = t[i - 1]
        BY <1>2, <1>5, <3>2
      <4>2. QED
        BY <1>2, <1>5, <4>1
    <3>3. QED
      BY <3>1, <3>2
  <2> HIDE DEF t
  <2>3. QED
    BY <1>4, <2>1, <2>2, SeqEqual
<1>7. t # <<>>
  BY <1>2, <1>5
<1>8. Last(t) = Last(p)
  <2>1. Last(t) = t[n]
    BY <1>5 DEF Last
  <2>2. n \in 1..n
    BY <1>2
  <2>3. QED
    BY <1>4, <1>5, <2>1, <2>2
<1>9. ToSet(p) = {lei} \union ToSet(t)
  <2> DEFINE h == <<lei>>
  <2>1. h \in Seq(LEIs) /\ ToSet(h) = {lei}
    BY DEF ToSet
  <2>2. t \in Seq(LEIs)
    BY <1>5
  <2> HIDE DEF t, h
  <2>3. ToSet(h \o t) = ToSet(h) \union ToSet(t)
    BY <2>1, <2>2, ConcatenatedSets
  <2>4. h \o t = p
    BY <1>6 DEF h
  <2>5. QED
    BY <2>1, <2>3, <2>4
<1>10. QED
  BY <1>4, <1>5, <1>6, <1>7, <1>8, <1>9 DEF n, Trimmed

\* The walk says truncated just when some chain does go on past its end
\* (ParentChain.truncated).
LEMMA TruncationIsTold ==
  ASSUME NEW edges \in SUBSET (LEIs \X LEIs), NEW lei \in LEIs, NEW depth \in Nat \ {0}
  PROVE  Truncated(edges, lei, depth) <=>
           \E c \in Chains(edges, lei, depth) :
             ~(Parents(edges, Last(c)) \subseteq ToSet(c) \union {lei})
<1> DEFINE furthest == Furthest(edges, lei, depth)
<1>1. Chains(edges, lei, depth) = {Tail(p) : p \in furthest}
  BY ChainsAreFurthest
<1>2. \A p \in furthest : p \in Ways(edges, lei, depth)
  BY DEF Furthest
<1>3. \A p \in furthest : /\ Last(Tail(p)) = Last(p)
                          /\ ToSet(p) = ToSet(Tail(p)) \union {lei}
  <2> HIDE DEF furthest
  <2>1. \A p \in furthest : Trimmed(lei, p)
    BY <1>2, TailOfWay
  <2>2. QED
    BY <2>1 DEF Trimmed
<1>4. Truncated(edges, lei, depth) <=> PathsFrom(edges, lei, depth + 1) # {}
  <2>1. Rows(edges, lei, depth) = UNION {PathsFrom(edges, lei, n) : n \in 1..(depth + 1)}
    BY RowsArePaths
  <2>2. ASSUME NEW p \in Rows(edges, lei, depth)
        PROVE  Hops(p) > depth <=> p \in PathsFrom(edges, lei, depth + 1)
    <3>1. p \in Ways(edges, lei, depth + 1)
      BY <2>1 DEF Ways
    <3>2. depth + 1 \in Nat
      OBVIOUS
    <3>3. Hops(p) \in 1..(depth + 1) /\ p \in PathsFrom(edges, lei, Hops(p))
      BY <3>1, <3>2, WaysByHops
    <3>4. p \in PathsFrom(edges, lei, depth + 1) => Hiked(edges, lei, depth + 1, p)
      BY <3>2, PathShape
    <3>5. p \in PathsFrom(edges, lei, depth + 1) => Hops(p) = depth + 1
      BY <3>4 DEF Hiked
    <3>6. Hops(p) > depth => Hops(p) = depth + 1
      BY <3>3
    <3>7. QED
      BY <3>3, <3>5, <3>6
  <2>3. PathsFrom(edges, lei, depth + 1) \subseteq Rows(edges, lei, depth)
    <3>1. depth + 1 \in 1..(depth + 1)
      OBVIOUS
    <3>2. QED
      BY <2>1, <3>1
  <2>4. QED
    BY <2>2, <2>3 DEF Truncated
<1>5. ASSUME PathsFrom(edges, lei, depth + 1) # {}
      PROVE  \E p \in furthest : ~(Parents(edges, Last(p)) \subseteq ToSet(p))
  <2>1. PICK q : q \in PathsFrom(edges, lei, depth + 1)
    BY <1>5
  <2> DEFINE p == Front(q)
  <2>2. /\ p \in PathsFrom(edges, lei, depth)
        /\ Last(q) \in Parents(edges, Last(p)) \ ToSet(p)
    BY <2>1, PathCameFrom
  <2> HIDE DEF p
  <2>3. Hiked(edges, lei, depth, p)
    BY <2>2, PathShape
  <2>4. Hops(p) = depth /\ depth \in 1..depth
    BY <2>3 DEF Hiked
  <2>5. p \in furthest
    BY <2>2, <2>4 DEF Furthest, Ways
  <2> HIDE DEF furthest
  <2>6. QED
    BY <2>2, <2>5
<1>6. ASSUME NEW p \in furthest, ~(Parents(edges, Last(p)) \subseteq ToSet(p))
      PROVE  PathsFrom(edges, lei, depth + 1) # {}
  <2>1. PICK x \in Parents(edges, Last(p)) : x \notin ToSet(p)
    BY <1>6
  <2>2. Append(p, x) \in Longer(edges, p)
    BY <2>1 DEF Longer
  <2>3. Hops(p) = depth
    BY <2>2 DEF Furthest
  <2>4. p \in PathsFrom(edges, lei, depth)
    BY <1>2, <2>3, WaysByHops
  <2>5. Append(p, x) \in PathsFrom(edges, lei, depth + 1)
    BY <2>2, <2>4, PathGrows
  <2>6. QED
    BY <2>5
<1> HIDE DEF furthest
<1>7. QED
  BY <1>1, <1>3, <1>4, <1>5, <1>6

\* Some element of a set of naturals is the least.
LEMMA LeastElement ==
  ASSUME NEW T \in SUBSET Nat, T # {}
  PROVE  \E n \in T : \A m \in T : n <= m
<1> DEFINE R == OpToRel(<, Nat)
<1>1. IsWellFoundedOn(R, Nat)
  BY NatLessThanWellFounded
<1>2. PICK n \in T : \A m \in T : ~ (<<m, n>> \in R)
  <2> HIDE DEF R
  <2>1. QED
    BY <1>1, WFMin
<1>3. \A m \in T : ~(m < n)
  BY <1>2 DEF OpToRel
<1>4. QED
  BY <1>3

\* Each foreign parent at an end of the walk is flagged once, with a way there
\* that is as short as any.
FlaggedOnce(edges, lei, depth) ==
  LET flags == Flags(edges, LEIs, Jurisdiction, lei, depth)
  IN /\ \A f, g \in flags : f[1] = g[1] => f = g
     /\ \A f \in flags :
          /\ Last(f[2]) = f[1] /\ IsPath(edges, <<lei>> \o f[2])
          /\ \A n \in 1..(Len(f[2]) - 1) : \A p \in PathsFrom(edges, lei, n) :
               Tail(p) \in Chains(edges, lei, depth) => Last(p) # f[1]
     /\ {f[1] : f \in flags} = {p \in Endpoints(edges, lei, depth) :
                                  Jurisdiction[p] # Jurisdiction[lei]}

\* The flags made of a walk are so, over any graph (flag_from_match).
LEMMA FlagsAreRight ==
  ASSUME NEW edges \in SUBSET (LEIs \X LEIs), NEW lei \in LEIs, NEW depth \in Nat \ {0}
  PROVE  FlaggedOnce(edges, lei, depth)
<1> DEFINE chains == Chains(edges, lei, depth)
           Shortest(p, c) == Last(c) = p /\ \A d \in chains : Last(d) = p => Len(c) <= Len(d)
           Pick(p) == CHOOSE c \in chains : Shortest(p, c)
           foreign == {p \in Endpoints(edges, lei, depth) :
                         p \in LEIs /\ Jurisdiction[p] # Jurisdiction[lei]}
           flags == Flags(edges, LEIs, Jurisdiction, lei, depth)
<1>1. flags = {<<p, Pick(p)>> : p \in foreign}
  BY DEF Flags
<1>2. chains = {Tail(p) : p \in Furthest(edges, lei, depth)}
  BY ChainsAreFurthest
<1>3. \A c \in chains : \E p \in Furthest(edges, lei, depth) : c = Tail(p)
  BY <1>2
<1>4. ASSUME NEW c \in chains
      PROVE  Len(c) \in Nat /\ Last(c) \in LEIs /\ IsPath(edges, <<lei>> \o c)
  <2>1. PICK p \in Furthest(edges, lei, depth) : c = Tail(p)
    BY <1>3
  <2>2. p \in Ways(edges, lei, depth)
    BY DEF Furthest
  <2>3. /\ Tail(p) \in Seq(LEIs) /\ Last(Tail(p)) = Last(p) /\ Last(p) \in LEIs
        /\ <<lei>> \o Tail(p) = p /\ Len(Tail(p)) \in Nat
    <3>1. Trimmed(lei, p)
      BY <2>2, TailOfWay
    <3>2. QED
      BY <3>1 DEF Trimmed
  <2>4. p \in PathsFrom(edges, lei, Hops(p))
    BY <2>2, WaysByHops
  <2>5. IsPath(edges, p)
    BY <2>4 DEF PathsFrom
  <2>6. QED
    BY <2>1, <2>3, <2>5
<1>5. Endpoints(edges, lei, depth) = {Last(c) : c \in chains}
  BY DEF Endpoints
<1> HIDE DEF chains
<1>6. foreign = {p \in Endpoints(edges, lei, depth) : Jurisdiction[p] # Jurisdiction[lei]}
  BY <1>4, <1>5
<1>7. ASSUME NEW p \in foreign PROVE Pick(p) \in chains /\ Shortest(p, Pick(p))
  <2> DEFINE to == {c \in chains : Last(c) = p}
             lengths == {Len(c) : c \in to}
  <2>1. lengths \in SUBSET Nat /\ lengths # {}
    BY <1>4, <1>5
  <2>2. PICK k \in lengths : \A m \in lengths : k <= m
    <3> HIDE DEF lengths
    <3>1. QED
      BY <2>1, LeastElement
  <2>3. PICK c \in to : Len(c) = k
    BY <2>2
  <2>4. c \in chains /\ Shortest(p, c)
    BY <2>2, <2>3
  <2> HIDE DEF Shortest
  <2>5. QED
    BY <2>4
<1> HIDE DEF Pick, flags, foreign
<1>8. \A f, g \in flags : f[1] = g[1] => f = g
  BY <1>1
<1>9. ASSUME NEW f \in flags
      PROVE  /\ Last(f[2]) = f[1] /\ IsPath(edges, <<lei>> \o f[2])
             /\ \A n \in 1..(Len(f[2]) - 1) : \A p \in PathsFrom(edges, lei, n) :
                  Tail(p) \in chains => Last(p) # f[1]
  <2>1. PICK r \in foreign : f = <<r, Pick(r)>>
    BY <1>1
  <2>2. f[1] = r /\ f[2] = Pick(r)
    BY <2>1
  <2>3. /\ f[2] \in chains /\ Last(f[2]) = r
        /\ \A d \in chains : Last(d) = r => Len(f[2]) <= Len(d)
    BY <1>7, <2>2
  <2>4. ASSUME NEW n \in 1..(Len(f[2]) - 1), NEW p \in PathsFrom(edges, lei, n),
               Tail(p) \in chains
        PROVE  Last(p) # r
    <3>1. n \in Nat /\ n \in 1..n /\ n < Len(f[2])
      BY <1>4, <2>3
    <3>2. p \in Ways(edges, lei, n)
      BY <3>1 DEF Ways
    <3>3. Len(Tail(p)) = Hops(p) /\ Last(Tail(p)) = Last(p)
      <4>1. Trimmed(lei, p)
        BY <3>1, <3>2, TailOfWay
      <4>2. QED
        BY <4>1 DEF Trimmed
    <3>4. Hiked(edges, lei, n, p)
      BY <3>1, PathShape
    <3>5. Hops(p) = n
      BY <3>4 DEF Hiked
    <3>6. Len(f[2]) \in Nat
      BY <1>4, <2>3
    <3>7. ~(Len(f[2]) <= Len(Tail(p)))
      BY <3>1, <3>3, <3>5, <3>6
    <3>8. QED
      BY <2>3, <2>4, <3>3, <3>7
  <2>5. QED
    BY <1>4, <2>2, <2>3, <2>4
<1>10. {f[1] : f \in flags} = foreign
  <2>1. \A f \in flags : \E p \in foreign : f[1] = p
    BY <1>1
  <2>2. \A p \in foreign : <<p, Pick(p)>> \in flags /\ <<p, Pick(p)>>[1] = p
    BY <1>1
  <2>3. QED
    BY <2>1, <2>2
<1>11. QED
  BY <1>6, <1>8, <1>9, <1>10 DEF chains, flags, FlaggedOnce

-----------------------------------------------------------------------------
\* The type of a request, but for chains and counts, which Detailed is about:
\* what Whole says does not depend on them.
Shape(r) ==
  r \in [at : Labels, run : Nat, file : Files \union {NoFile},
         lists : SUBSET Lists, discovered : SUBSET Names,
         employers : Seq(ToSet(Affiliations)),
         chains : {r.chains}, truncated : BOOLEAN,
         findings : Seq(FindingRows), ties : Seq(TieRows),
         counts : {r.counts}, undisturbed : BOOLEAN]
RequestShape == Shape(request)

\* The part of the type invariant the proofs use, with what a request in the
\* middle of the GLEIF steps is known to hold.
Typed ==
  /\ case_state \in States \union {NoCase}
  /\ findings \subseteq FindingRows
  /\ ties \subseteq TieRows
  /\ gleif_lei \subseteq LEIs
  /\ RequestShape
  /\ request.at \in {"load_lei", "load_relationships"} => request.file \in Files
  /\ request.at \in {"climb", "name_parents"} => request.employers # <<>>
  /\ runs \in Nat
  /\ basis.discovered \subseteq Names

\* The findings of a discovery are rows of the table, and are written as a list
\* (reconcile, build_finding).
LEMMA FindingsOfType ==
  ASSUME NEW d \in SUBSET Names, NEW n \in Nat
  PROVE  /\ FindingsOf(d, n) \subseteq FindingRows /\ IsFiniteSet(FindingsOf(d, n))
         /\ SetToSeq(FindingsOf(d, n)) \in Seq(FindingRows)
         /\ ToSet(SetToSeq(FindingsOf(d, n))) = FindingsOf(d, n)
<1> DEFINE S == {m \in d : ~Cleared(m)}
           F == [m \in S |-> [name |-> m, factual_basis |-> FactualBasis(m), run |-> n]]
<1>1. FindingsOf(d, n) \subseteq FindingRows
  BY DEF FindingsOf, FindingRows, FactualBasis, FactualBases
<1>2. F \in Surjection(S, FindingsOf(d, n))
  BY DEF Surjection, FindingsOf
<1>3. IsFiniteSet(S)
  BY FS_Subset, InputAssumption
<1>4. IsFiniteSet(FindingsOf(d, n))
  <2> HIDE DEF S, F
  <2>1. QED
    BY <1>2, <1>3, FS_Surjection
<1>5. QED
  BY <1>1, <1>4, SetAsSequence

\* The same of the ties from discovered institutions
\* (ties_from_own_affiliations).
LEMMA OwnTiesType ==
  ASSUME NEW d \in SUBSET Names, NEW l \in SUBSET Lists, NEW n \in Nat
  PROVE  /\ OwnTies(d, l, n) \subseteq TieRows
         /\ SetToSeq(OwnTies(d, l, n)) \in Seq(TieRows)
         /\ ToSet(SetToSeq(OwnTies(d, l, n))) = OwnTies(d, l, n)
         /\ IsInjective(SetToSeq(OwnTies(d, l, n)))
<1> DEFINE S == {m \in d : Listed(m, l)}
           F == [m \in S |->
                   [kind |-> "own_affiliation_history", anchor |-> NoAffiliation, name |-> m,
                    related |-> IF Cleared(m) THEN NoFinding ELSE m,
                    parent |-> NoLei, truncated |-> FALSE, run |-> n]]
<1>1. OwnTies(d, l, n) \subseteq TieRows
  <2>1. OwnTies(d, l, n) = {F[m] : m \in S}
    BY DEF OwnTies
  <2>2. \A m \in S : F[m] \in TieRows
    BY DEF TieRows, TieKinds
  <2>3. QED
    BY <2>1, <2>2
<1>2. F \in Surjection(S, OwnTies(d, l, n))
  BY DEF Surjection, OwnTies
<1>3. IsFiniteSet(S)
  BY FS_Subset, InputAssumption
<1>4. IsFiniteSet(OwnTies(d, l, n))
  <2> HIDE DEF S, F
  <2>1. QED
    BY <1>2, <1>3, FS_Surjection
<1>5. QED
  BY <1>1, <1>4, SetAsSequence

\* What was declared is finite.
LEMMA AffiliationsAreFinite == IsFiniteSet(ToSet(Affiliations))
<1>1. Affiliations \in Surjection(1..Len(Affiliations), ToSet(Affiliations))
  <2>1. Affiliations \in Seq(ToSet(Affiliations))
    BY InputAssumption, Zenon
  <2>2. QED
    BY <2>1 DEF Surjection, ToSet
<1>2. IsFiniteSet(1..Len(Affiliations))
  BY InputAssumption, FS_Interval
<1>3. QED
  BY <1>1, <1>2, FS_Surjection

\* The same of the ties from what was declared
\* (ties_from_declared_affiliations).
LEMMA DeclaredTiesType ==
  ASSUME NEW l \in SUBSET Lists, NEW n \in Nat
  PROVE  /\ DeclaredTies(l, n) \subseteq TieRows
         /\ SetToSeq(DeclaredTies(l, n)) \in Seq(TieRows)
         /\ ToSet(SetToSeq(DeclaredTies(l, n))) = DeclaredTies(l, n)
         /\ IsInjective(SetToSeq(DeclaredTies(l, n)))
<1> DEFINE S == {a \in ToSet(Affiliations) : Listed(DeclaredName[a], l)}
           F == [a \in S |->
                   [kind |-> "declared_affiliation_direct", anchor |-> a, name |-> DeclaredName[a],
                    related |-> NoFinding, parent |-> NoLei, truncated |-> FALSE, run |-> n]]
<1>1. DeclaredTies(l, n) \subseteq TieRows
  <2>1. DeclaredTies(l, n) = {F[a] : a \in S}
    BY DEF DeclaredTies
  <2>2. \A a \in S : F[a] \in TieRows
    BY InputAssumption DEF TieRows, TieKinds
  <2>3. QED
    BY <2>1, <2>2
<1>2. F \in Surjection(S, DeclaredTies(l, n))
  BY DEF Surjection, DeclaredTies
<1>3. IsFiniteSet(S)
  BY FS_Subset, AffiliationsAreFinite
<1>4. IsFiniteSet(DeclaredTies(l, n))
  <2> HIDE DEF S, F
  <2>1. QED
    BY <1>2, <1>3, FS_Surjection
<1>5. QED
  BY <1>1, <1>4, SetAsSequence

\* The same of the ties of one employer, whatever chains the walk returned
\* (tie_from_ownership).
LEMMA EmployerTiesType ==
  ASSUME NEW e \in ToSet(Affiliations), NEW chains, NEW truncated \in BOOLEAN,
         NEW known \in SUBSET LEIs, NEW l \in SUBSET Lists, NEW n \in Nat
  PROVE  LET new == EmployerTies(e, chains, truncated, known, l, n)
         IN /\ new \subseteq TieRows
            /\ SetToSeq(new) \in Seq(TieRows)
            /\ ToSet(SetToSeq(new)) = new
            /\ IsInjective(SetToSeq(new))
<1> DEFINE new == EmployerTies(e, chains, truncated, known, l, n)
           S == {p \in {Last(c) : c \in chains} : p \in known /\ Listed(LegalName[p], l)}
           F == [p \in S |->
                   [kind |-> "declared_employer_ultimate_parent", anchor |-> e,
                    name |-> LegalName[p], related |-> NoFinding, parent |-> p,
                    truncated |-> truncated, run |-> n]]
<1>1. S \subseteq LEIs
  OBVIOUS
<1>2. new \subseteq TieRows
  <2>1. new = {F[p] : p \in S}
    BY DEF EmployerTies
  <2>2. \A p \in S : F[p] \in TieRows
    BY <1>1, InputAssumption DEF TieRows, TieKinds
  <2>3. QED
    BY <2>1, <2>2
<1>3. F \in Surjection(S, new)
  BY DEF Surjection, EmployerTies
<1>4. IsFiniteSet(S)
  BY <1>1, FS_Subset, InputAssumption
<1>5. IsFiniteSet(new)
  <2> HIDE DEF S, F, new
  <2>1. QED
    BY <1>3, <1>4, FS_Surjection
<1>6. QED
  BY <1>2, <1>5, SetAsSequence

\* No request in progress is a request of the right shape.
LEMMA IdleShape == Shape(Idle) /\ Idle.at = "idle"
<1>1. \A S : <<>> \in Seq(S)
  OBVIOUS
<1>2. {} \in SUBSET Lists /\ {} \in SUBSET Names /\ 0 \in Nat /\ TRUE \in BOOLEAN
      /\ FALSE \in BOOLEAN /\ "idle" \in Labels /\ NoFile \in Files \union {NoFile}
  BY DEF Labels
<1>3. QED
  BY <1>1, <1>2, Zenon DEF Shape, Idle

\* The initial states are typed.
LEMMA TypedInit == Init => Typed
BY DEF Init, Typed, RequestShape, Shape, Idle, NoBasis, Labels, States

\* Every step of a reconciliation and of the requests next to it keeps types.
LEMMA TypedNext == Typed /\ [Next]_vars => Typed'
<1> SUFFICES ASSUME Typed, [Next]_vars PROVE Typed'
  OBVIOUS
<1> USE DEF Typed, tables, gleif, history
<1>0. Discoveries \subseteq SUBSET Names /\ Files \subseteq FileRecords
      /\ Employers \in Seq(ToSet(Affiliations))
  BY InputAssumption, Zenon
<1>1. ASSUME NEW file \in Files \union {NoFile}, NEW lists \in SUBSET Lists, Reconcile(file, lists)
      PROVE  Typed'
  <2>1. request' = [Idle EXCEPT !.at = "discover", !.run = runs + 1, !.file = file,
                                !.lists = lists]
    BY <1>1 DEF Reconcile, Become
  <2>2. RequestShape' /\ request'.at = "discover" /\ runs' = runs + 1
    <3>1. runs + 1 \in Nat /\ "discover" \in Labels
      BY DEF Labels
    <3> HIDE DEF Typed
    <3>2. Shape([Idle EXCEPT !.at = "discover", !.run = runs + 1, !.file = file,
                             !.lists = lists])
      BY <3>1, IdleShape DEF Shape
    <3>3. QED
      BY <1>1, <2>1, <3>2, IdleShape DEF RequestShape, Reconcile, Shape
  <2>3. QED
    BY <1>1, <2>2 DEF Reconcile
<1>2. ASSUME NEW names \in Discoveries, Discover(names) PROVE Typed'
  <2> DEFINE next == IF request.file = NoFile THEN "load_lists" ELSE "load_lei"
  <2>1. request' = [request EXCEPT !.at = next, !.discovered = names]
    BY <1>2 DEF Discover, Become
  <2>2. next \in Labels /\ names \in SUBSET Names
    BY <1>0 DEF Labels
  <2>3. next = "load_lei" => request.file \in Files
    BY DEF RequestShape, Shape
  <2>4. next # "load_relationships" /\ next # "climb" /\ next # "name_parents"
    OBVIOUS
  <2> HIDE DEF next
  <2>5. RequestShape'
    BY <2>1, <2>2 DEF RequestShape, Shape
  <2>6. request'.at = next /\ request'.file = request.file
    BY <2>1 DEF RequestShape, Shape
  <2>7. QED
    BY <1>2, <2>3, <2>4, <2>5, <2>6 DEF Discover
<1>3. ASSUME DiscoveryFails \/ Crash PROVE Typed'
  BY <1>3, IdleShape DEF DiscoveryFails, Crash, Become, RequestShape
<1>4. ASSUME LoadLei PROVE Typed'
  <2>1. request.file.leis \subseteq LEIs
    BY <1>0, <1>4 DEF LoadLei, RequestShape, Shape, FileRecords
  <2>2. QED
    BY <1>4, <2>1 DEF LoadLei, GoTo, RequestShape, Shape, Labels
<1>5. ASSUME LoadRelationships PROVE Typed'
  <2>1. request' = [request EXCEPT !.at = "load_lists"]
    BY <1>5 DEF LoadRelationships, GoTo
  <2>2. RequestShape' /\ request'.at = "load_lists"
    BY <2>1 DEF RequestShape, Shape, Labels
  <2>3. QED
    BY <1>5, <2>2 DEF LoadRelationships
<1>l. ASSUME LoadLists PROVE Typed'
  <2>1. CASE request.file = NoFile
    <3>1. request' = [request EXCEPT !.at = "diff"]
      BY <1>l, <2>1 DEF LoadLists, GoTo
    <3>2. RequestShape' /\ request'.at = "diff"
      BY <3>1 DEF RequestShape, Shape, Labels
    <3>3. QED
      BY <1>l, <3>2 DEF LoadLists
  <2>2. CASE request.file # NoFile
    <3>1. request' = [request EXCEPT !.at = "match_employer", !.employers = Employers]
      BY <1>l, <2>2 DEF LoadLists, Become
    <3>2. RequestShape' /\ request'.at = "match_employer"
      BY <1>0, <3>1 DEF RequestShape, Shape, Labels
    <3>3. QED
      BY <1>l, <3>2 DEF LoadLists
  <2>3. QED
    BY <2>1, <2>2
<1>6. ASSUME MatchEmployer PROVE Typed'
  <2>1. CASE request.employers = <<>>
    BY <1>6, <2>1 DEF MatchEmployer, GoTo, RequestShape, Shape, Labels
  <2>2. CASE request.employers # <<>> /\ LeiOf[Head(request.employers)] \in gleif_lei
    BY <1>6, <2>2 DEF MatchEmployer, GoTo, RequestShape, Shape, Labels
  <2>3. CASE request.employers # <<>> /\ LeiOf[Head(request.employers)] \notin gleif_lei
    <3>1. Tail(request.employers) \in Seq(ToSet(Affiliations))
      BY <2>3, RestOfSequence DEF RequestShape, Shape
    <3>2. request' = [request EXCEPT !.employers = Tail(request.employers)]
      BY <1>6, <2>3 DEF MatchEmployer, Become
    <3>3. RequestShape' /\ request'.at = "match_employer"
      BY <1>6, <3>1, <3>2 DEF MatchEmployer, RequestShape, Shape
    <3>4. QED
      BY <1>6, <3>3 DEF MatchEmployer
  <2>4. QED
    BY <2>1, <2>2, <2>3
<1>7. ASSUME Climb PROVE Typed'
  <2>1. \A edges, lei : Truncated(edges, lei, MaxDepth) \in BOOLEAN
    BY DEF Truncated
  <2>2. QED
    BY <1>7, <2>1 DEF Climb, Become, RequestShape, Shape, Labels
<1>8. ASSUME NameParents PROVE Typed'
  <2> DEFINE new == EmployerTies(Head(request.employers), request.chains, request.truncated,
                                 gleif_lei, request.lists, request.run)
  <2>1. /\ Head(request.employers) \in ToSet(Affiliations)
        /\ Tail(request.employers) \in Seq(ToSet(Affiliations))
    <3>1. request.employers \in Seq(ToSet(Affiliations)) /\ request.employers # <<>>
      BY <1>8 DEF NameParents, RequestShape, Shape
    <3>2. QED
      BY <3>1, RestOfSequence
  <2>2. SetToSeq(new) \in Seq(TieRows)
    BY <2>1, EmployerTiesType DEF RequestShape, Shape
  <2>3. request.ties \o SetToSeq(new) \in Seq(TieRows)
    BY <2>2 DEF RequestShape, Shape
  <2> HIDE DEF new
  <2>4. request' = [request EXCEPT
          !.at = "match_employer", !.ties = request.ties \o SetToSeq(new),
          !.employers = Tail(request.employers), !.chains = {}, !.truncated = FALSE]
    BY <1>8 DEF NameParents, Become, new
  <2>5. QED
    BY <1>8, <2>1, <2>3, <2>4 DEF NameParents, RequestShape, Shape, Labels
<1>9. ASSUME Diff PROVE Typed'
  <2> DEFINE new == FindingsOf(request.discovered, request.run)
             own == OwnTies(request.discovered, request.lists, request.run)
             declared == DeclaredTies(request.lists, request.run)
             all == request.ties \o SetToSeq(own) \o SetToSeq(declared)
             counts == <<Cardinality(request.discovered), Cardinality(new), Len(all)>>
  <2>1. /\ request.discovered \in SUBSET Names /\ request.lists \in SUBSET Lists
        /\ request.run \in Nat /\ request.ties \in Seq(TieRows)
    BY DEF RequestShape, Shape
  <2>2. SetToSeq(new) \in Seq(FindingRows)
    BY <2>1, FindingsOfType
  <2>3. SetToSeq(own) \in Seq(TieRows) /\ SetToSeq(declared) \in Seq(TieRows)
    BY <2>1, OwnTiesType, DeclaredTiesType
  <2>4. request' = [request EXCEPT !.at = "delete_findings", !.findings = SetToSeq(new),
                                   !.ties = all, !.counts = counts]
    BY <1>9 DEF Diff, Become
  <2> HIDE DEF new, own, declared, counts
  <2>5. all \in Seq(TieRows)
    BY <2>1, <2>3
  <2> HIDE DEF all
  <2>6. RequestShape' /\ request'.at = "delete_findings"
    BY <2>2, <2>4, <2>5 DEF RequestShape, Shape, Labels
  <2>7. QED
    BY <1>9, <2>6 DEF Diff
<1>10. ASSUME DeleteFindings \/ DeleteTies \/ DeleteCase \/ InsertCase PROVE Typed'
  <2>1. \E label \in {"insert_findings", "insert_ties", "insert_case", "write_manifest"} :
          request' = [request EXCEPT !.at = label]
    BY <1>10 DEF DeleteFindings, DeleteTies, DeleteCase, InsertCase, GoTo
  <2>2. RequestShape' /\ request'.at \in {"insert_findings", "insert_ties", "insert_case",
                                           "write_manifest"}
    BY <2>1 DEF RequestShape, Shape, Labels
  <2>3. request.discovered \subseteq Names
    BY DEF RequestShape, Shape
  <2>4. QED
    BY <1>10, <2>2, <2>3 DEF DeleteFindings, DeleteTies, DeleteCase, InsertCase, States
<1>11. ASSUME InsertFinding PROVE Typed'
  <2>1. CASE request.findings = <<>>
    BY <1>11, <2>1 DEF InsertFinding, GoTo, RequestShape, Shape, Labels
  <2>2. CASE request.findings # <<>>
    <3>1. /\ Head(request.findings) \in FindingRows
          /\ Tail(request.findings) \in Seq(FindingRows)
      BY <2>2, RestOfSequence DEF RequestShape, Shape
    <3>2. request' = [request EXCEPT !.findings = Tail(request.findings)]
      BY <1>11, <2>2 DEF InsertFinding, Become
    <3>3. RequestShape' /\ request'.at = "insert_findings"
      BY <1>11, <3>1, <3>2 DEF InsertFinding, RequestShape, Shape
    <3>4. QED
      BY <1>11, <2>2, <3>1, <3>3 DEF InsertFinding
  <2>3. QED
    BY <2>1, <2>2
<1>12. ASSUME InsertTie PROVE Typed'
  <2>1. CASE request.ties = <<>>
    <3>1. request' = [request EXCEPT !.at = "delete_case"] /\ UNCHANGED ties
      BY <1>12, <2>1 DEF InsertTie, GoTo
    <3>2. RequestShape' /\ request'.at = "delete_case"
      BY <3>1 DEF RequestShape, Shape, Labels
    <3>3. QED
      BY <1>12, <3>1, <3>2 DEF InsertTie
  <2>2. CASE request.ties # <<>> /\ request' = Idle
    <3>1. ties' \subseteq TieRows
      <4>1. Head(request.ties) \in TieRows
        BY <2>2, RestOfSequence DEF RequestShape, Shape
      <4>2. QED
        BY <1>12, <2>2, <4>1 DEF InsertTie
    <3>2. RequestShape' /\ request'.at = "idle"
      BY <2>2, IdleShape DEF RequestShape
    <3>3. QED
      BY <1>12, <3>1, <3>2 DEF InsertTie
  <2>3. CASE request.ties # <<>> /\ request' # Idle
    <3>1. Head(request.ties) \in TieRows /\ Tail(request.ties) \in Seq(TieRows)
      BY <2>3, RestOfSequence DEF RequestShape, Shape
    <3>2. /\ ties' = ties \union {Head(request.ties)}
          /\ request' = [request EXCEPT !.ties = Tail(request.ties)]
      BY <1>12, <2>3 DEF InsertTie, Become
    <3>3. RequestShape' /\ request'.at = "insert_ties"
      BY <1>12, <3>1, <3>2 DEF InsertTie, RequestShape, Shape
    <3>4. QED
      BY <1>12, <3>1, <3>2, <3>3 DEF InsertTie
  <2>4. QED
    BY <2>1, <2>2, <2>3
<1>13. ASSUME WriteManifest PROVE Typed'
  BY <1>13 DEF WriteManifest, Become, RequestShape, Shape, Idle, Labels
<1>14. ASSUME NEW target \in States, Transition(target) PROVE Typed'
  BY <1>14 DEF Transition, RequestShape, Shape
<1>15. ASSUME NEW file \in Files, OtherLoadsLei(file) \/ OtherLoadsRelationships(file)
       PROVE  Typed'
  <2>1. file.leis \subseteq LEIs
    BY <1>0 DEF FileRecords
  <2> DEFINE idle == request.at = "idle"
  <2>2. request' = [request EXCEPT !.undisturbed = idle]
    BY <1>15 DEF OtherLoadsLei, OtherLoadsRelationships, Become, Disturbed
  <2>3. idle \in BOOLEAN
    OBVIOUS
  <2> HIDE DEF idle
  <2>4. /\ RequestShape' /\ request'.at = request.at /\ request'.file = request.file
        /\ request'.employers = request.employers
    BY <2>2, <2>3 DEF RequestShape, Shape
  <2>5. QED
    BY <1>15, <2>1, <2>4 DEF OtherLoadsLei, OtherLoadsRelationships
<1>16. ASSUME UNCHANGED vars PROVE Typed'
  BY <1>16 DEF vars, RequestShape, Shape
<1>17. QED
  BY <1>1, <1>2, <1>3, <1>4, <1>5, <1>l, <1>6, <1>7, <1>8, <1>9, <1>10, <1>11, <1>12, <1>13,
     <1>14, <1>15, <1>16 DEF Next

-----------------------------------------------------------------------------
\* The points of a request at an employer whose LEI was found.
AtEmployer == {"climb", "name_parents"}

\* What Typed leaves out: the rest of the variables, the chains, the counts, and
\* that an employer is climbed from only if its name has an LEI.
Detailed ==
  /\ manifest \in [run : Nat, counts : Seq(Nat)]
  /\ gleif_relationships \subseteq LEIs \X LEIs
  /\ loads \in Nat /\ crashes \in Nat
  /\ by_hand \in BOOLEAN
  /\ basis \in [run : Nat, discovered : SUBSET Names, lists : SUBSET Lists,
                file : Files \union {NoFile}, undisturbed : BOOLEAN]
  /\ request.chains \subseteq Seq(LEIs)
  /\ request.counts \in Seq(Nat)
  /\ request.at \in AtEmployer => LeiOf[Head(request.employers)] \in LEIs

\* The chains of an LEI are sequences of LEIs.
LEMMA ChainsType ==
  ASSUME NEW edges \in SUBSET (LEIs \X LEIs), NEW lei \in LEIs, NEW depth \in Nat
  PROVE  Chains(edges, lei, depth) \subseteq Seq(LEIs)
<1>1. Chains(edges, lei, depth) = {Tail(p) : p \in Furthest(edges, lei, depth)}
  BY ChainsAreFurthest
<1>2. \A p \in Furthest(edges, lei, depth) : Trimmed(lei, p)
  BY TailOfWay DEF Furthest
<1>3. QED
  BY <1>1, <1>2 DEF Trimmed

\* The initial states.
LEMMA DetailedInit == Init => Detailed
<1> SUFFICES ASSUME Init PROVE Detailed
  OBVIOUS
<1>1. GraphsBefore \subseteq SUBSET (LEIs \X LEIs)
  BY InputAssumption, Zenon
<1>2. request.at = "idle" /\ request.chains = {} /\ request.counts = <<>>
  BY DEF Init, Idle
<1>3. gleif_relationships \subseteq LEIs \X LEIs
  BY <1>1 DEF Init
<1>4. manifest \in [run : Nat, counts : Seq(Nat)]
  BY DEF Init
<1>5. basis \in [run : Nat, discovered : SUBSET Names, lists : SUBSET Lists,
                 file : Files \union {NoFile}, undisturbed : BOOLEAN]
  BY DEF Init, NoBasis
<1>6. QED
  BY <1>2, <1>3, <1>4, <1>5 DEF Init, Detailed, AtEmployer

\* Every step keeps them: the walk returns chains of LEIs (parent_chain), and
\* what the manifest counts is finite.
LEMMA DetailedNext == Typed /\ Typed' /\ Detailed /\ [Next]_vars => Detailed'
<1> SUFFICES ASSUME Typed, Typed', Detailed, [Next]_vars PROVE Detailed'
  OBVIOUS
<1> USE DEF tables, gleif, history, Become, GoTo
<1>0. Files \subseteq FileRecords
  BY InputAssumption, Zenon
<1>r. /\ request.run \in Nat /\ request.file \in Files \union {NoFile}
      /\ request.lists \in SUBSET Lists /\ request.discovered \in SUBSET Names
      /\ request.employers \in Seq(ToSet(Affiliations))
      /\ request.ties \in Seq(TieRows) /\ request.undisturbed \in BOOLEAN
  BY DEF Typed, RequestShape, Shape
<1>n. Idle.at = "idle" /\ Idle.chains = {} /\ Idle.counts = <<>> /\ <<>> \in Seq(Nat)
  BY DEF Idle
\* A step that changes of all this only what a request is at.
<1>1. ASSUME UNCHANGED <<manifest, gleif_relationships, loads, crashes, by_hand, basis>>,
             request'.chains \subseteq Seq(LEIs), request'.counts \in Seq(Nat),
             request'.at \in AtEmployer =>
               request'.at = "name_parents" /\ request.at = "climb"
               /\ request'.employers = request.employers
      PROVE  Detailed'
  <2>1. request'.at \in AtEmployer => LeiOf[Head(request'.employers)] \in LEIs
    BY <1>1 DEF Detailed, AtEmployer
  <2>2. QED
    BY <1>1, <2>1 DEF Detailed
<1>2. ASSUME NEW file \in Files \union {NoFile}, NEW lists \in SUBSET Lists, Reconcile(file, lists)
      PROVE  Detailed'
  <2>1. /\ request'.at = "discover" /\ request'.chains = {} /\ request'.counts = <<>>
        /\ UNCHANGED <<manifest, gleif_relationships, loads, crashes, by_hand, basis>>
    BY <1>2 DEF Reconcile, Idle
  <2>2. QED
    BY <1>1, <1>n, <2>1 DEF AtEmployer
<1>3. ASSUME NEW names \in Discoveries, Discover(names) PROVE Detailed'
  <2>1. /\ request'.at \in {"load_lists", "load_lei"} /\ request'.chains = request.chains
        /\ request'.counts = request.counts
        /\ UNCHANGED <<manifest, gleif_relationships, loads, crashes, by_hand, basis>>
    BY <1>3 DEF Discover, Typed, RequestShape, Shape
  <2>2. QED
    BY <1>1, <2>1 DEF AtEmployer, Detailed
<1>4. ASSUME DiscoveryFails PROVE Detailed'
  BY <1>1, <1>4, <1>n DEF DiscoveryFails, AtEmployer
<1>5. ASSUME Crash PROVE Detailed'
  <2>1. request' = Idle /\ crashes' = crashes + 1
        /\ UNCHANGED <<manifest, gleif_relationships, loads, by_hand, basis>>
    BY <1>5 DEF Crash
  <2>2. crashes' \in Nat
    BY <2>1 DEF Detailed
  <2>3. QED
    BY <1>n, <2>1, <2>2 DEF Detailed, AtEmployer
<1>6. ASSUME LoadLei PROVE Detailed'
  <2>1. /\ request'.at = "load_relationships" /\ request'.chains = request.chains
        /\ request'.counts = request.counts
        /\ UNCHANGED <<manifest, gleif_relationships, loads, crashes, by_hand, basis>>
    BY <1>6 DEF LoadLei, Typed, RequestShape, Shape
  <2>2. QED
    BY <1>1, <2>1 DEF AtEmployer, Detailed
<1>7. ASSUME LoadRelationships PROVE Detailed'
  <2>1. /\ request'.at = "load_lists" /\ request'.chains = request.chains
        /\ request'.counts = request.counts /\ gleif_relationships' = request.file.edges
        /\ request.at = "load_relationships"
        /\ UNCHANGED <<manifest, loads, crashes, by_hand, basis>>
    BY <1>7 DEF LoadRelationships, Typed, RequestShape, Shape
  <2>2. request.file.edges \subseteq LEIs \X LEIs
    BY <1>0, <2>1 DEF Typed, FileRecords
  <2>3. QED
    BY <2>1, <2>2 DEF AtEmployer, Detailed
<1>l. ASSUME LoadLists PROVE Detailed'
  <2>1. /\ request'.at \in {"diff", "match_employer"} /\ request'.chains = request.chains
        /\ request'.counts = request.counts
        /\ UNCHANGED <<manifest, gleif_relationships, loads, crashes, by_hand, basis>>
    <3>1. CASE request.file = NoFile
      BY <1>l, <3>1 DEF LoadLists, Typed, RequestShape, Shape
    <3>2. CASE request.file # NoFile
      BY <1>l, <3>2 DEF LoadLists, Typed, RequestShape, Shape
    <3>3. QED
      BY <3>1, <3>2
  <2>2. QED
    BY <1>1, <2>1 DEF AtEmployer, Detailed
<1>8. ASSUME MatchEmployer PROVE Detailed'
  <2>1. /\ request'.chains = request.chains /\ request'.counts = request.counts
        /\ request'.at \in AtEmployer => /\ LeiOf[Head(request.employers)] \in gleif_lei
                                         /\ request'.employers = request.employers
        /\ UNCHANGED <<manifest, gleif_relationships, loads, crashes, by_hand, basis>>
    <3>1. CASE request.employers = <<>>
      BY <1>8, <3>1 DEF MatchEmployer, Typed, RequestShape, Shape, AtEmployer
    <3>2. CASE request.employers # <<>> /\ LeiOf[Head(request.employers)] \in gleif_lei
      BY <1>8, <3>2 DEF MatchEmployer, Typed, RequestShape, Shape, AtEmployer
    <3>3. CASE request.employers # <<>> /\ LeiOf[Head(request.employers)] \notin gleif_lei
      BY <1>8, <3>3 DEF MatchEmployer, Typed, RequestShape, Shape, AtEmployer
    <3>4. QED
      BY <3>1, <3>2, <3>3
  <2>2. request'.at \in AtEmployer => LeiOf[Head(request'.employers)] \in LEIs
    BY <2>1 DEF Typed
  <2>3. QED
    BY <2>1, <2>2 DEF Detailed
<1>9. ASSUME Climb PROVE Detailed'
  <2> DEFINE lei == LeiOf[Head(request.employers)]
             found == Chains(gleif_relationships, lei, MaxDepth)
  <2>1. /\ request.at = "climb" /\ request'.at = "name_parents"
        /\ request'.employers = request.employers
        /\ request'.chains = found /\ request'.counts = request.counts
        /\ UNCHANGED <<manifest, gleif_relationships, loads, crashes, by_hand, basis>>
    BY <1>9 DEF Climb, Typed, RequestShape, Shape
  <2>2. lei \in LEIs /\ gleif_relationships \in SUBSET (LEIs \X LEIs)
    BY <2>1 DEF Detailed, AtEmployer
  <2>3. MaxDepth \in Nat
    BY InputAssumption
  <2>4. found \subseteq Seq(LEIs)
    <3> HIDE DEF lei
    <3>1. QED
      BY <2>2, <2>3, ChainsType
  <2> HIDE DEF found
  <2>5. QED
    BY <1>1, <2>1, <2>4 DEF Detailed
<1>10. ASSUME NameParents PROVE Detailed'
  <2>1. /\ request'.at = "match_employer" /\ request'.chains = {}
        /\ request'.counts = request.counts
        /\ UNCHANGED <<manifest, gleif_relationships, loads, crashes, by_hand, basis>>
    BY <1>10 DEF NameParents, Typed, RequestShape, Shape
  <2>2. QED
    BY <1>1, <2>1 DEF AtEmployer, Detailed
<1>11. ASSUME Diff PROVE Detailed'
  <2> DEFINE new == FindingsOf(request.discovered, request.run)
             own == SetToSeq(OwnTies(request.discovered, request.lists, request.run))
             declared == SetToSeq(DeclaredTies(request.lists, request.run))
             all == request.ties \o own \o declared
             counts == <<Cardinality(request.discovered), Cardinality(new), Len(all)>>
  <2>1. /\ request'.at = "delete_findings" /\ request'.chains = request.chains
        /\ request'.counts = counts
        /\ UNCHANGED <<manifest, gleif_relationships, loads, crashes, by_hand, basis>>
    BY <1>11 DEF Diff, Typed, RequestShape, Shape
  <2>2. Cardinality(request.discovered) \in Nat
    BY <1>r, FS_Subset, FS_CardinalityType, InputAssumption
  <2>3. Cardinality(new) \in Nat
    BY <1>r, FindingsOfType, FS_CardinalityType
  <2>4. Len(all) \in Nat
    <3>1. own \in Seq(TieRows) /\ declared \in Seq(TieRows)
      BY <1>r, OwnTiesType, DeclaredTiesType
    <3> HIDE DEF own, declared
    <3>2. all \in Seq(TieRows)
      BY <1>r, <3>1
    <3>3. QED
      BY <3>2
  <2> HIDE DEF new, all
  <2>5. counts \in Seq(Nat)
    BY <2>2, <2>3, <2>4
  <2> HIDE DEF counts
  <2>6. QED
    BY <1>1, <2>1, <2>5 DEF AtEmployer, Detailed
<1>12. ASSUME DeleteFindings \/ InsertFinding \/ DeleteTies \/ DeleteCase PROVE Detailed'
  <2>1. /\ request'.at \in {"insert_findings", "delete_ties", "insert_ties", "insert_case"}
        /\ request'.chains = request.chains /\ request'.counts = request.counts
        /\ UNCHANGED <<manifest, gleif_relationships, loads, crashes, by_hand, basis>>
    BY <1>12 DEF DeleteFindings, InsertFinding, DeleteTies, DeleteCase, Typed, RequestShape, Shape
  <2>2. QED
    BY <1>1, <2>1 DEF AtEmployer, Detailed
<1>13. ASSUME InsertTie PROVE Detailed'
  <2>1. /\ \/ request' = Idle
           \/ /\ request'.at \in {"insert_ties", "delete_case"}
              /\ request'.chains = request.chains /\ request'.counts = request.counts
        /\ UNCHANGED <<manifest, gleif_relationships, loads, crashes, by_hand, basis>>
    BY <1>13 DEF InsertTie, Typed, RequestShape, Shape
  <2>2. QED
    BY <1>1, <1>n, <2>1 DEF AtEmployer, Detailed
<1>14. ASSUME InsertCase PROVE Detailed'
  <2>1. /\ request'.at = "write_manifest" /\ request'.chains = request.chains
        /\ request'.counts = request.counts
        /\ UNCHANGED <<manifest, gleif_relationships, loads, crashes>>
        /\ by_hand' = FALSE
        /\ basis' = [run |-> request.run, discovered |-> request.discovered,
                     lists |-> request.lists, file |-> request.file,
                     undisturbed |-> request.undisturbed]
    BY <1>14 DEF InsertCase, Typed, RequestShape, Shape
  <2>2. basis' \in [run : Nat, discovered : SUBSET Names, lists : SUBSET Lists,
                    file : Files \union {NoFile}, undisturbed : BOOLEAN]
    BY <1>r, <2>1
  <2>3. QED
    BY <2>1, <2>2 DEF AtEmployer, Detailed
<1>15. ASSUME WriteManifest PROVE Detailed'
  <2>1. /\ request' = Idle /\ manifest' = [run |-> request.run, counts |-> request.counts]
        /\ UNCHANGED <<gleif_relationships, loads, crashes, by_hand, basis>>
    BY <1>15 DEF WriteManifest
  <2>2. manifest' \in [run : Nat, counts : Seq(Nat)]
    BY <1>r, <2>1 DEF Detailed
  <2>3. QED
    BY <1>n, <2>1, <2>2 DEF AtEmployer, Detailed
<1>16. ASSUME NEW target \in States, Transition(target) PROVE Detailed'
  <2>1. /\ UNCHANGED <<request, manifest, gleif_relationships, loads, crashes, basis>>
        /\ by_hand' = IF case_state = "discovery" THEN TRUE ELSE by_hand
    BY <1>16 DEF Transition
  <2>2. by_hand' \in BOOLEAN
    BY <2>1, Zenon DEF Detailed
  <2>3. QED
    BY <2>1, <2>2 DEF Detailed
<1>17. ASSUME NEW file \in Files, OtherLoadsLei(file) \/ OtherLoadsRelationships(file)
       PROVE  Detailed'
  <2>1. /\ request'.at = request.at /\ request'.chains = request.chains
        /\ request'.counts = request.counts /\ request'.employers = request.employers
        /\ loads' = loads + 1
        /\ gleif_relationships' \in {gleif_relationships, file.edges}
        /\ UNCHANGED <<manifest, crashes, by_hand, basis>>
    BY <1>17 DEF OtherLoadsLei, OtherLoadsRelationships, Disturbed, Typed, RequestShape, Shape
  <2>2. file.edges \subseteq LEIs \X LEIs
    BY <1>0 DEF FileRecords
  <2>3. gleif_relationships' \subseteq LEIs \X LEIs /\ loads' \in Nat
    BY <2>1, <2>2 DEF Detailed
  <2>4. QED
    BY <2>1, <2>3 DEF Detailed
<1>18. ASSUME UNCHANGED vars PROVE Detailed'
  BY <1>18 DEF vars, Detailed
<1>19. QED
  BY <1>2, <1>3, <1>4, <1>5, <1>6, <1>7, <1>l, <1>8, <1>9, <1>10, <1>11, <1>12, <1>13, <1>14,
     <1>15, <1>16, <1>17, <1>18 DEF Next

\* Both parts of the types hold throughout.
THEOREM AlwaysTyped == Spec => [](Typed /\ Detailed)
<1>1. Init => Typed /\ Detailed
  BY TypedInit, DetailedInit
<1>2. Typed /\ Detailed /\ [Next]_vars => Typed' /\ Detailed'
  BY TypedNext, DetailedNext
<1>3. QED
  BY <1>1, <1>2, PTL DEF Spec

\* Every reachable state is well typed, for any institutions, files and number
\* of reconciliations: what the recursive query returns are chains of LEIs.
THEOREM ReconciliationsKeepTypes == Spec => []ReconciliationTypeOK
<1>1. Typed /\ Detailed => ReconciliationTypeOK
  <2> SUFFICES ASSUME Typed, Detailed PROVE ReconciliationTypeOK
    OBVIOUS
  <2>1. /\ Shape(request) /\ request.chains \in SUBSET Seq(LEIs)
        /\ request.counts \in Seq(Nat)
    BY DEF Typed, RequestShape, Detailed
  <2>2. request \in Requests
    BY <2>1 DEF Shape, Requests
  <2>3. QED
    BY <2>2 DEF Typed, Detailed, ReconciliationTypeOK
<1>2. QED
  BY <1>1, AlwaysTyped, PTL

-----------------------------------------------------------------------------
\* For any graph, LEI and depth bound: the chains the recursive query returns
\* are the paths that go as far as the bound or cannot go on (graph.py).
THEOREM WalksAreMaximal == Spec => []ChainsAreMaximalPaths
<1>1. Detailed => ChainsAreMaximalPaths
  <2> SUFFICES ASSUME Detailed, NEW lei \in LEIs, NEW depth \in Depths
               PROVE  Chains(gleif_relationships, lei, depth) =
                        {Tail(p) : p \in {q \in UNION {PathsFrom(gleif_relationships, lei, n) :
                                                         n \in 1..depth} :
                           Hops(q) = depth \/ Longer(gleif_relationships, q) = {}}}
    BY DEF ChainsAreMaximalPaths
  <2>1. depth \in Nat
    BY InputAssumption DEF Depths
  <2>2. gleif_relationships \in SUBSET (LEIs \X LEIs)
    BY DEF Detailed
  <2>3. QED
    BY <2>1, <2>2, ChainsAreFurthest DEF Furthest, Ways
<1>2. QED
  BY <1>1, AlwaysTyped, PTL

\* The walk says truncated just when some chain does go on past its end, so an
\* endpoint of a walk that does not say so has nobody above it but LEIs on the
\* way to it (ParentChain.truncated).
THEOREM EndpointsAreAlwaysConfirmed == Spec => []EndpointsAreConfirmed
<1>1. Detailed => EndpointsAreConfirmed
  <2> SUFFICES ASSUME Detailed, NEW lei \in LEIs, NEW depth \in Depths
               PROVE  Truncated(gleif_relationships, lei, depth) <=>
                        \E c \in Chains(gleif_relationships, lei, depth) :
                          ~(Parents(gleif_relationships, Last(c)) \subseteq ToSet(c) \union {lei})
    BY DEF EndpointsAreConfirmed
  <2>1. depth \in Nat \ {0}
    BY InputAssumption DEF Depths
  <2>2. gleif_relationships \in SUBSET (LEIs \X LEIs)
    BY DEF Detailed
  <2>3. QED
    BY <2>1, <2>2, TruncationIsTold
<1>2. QED
  BY <1>1, AlwaysTyped, PTL

\* Each foreign parent at an end of the walk is flagged once, with a way to it
\* that exists and is as short as any (flag_from_match).
THEOREM FlagsAreOnePerParent == Spec => []OneFlagPerParent
<1>1. Detailed => OneFlagPerParent
  <2> SUFFICES ASSUME Detailed, NEW lei \in LEIs, NEW depth \in Depths
               PROVE  FlaggedOnce(gleif_relationships, lei, depth)
    BY DEF OneFlagPerParent, FlaggedOnce
  <2>1. depth \in Nat \ {0}
    BY InputAssumption DEF Depths
  <2>2. gleif_relationships \in SUBSET (LEIs \X LEIs)
    BY DEF Detailed
  <2>3. QED
    BY <2>1, <2>2, FlagsAreRight
<1>2. QED
  BY <1>1, AlwaysTyped, PTL

-----------------------------------------------------------------------------
\* The points of a request before it moves the case.
Working == {"discover", "load_lei", "load_relationships", "load_lists", "match_employer",
            "climb", "name_parents", "diff", "delete_findings", "insert_findings",
            "delete_ties", "insert_ties", "delete_case", "insert_case"}

\* Until it moves the case, a reconciliation works on a case that is not yet on
\* the worksheet.
Busy == request.at \in Working => case_state \in RECONCILE_ALLOWED_STATES \union {NoCase}

\* Every step keeps Busy: the route admits no other states, and the case is
\* moved by nobody else meanwhile.
LEMMA BusyNext == Typed /\ Typed' /\ Busy /\ [Next]_vars => Busy'
<1> SUFFICES ASSUME Typed, Typed', Busy, [Next]_vars PROVE Busy'
  OBVIOUS
<1> USE DEF Busy, Typed, RequestShape, Shape, tables, gleif, history, Become, GoTo
<1>1. ASSUME NEW file \in Files \union {NoFile}, NEW lists \in SUBSET Lists, Reconcile(file, lists)
      PROVE  Busy'
  BY <1>1 DEF Reconcile
<1>2. ASSUME NEW names \in Discoveries, Discover(names) PROVE Busy'
  BY <1>2 DEF Discover, Working
<1>3. ASSUME DiscoveryFails \/ Crash \/ WriteManifest PROVE Busy'
  BY <1>3, IdleShape DEF DiscoveryFails, Crash, WriteManifest, Working
<1>4. ASSUME LoadLei \/ LoadRelationships PROVE Busy'
  BY <1>4 DEF LoadLei, LoadRelationships, Working
<1>5. ASSUME LoadLists \/ MatchEmployer \/ Climb \/ NameParents \/ Diff PROVE Busy'
  BY <1>5 DEF LoadLists, MatchEmployer, Climb, NameParents, Diff, Working
<1>6. ASSUME DeleteFindings \/ InsertFinding \/ DeleteTies PROVE Busy'
  BY <1>6 DEF DeleteFindings, InsertFinding, DeleteTies, Working
<1>7. ASSUME InsertTie PROVE Busy'
  BY <1>7 DEF InsertTie, Working
<1>8. ASSUME DeleteCase \/ InsertCase PROVE Busy'
  BY <1>8 DEF DeleteCase, InsertCase, Working
<1>9. ASSUME NEW target \in States, Transition(target) PROVE Busy'
  BY <1>9 DEF Transition, Working
<1>10. ASSUME NEW file \in Files, OtherLoadsLei(file) \/ OtherLoadsRelationships(file)
       PROVE  Busy'
  BY <1>10 DEF OtherLoadsLei, OtherLoadsRelationships, Disturbed
<1>11. ASSUME UNCHANGED vars PROVE Busy'
  BY <1>11 DEF vars
<1>12. QED
  BY <1>1, <1>2, <1>3, <1>4, <1>5, <1>6, <1>7, <1>8, <1>9, <1>10, <1>11 DEF Next

-----------------------------------------------------------------------------
\* Two rows that may have one key.
MayClash(t, u) == Twins(t, u) \/ OfRepeatedId(t, u)

\* No other two rows of a list have one key.
Apart(rows) ==
  \A i, j \in 1..Len(rows) : i < j /\ TieKey(rows[i]) = TieKey(rows[j]) =>
    MayClash(rows[i], rows[j])

\* The points of a request before the climb, in it, and while it saves.
Starting == {"discover", "load_lei", "load_relationships", "load_lists"}
Climbing == {"match_employer", "climb", "name_parents"}
Saving == {"delete_findings", "insert_findings", "delete_ties", "insert_ties"}

\* The ties gathered so far are those of employers already done, so the next
\* employer brings keys of its own, or of a row with the same id; in the table
\* are rows of this request only.
Keyed ==
  /\ request.at \in Starting => request.ties = <<>>
  /\ request.at \in Climbing =>
       /\ IsInjective(request.employers)
       /\ \A i \in 1..Len(request.ties) :
            request.ties[i].anchor \in ToSet(Affiliations) \ ToSet(request.employers)
  /\ request.at \in Climbing \union {"diff"} =>
       \A i \in 1..Len(request.ties) :
         request.ties[i].kind = "declared_employer_ultimate_parent"
  /\ request.at \in Climbing \union {"diff"} \union Saving => Apart(request.ties)
  /\ request.at = "insert_ties" =>
       \A t \in ties : \A i \in 1..Len(request.ties) :
         TieKey(t) = TieKey(request.ties[i]) => MayClash(t, request.ties[i])

\* Inserting the first row leaves rows that are apart.
LEMMA RestIsApart ==
  ASSUME NEW s \in Seq(TieRows), s # <<>>, Apart(s)
  PROVE  Apart(Tail(s))
<1>1. /\ Len(s) \in Nat /\ Len(Tail(s)) = Len(s) - 1
      /\ \A i \in 1..Len(Tail(s)) : Tail(s)[i] = s[i + 1]
  BY RestOfSequence
<1>2. SUFFICES ASSUME NEW i \in 1..Len(Tail(s)), NEW j \in 1..Len(Tail(s)), i < j,
                      TieKey(Tail(s)[i]) = TieKey(Tail(s)[j])
               PROVE  MayClash(Tail(s)[i], Tail(s)[j])
  BY DEF Apart
<1>3. /\ i + 1 \in 1..Len(s) /\ j + 1 \in 1..Len(s) /\ i + 1 < j + 1
      /\ Tail(s)[i] = s[i + 1] /\ Tail(s)[j] = s[j + 1]
  BY <1>1, <1>2
<1>4. QED
  BY <1>2, <1>3 DEF Apart

\* Two lists that may share a key only as rows of one list may are apart if each
\* of them is.
LEMMA JoinedAreApart ==
  ASSUME NEW s \in Seq(TieRows), NEW t \in Seq(TieRows),
         Apart(s), Apart(t),
         \A i \in 1..Len(s), j \in 1..Len(t) :
            TieKey(s[i]) = TieKey(t[j]) => MayClash(s[i], t[j])
  PROVE  Apart(s \o t)
<1>1. /\ Len(s) \in Nat /\ Len(t) \in Nat /\ Len(s \o t) = Len(s) + Len(t)
      /\ \A i \in 1..Len(s) : (s \o t)[i] = s[i]
      /\ \A i \in 1..Len(s \o t) : i \notin 1..Len(s) => /\ i - Len(s) \in 1..Len(t)
                                                      /\ (s \o t)[i] = t[i - Len(s)]
  OBVIOUS
<1> DEFINE u == s \o t
<1> HIDE DEF u
<1>2. SUFFICES ASSUME NEW i \in 1..Len(u), NEW j \in 1..Len(u), i < j,
                      TieKey(u[i]) = TieKey(u[j])
               PROVE  MayClash(u[i], u[j])
  BY DEF Apart, u
<1>3. CASE i \in 1..Len(s) /\ j \in 1..Len(s)
  <2>1. u[i] = s[i] /\ u[j] = s[j]
    BY <1>1, <1>3 DEF u
  <2>2. QED
    BY <1>2, <1>3, <2>1 DEF Apart
<1>4. CASE i \in 1..Len(s) /\ j \notin 1..Len(s)
  <2>1. u[i] = s[i] /\ j - Len(s) \in 1..Len(t) /\ u[j] = t[j - Len(s)]
    BY <1>1, <1>4 DEF u
  <2>2. QED
    BY <1>2, <1>4, <2>1
<1>5. CASE i \notin 1..Len(s)
  <2>1. j \notin 1..Len(s)
    BY <1>1, <1>2, <1>5 DEF u
  <2>2. /\ i - Len(s) \in 1..Len(t) /\ u[i] = t[i - Len(s)]
        /\ j - Len(s) \in 1..Len(t) /\ u[j] = t[j - Len(s)]
    BY <1>1, <1>5, <2>1 DEF u
  <2>3. i - Len(s) < j - Len(s)
    BY <1>1, <1>2 DEF u
  <2>4. QED
    BY <1>2, <2>2, <2>3 DEF Apart
<1>6. QED
  BY <1>3, <1>4, <1>5

\* A list without repetition is apart if its rows are.
LEMMA DistinctAreApart ==
  ASSUME NEW s \in Seq(TieRows), IsInjective(s),
         \A r, q \in ToSet(s) : TieKey(r) = TieKey(q) =>
            r = q \/ MayClash(r, q)
  PROVE  Apart(s)
<1>1. DOMAIN s = 1..Len(s) /\ Len(s) \in Nat
  OBVIOUS
<1>2. SUFFICES ASSUME NEW i \in 1..Len(s), NEW j \in 1..Len(s), i < j,
                      TieKey(s[i]) = TieKey(s[j])
               PROVE  MayClash(s[i], s[j])
  BY DEF Apart
<1>3. s[i] \in ToSet(s) /\ s[j] \in ToSet(s)
  BY <1>1 DEF ToSet
<1>4. s[i] # s[j]
  BY <1>1, <1>2 DEF IsInjective
<1>5. QED
  BY <1>2, <1>3, <1>4

\* The name tells apart the ties from discovered institutions.
LEMMA OwnTiesAreApart ==
  ASSUME NEW d \in SUBSET Names, NEW l \in SUBSET Lists, NEW n \in Nat
  PROVE  Apart(SetToSeq(OwnTies(d, l, n)))
<1>1. \A r, q \in OwnTies(d, l, n) : TieKey(r) = TieKey(q) => r = q
  <2>1. SUFFICES ASSUME NEW r \in OwnTies(d, l, n), NEW q \in OwnTies(d, l, n),
                        TieKey(r) = TieKey(q)
                 PROVE  r = q
    OBVIOUS
  <2>2. r.name = q.name
    BY <2>1 DEF TieKey
  <2> DEFINE F(m) == [kind |-> "own_affiliation_history", anchor |-> NoAffiliation, name |-> m,
                      related |-> IF Cleared(m) THEN NoFinding ELSE m,
                      parent |-> NoLei, truncated |-> FALSE, run |-> n]
  <2>3. r = F(r.name) /\ q = F(q.name)
    <3>1. PICK m \in d : r = F(m)
      BY DEF OwnTies
    <3>2. PICK k \in d : q = F(k)
      BY DEF OwnTies
    <3>3. QED
      BY <3>1, <3>2
  <2> HIDE DEF F
  <2>4. QED
    BY <2>2, <2>3
<1>2. QED
  BY <1>1, OwnTiesType, DistinctAreApart

\* A key is of the same row of a declaration, or of one with the same id.
LEMMA KeyOfAnchor ==
  ASSUME NEW t, NEW u, TieKey(t) = TieKey(u), t.anchor # u.anchor,
         t.anchor \in ToSet(Affiliations), u.anchor \in ToSet(Affiliations)
  PROVE  MayClash(t, u)
<1>1. t.anchor # NoAffiliation /\ u.anchor # NoAffiliation
  BY InputAssumption
<1>2. AffiliationId[t.anchor] = AffiliationId[u.anchor]
  BY <1>1 DEF TieKey
<1>3. QED
  BY <1>2 DEF MayClash, OfRepeatedId

\* The anchor tells apart the ties from what was declared, and the id does if it
\* is not repeated.
LEMMA DeclaredTiesAreApart ==
  ASSUME NEW l \in SUBSET Lists, NEW n \in Nat
  PROVE  Apart(SetToSeq(DeclaredTies(l, n)))
<1>1. \A r, q \in DeclaredTies(l, n) : TieKey(r) = TieKey(q) => r = q \/ MayClash(r, q)
  <2>1. SUFFICES ASSUME NEW r \in DeclaredTies(l, n), NEW q \in DeclaredTies(l, n),
                        TieKey(r) = TieKey(q)
                 PROVE  r = q \/ MayClash(r, q)
    OBVIOUS
  <2> DEFINE F(a) == [kind |-> "declared_affiliation_direct", anchor |-> a,
                      name |-> DeclaredName[a], related |-> NoFinding, parent |-> NoLei,
                      truncated |-> FALSE, run |-> n]
  <2>2. /\ r = F(r.anchor) /\ r.anchor \in ToSet(Affiliations)
        /\ q = F(q.anchor) /\ q.anchor \in ToSet(Affiliations)
    <3>1. PICK a \in ToSet(Affiliations) : r = F(a)
      BY DEF DeclaredTies
    <3>2. PICK b \in ToSet(Affiliations) : q = F(b)
      BY DEF DeclaredTies
    <3>3. QED
      BY <3>1, <3>2
  <2> HIDE DEF F
  <2>3. CASE r.anchor = q.anchor
    BY <2>2, <2>3
  <2>4. CASE r.anchor # q.anchor
    BY <2>1, <2>2, <2>4, KeyOfAnchor
  <2>5. QED
    BY <2>3, <2>4
<1>2. QED
  BY <1>1, DeclaredTiesType, DistinctAreApart

\* The ties of one employer share a key only for parents of one legal name.
LEMMA EmployerTiesAreApart ==
  ASSUME NEW e \in ToSet(Affiliations), NEW chains, NEW truncated \in BOOLEAN,
         NEW known \in SUBSET LEIs, NEW l \in SUBSET Lists, NEW n \in Nat
  PROVE  Apart(SetToSeq(EmployerTies(e, chains, truncated, known, l, n)))
<1> DEFINE new == EmployerTies(e, chains, truncated, known, l, n)
<1>1. \A r, q \in new : TieKey(r) = TieKey(q) => r = q \/ MayClash(r, q)
  <2>1. SUFFICES ASSUME NEW r \in new, NEW q \in new, TieKey(r) = TieKey(q)
                 PROVE  r = q \/ MayClash(r, q)
    OBVIOUS
  <2>2. r.name = q.name
    BY <2>1 DEF TieKey
  <2>3. r.name = LegalName[r.parent] /\ q.name = LegalName[q.parent]
    BY DEF EmployerTies
  <2>4. (r.parent = q.parent => r = q) /\ r.anchor = q.anchor
    BY DEF EmployerTies
  <2>5. QED
    BY <2>2, <2>3, <2>4 DEF MayClash, Twins
<1>2. QED
  <2> HIDE DEF new
  <2>1. new \subseteq TieRows /\ SetToSeq(new) \in Seq(TieRows)
        /\ ToSet(SetToSeq(new)) = new /\ IsInjective(SetToSeq(new))
    BY EmployerTiesType DEF new
  <2>2. Apart(SetToSeq(new))
    BY <1>1, <2>1, DistinctAreApart
  <2>3. QED
    BY <2>2 DEF new

\* The first employer is not among the rest.
LEMMA RestIsInjective ==
  ASSUME NEW T, NEW s \in Seq(T), s # <<>>, IsInjective(s)
  PROVE  IsInjective(Tail(s)) /\ Head(s) \notin ToSet(Tail(s))
<1>1. /\ Len(s) \in Nat \ {0} /\ Len(Tail(s)) = Len(s) - 1 /\ Head(s) = s[1]
      /\ DOMAIN s = 1..Len(s) /\ DOMAIN Tail(s) = 1..Len(Tail(s))
      /\ \A i \in 1..Len(Tail(s)) : Tail(s)[i] = s[i + 1]
  OBVIOUS
<1>2. \A i, j \in 1..Len(s) : s[i] = s[j] => i = j
  BY <1>1 DEF IsInjective
<1>3. \A i, j \in 1..Len(Tail(s)) : Tail(s)[i] = Tail(s)[j] => i = j
  BY <1>1, <1>2
<1>4. \A i \in 1..Len(Tail(s)) : Tail(s)[i] # Head(s)
  BY <1>1, <1>2
<1>5. QED
  BY <1>1, <1>3, <1>4 DEF IsInjective, ToSet

\* Every step keeps Keyed: the climb adds the ties of one employer after the
\* other, and diff those of the two other kinds.
LEMMA KeyedNext == Typed /\ Typed' /\ Keyed /\ [Next]_vars => Keyed'
<1> SUFFICES ASSUME Typed, Typed', Keyed, [Next]_vars PROVE Keyed'
  OBVIOUS
<1> USE DEF Typed, RequestShape, Shape, tables, gleif, history, Become, GoTo
<1>1. ASSUME NEW file \in Files \union {NoFile}, NEW lists \in SUBSET Lists, Reconcile(file, lists)
      PROVE  Keyed'
  <2>1. request'.at = "discover" /\ request'.ties = <<>>
    BY <1>1 DEF Reconcile, Idle
  <2>2. QED
    BY <2>1 DEF Keyed, Starting, Climbing, Saving
<1>2. ASSUME NEW names \in Discoveries, Discover(names) PROVE Keyed'
  <2>1. request'.at \in {"load_lists", "load_lei"} /\ request'.ties = <<>>
    BY <1>2 DEF Discover, Keyed, Starting
  <2>2. QED
    BY <2>1 DEF Keyed, Starting, Climbing, Saving
<1>3. ASSUME request'.at \in {"idle", "delete_case", "insert_case", "write_manifest"} PROVE Keyed'
  BY <1>3 DEF Keyed, Starting, Climbing, Saving
<1>4. ASSUME LoadLei \/ LoadRelationships PROVE Keyed'
  BY <1>4 DEF LoadLei, LoadRelationships, Keyed, Starting, Climbing, Saving
<1>5. ASSUME LoadLists PROVE Keyed'
  <2>1. request.ties = <<>>
    BY <1>5 DEF LoadLists, Keyed, Starting
  <2>2. Apart(<<>>)
    BY DEF Apart
  <2>3. CASE request.file = NoFile
    <3>1. request'.at = "diff" /\ request'.ties = <<>>
      BY <1>5, <2>1, <2>3 DEF LoadLists
    <3>2. QED
      BY <2>2, <3>1 DEF Keyed, Starting, Climbing, Saving
  <2>4. CASE request.file # NoFile
    <3>1. IsInjective(Employers)
      BY InputAssumption, Zenon
    <3>2. request' = [request EXCEPT !.at = "match_employer", !.employers = Employers]
      BY <1>5, <2>4 DEF LoadLists
    <3>3. request'.at = "match_employer" /\ request'.employers = Employers /\ request'.ties = <<>>
      BY <2>1, <3>2
    <3>4. QED
      BY <2>2, <3>1, <3>3 DEF Keyed, Starting, Climbing, Saving
  <2>5. QED
    BY <2>3, <2>4
<1>6. ASSUME MatchEmployer \/ Climb PROVE Keyed'
  <2>1. request.at \in Climbing /\ request'.at \in Climbing \union {"diff"}
        /\ request'.ties = request.ties
        /\ (request'.employers = request.employers
            \/ (request.employers # <<>> /\ request'.employers = Tail(request.employers)))
    BY <1>6 DEF MatchEmployer, Climb, Climbing
  <2>2. IsInjective(request'.employers) /\ ToSet(request'.employers) \subseteq ToSet(request.employers)
    <3>1. CASE request'.employers = request.employers
      BY <2>1, <3>1 DEF Keyed
    <3>2. CASE request.employers # <<>> /\ request'.employers = Tail(request.employers)
      <4>1. /\ Len(Tail(request.employers)) = Len(request.employers) - 1
            /\ Tail(request.employers) \in Seq(ToSet(Affiliations))
            /\ \A i \in 1..Len(Tail(request.employers)) :
                  Tail(request.employers)[i] = request.employers[i + 1]
            /\ ToSet(Tail(request.employers)) \subseteq ToSet(request.employers)
        BY <3>2, RestOfSequence
      <4>2. IsInjective(request.employers)
        BY <2>1 DEF Keyed
      <4>3. QED
        BY <3>2, <4>1, <4>2, RestIsInjective
    <3>3. QED
      BY <2>1, <3>1, <3>2
  <2>3. QED
    BY <2>1, <2>2 DEF Keyed, Starting, Climbing, Saving
<1>7. ASSUME NameParents PROVE Keyed'
  <2> DEFINE e == Head(request.employers)
             new == EmployerTies(e, request.chains, request.truncated,
                                 gleif_lei, request.lists, request.run)
             s == SetToSeq(new)
  <2>1. /\ request.employers \in Seq(ToSet(Affiliations)) /\ request.employers # <<>>
        /\ request.at = "name_parents" /\ request.ties \in Seq(TieRows)
    BY <1>7 DEF NameParents
  <2>2. /\ e \in ToSet(Affiliations)
        /\ ToSet(request.employers) = {e} \union ToSet(Tail(request.employers))
        /\ request.truncated \in BOOLEAN /\ gleif_lei \in SUBSET LEIs
        /\ request.lists \in SUBSET Lists /\ request.run \in Nat
    BY <2>1, RestOfSequence
  <2>3. IsInjective(Tail(request.employers)) /\ e \notin ToSet(Tail(request.employers))
    BY <2>1, RestIsInjective DEF Keyed, Climbing
  <2>4. /\ new \subseteq TieRows /\ s \in Seq(TieRows) /\ ToSet(s) = new
        /\ Apart(s)
    <3> HIDE DEF Typed, e
    <3>1. QED
      BY <2>2, EmployerTiesType, EmployerTiesAreApart
  <2>5. \A i \in 1..Len(s) : s[i].anchor = e /\ s[i].kind = "declared_employer_ultimate_parent"
    <3>1. \A r \in new : r.anchor = e /\ r.kind = "declared_employer_ultimate_parent"
      BY DEF EmployerTies
    <3> HIDE DEF new, s
    <3>2. \A i \in 1..Len(s) : s[i] \in new
      BY <2>4 DEF ToSet
    <3>3. QED
      BY <3>1, <3>2
  <2>6. /\ request'.at = "match_employer" /\ request'.ties = request.ties \o s
        /\ request'.employers = Tail(request.employers)
    BY <1>7 DEF NameParents
  <2> HIDE DEF new, s, e
  <2>7. \A i \in 1..Len(request.ties) :
          /\ request.ties[i].anchor \in ToSet(Affiliations) \ ToSet(request.employers)
          /\ request.ties[i].kind = "declared_employer_ultimate_parent"
    BY <2>1 DEF Keyed, Climbing
  <2>8. ASSUME NEW i \in 1..Len(request.ties), NEW j \in 1..Len(s),
               TieKey(request.ties[i]) = TieKey(s[j])
        PROVE  MayClash(request.ties[i], s[j])
    <3>1. /\ request.ties[i].anchor \in ToSet(Affiliations) /\ s[j].anchor \in ToSet(Affiliations)
          /\ request.ties[i].anchor # s[j].anchor
      BY <2>2, <2>5, <2>7
    <3>2. QED
      BY <2>8, <3>1, KeyOfAnchor
  <2>9. Apart(request.ties \o s)
    BY <2>1, <2>4, <2>8, JoinedAreApart DEF Keyed, Climbing
  <2>10. \A i \in 1..Len(request.ties \o s) :
           /\ (request.ties \o s)[i].anchor
                \in ToSet(Affiliations) \ ToSet(Tail(request.employers))
           /\ (request.ties \o s)[i].kind = "declared_employer_ultimate_parent"
    <3>1. TAKE i \in 1..Len(request.ties \o s)
    <3>2. \/ i \in 1..Len(request.ties) /\ (request.ties \o s)[i] = request.ties[i]
          \/ i - Len(request.ties) \in 1..Len(s)
             /\ (request.ties \o s)[i] = s[i - Len(request.ties)]
      BY <2>1, <2>4
    <3>3. QED
      BY <2>2, <2>3, <2>5, <2>7, <3>2
  <2>11. QED
    BY <2>3, <2>6, <2>9, <2>10 DEF Keyed, Starting, Climbing, Saving
<1>8. ASSUME Diff PROVE Keyed'
  <2> DEFINE s == SetToSeq(OwnTies(request.discovered, request.lists, request.run))
             t == SetToSeq(DeclaredTies(request.lists, request.run))
  <2>1. /\ request.at = "diff" /\ request.discovered \in SUBSET Names
        /\ request.lists \in SUBSET Lists /\ request.run \in Nat
        /\ request.ties \in Seq(TieRows)
    BY <1>8 DEF Diff
  <2>2. s \in Seq(TieRows) /\ t \in Seq(TieRows) /\ Apart(s) /\ Apart(t)
    BY <2>1, OwnTiesType, DeclaredTiesType, OwnTiesAreApart, DeclaredTiesAreApart
  <2>3. /\ \A i \in 1..Len(s) : s[i].kind = "own_affiliation_history"
        /\ \A i \in 1..Len(t) : t[i].kind = "declared_affiliation_direct"
    <3>1. /\ \A r \in OwnTies(request.discovered, request.lists, request.run) :
               r.kind = "own_affiliation_history"
          /\ \A r \in DeclaredTies(request.lists, request.run) :
               r.kind = "declared_affiliation_direct"
      BY DEF OwnTies, DeclaredTies
    <3>2. /\ ToSet(s) = OwnTies(request.discovered, request.lists, request.run)
          /\ ToSet(t) = DeclaredTies(request.lists, request.run)
      BY <2>1, OwnTiesType, DeclaredTiesType
    <3> HIDE DEF s, t
    <3>3. /\ \A i \in 1..Len(s) : s[i] \in ToSet(s)
          /\ \A i \in 1..Len(t) : t[i] \in ToSet(t)
      BY <2>2 DEF ToSet
    <3>4. QED
      BY <3>1, <3>2, <3>3
  <2>4. request'.at = "delete_findings" /\ request'.ties = (request.ties \o s) \o t
    BY <1>8 DEF Diff
  <2> HIDE DEF s, t
  <2>5. \A i \in 1..Len(request.ties) : request.ties[i].kind = "declared_employer_ultimate_parent"
    BY <2>1 DEF Keyed, Climbing
  <2>6. Apart(request.ties)
    BY <2>1 DEF Keyed
  <2>7. request.ties \o s \in Seq(TieRows) /\ Apart(request.ties \o s)
    <3>1. \A i \in 1..Len(request.ties), j \in 1..Len(s) :
            TieKey(request.ties[i]) # TieKey(s[j])
      BY <2>3, <2>5 DEF TieKey
    <3>2. request.ties \o s \in Seq(TieRows)
      BY <2>1, <2>2
    <3>3. Apart(request.ties \o s)
      <4> HIDE DEF Typed
      <4>1. QED
        BY <2>1, <2>2, <2>6, <3>1, JoinedAreApart
    <3>4. QED
      BY <3>2, <3>3
  <2>8. \A i \in 1..Len(request.ties \o s) :
          (request.ties \o s)[i].kind # "declared_affiliation_direct"
    <3>1. TAKE i \in 1..Len(request.ties \o s)
    <3>2. \/ i \in 1..Len(request.ties) /\ (request.ties \o s)[i] = request.ties[i]
          \/ i - Len(request.ties) \in 1..Len(s)
             /\ (request.ties \o s)[i] = s[i - Len(request.ties)]
      BY <2>1, <2>2
    <3>3. QED
      BY <2>3, <2>5, <3>2
  <2>9. Apart((request.ties \o s) \o t)
    <3>1. \A i \in 1..Len(request.ties \o s), j \in 1..Len(t) :
            TieKey((request.ties \o s)[i]) # TieKey(t[j])
      BY <2>3, <2>8 DEF TieKey
    <3>2. QED
      BY <2>2, <2>7, <3>1, JoinedAreApart
  <2>10. QED
    BY <2>4, <2>9 DEF Keyed, Starting, Climbing, Saving
<1>9. ASSUME DeleteFindings \/ InsertFinding \/ DeleteTies PROVE Keyed'
  <2>1. /\ request.at \in Saving /\ request'.at \in Saving /\ request'.ties = request.ties
        /\ request'.at = "insert_ties" => ties' = {}
    BY <1>9 DEF DeleteFindings, InsertFinding, DeleteTies, Saving
  <2>2. QED
    BY <2>1 DEF Keyed, Starting, Climbing, Saving
<1>10. ASSUME InsertTie PROVE Keyed'
  <2>1. CASE request'.at = "insert_ties" /\ request.ties # <<>>
    <3>1. request.at = "insert_ties" /\ request'.ties = Tail(request.ties)
      BY <1>10, <2>1 DEF InsertTie, Idle
    <3>2. /\ Apart(request.ties)
          /\ \A t \in ties : \A i \in 1..Len(request.ties) :
               TieKey(t) = TieKey(request.ties[i]) => MayClash(t, request.ties[i])
      BY <3>1 DEF Keyed, Saving
    <3>3. Apart(Tail(request.ties))
      BY <2>1, <3>2, RestIsApart
    <3>4. /\ Len(request.ties) \in Nat \ {0} /\ Len(Tail(request.ties)) = Len(request.ties) - 1
          /\ Head(request.ties) = request.ties[1]
          /\ \A i \in 1..Len(Tail(request.ties)) : Tail(request.ties)[i] = request.ties[i + 1]
      BY <2>1, RestOfSequence
    <3>5. ties' \subseteq ties \union {request.ties[1]}
      BY <1>10, <3>4 DEF InsertTie
    <3>6. ASSUME NEW t \in ties', NEW i \in 1..Len(Tail(request.ties)),
                 TieKey(t) = TieKey(Tail(request.ties)[i])
          PROVE  MayClash(t, Tail(request.ties)[i])
      <4>1. /\ i + 1 \in 1..Len(request.ties) /\ 1 \in 1..Len(request.ties) /\ 1 < i + 1
            /\ Tail(request.ties)[i] = request.ties[i + 1]
        BY <3>4
      <4>2. CASE t \in ties
        BY <3>2, <3>6, <4>1, <4>2
      <4>3. CASE t = request.ties[1]
        BY <3>2, <3>6, <4>1, <4>3 DEF Apart
      <4>4. QED
        BY <3>5, <4>2, <4>3
    <3>7. QED
      BY <2>1, <3>1, <3>3, <3>6 DEF Keyed, Starting, Climbing, Saving
  <2>2. CASE request'.at \in {"idle", "delete_case"}
    BY <1>3, <2>2
  <2>3. QED
    BY <1>10, <2>1, <2>2, IdleShape DEF InsertTie
<1>11. ASSUME NEW file \in Files, OtherLoadsLei(file) \/ OtherLoadsRelationships(file)
       PROVE  Keyed'
  <2>1. request'.at = request.at /\ request'.ties = request.ties
        /\ request'.employers = request.employers /\ ties' = ties
    BY <1>11 DEF OtherLoadsLei, OtherLoadsRelationships, Disturbed
  <2>2. QED
    BY <2>1 DEF Keyed
<1>12. ASSUME NEW target \in States, Transition(target) PROVE Keyed'
  BY <1>12 DEF Transition, Keyed
<1>13. ASSUME UNCHANGED vars PROVE Keyed'
  BY <1>13 DEF vars, Keyed
<1>14. ASSUME DiscoveryFails \/ Crash \/ WriteManifest \/ DeleteCase \/ InsertCase PROVE Keyed'
  <2>1. request'.at \in {"idle", "insert_case", "write_manifest"}
    BY <1>14, IdleShape DEF DiscoveryFails, Crash, WriteManifest, DeleteCase, InsertCase
  <2>2. QED
    BY <1>3, <2>1
<1>15. QED
  BY <1>1, <1>2, <1>4, <1>5, <1>6, <1>7, <1>8, <1>9, <1>10, <1>11, <1>12, <1>13, <1>14 DEF Next

-----------------------------------------------------------------------------
\* Rows of ties that are all of one run, with all own-affiliation ties of it.
Complete(rows, discovered, lists, run) ==
  /\ \A t \in rows : t.run = run
  /\ {t \in rows : t.kind = "own_affiliation_history"} = OwnTies(discovered, lists, run)

FindingsOfRequest == FindingsOf(request.discovered, request.run)
TiesOfRequest(rows) == Complete(rows, request.discovered, request.lists, request.run)

\* What is in the tables and what a request still holds add up, at each point,
\* to what it found out.
Written ==
  /\ request.at \in Starting \union Climbing \union {"diff"} =>
       \A t \in ToSet(request.ties) :
         t.run = request.run /\ t.kind = "declared_employer_ultimate_parent"
  /\ request.at = "delete_findings" => ToSet(request.findings) = FindingsOfRequest
  /\ request.at = "insert_findings" =>
       findings \union ToSet(request.findings) = FindingsOfRequest
  /\ request.at \in {"delete_ties", "insert_ties", "delete_case", "insert_case"} =>
       findings = FindingsOfRequest
  /\ request.at \in {"delete_findings", "insert_findings", "delete_ties"} =>
       TiesOfRequest(ToSet(request.ties))
  /\ request.at = "insert_ties" => TiesOfRequest(ties \union ToSet(request.ties))
  /\ request.at \in {"delete_case", "insert_case"} => TiesOfRequest(ties)

\* The tables of a case that a reconciliation moved to the worksheet.
Settled ==
  Reviewed /\ ~by_hand =>
    /\ findings = FindingsOf(basis.discovered, basis.run)
    /\ Complete(ties, basis.discovered, basis.lists, basis.run)

\* An empty list holds no row.
LEMMA EmptySequence == ToSet(<<>>) = {}
BY DEF ToSet

\* Every step keeps Written: each DELETE empties what the INSERTs then fill.
LEMMA WrittenNext == Typed /\ Typed' /\ Written /\ [Next]_vars => Written'
<1> SUFFICES ASSUME Typed, Typed', Written, [Next]_vars PROVE Written'
  OBVIOUS
<1> USE DEF Typed, RequestShape, Shape, tables, gleif, history, Become, GoTo
<1>1. ASSUME NEW file \in Files \union {NoFile}, NEW lists \in SUBSET Lists, Reconcile(file, lists)
      PROVE  Written'
  <2>1. request'.at = "discover" /\ request'.ties = <<>>
    BY <1>1 DEF Reconcile, Idle
  <2>2. QED
    BY <2>1, EmptySequence DEF Written, Starting, Climbing
<1>2. ASSUME NEW names \in Discoveries, Discover(names) PROVE Written'
  <2>1. request.at = "discover" /\ request'.at \in {"load_lists", "load_lei"}
        /\ request'.ties = request.ties /\ request'.run = request.run
    BY <1>2 DEF Discover
  <2>2. QED
    BY <2>1 DEF Written, Starting, Climbing
<1>3. ASSUME request'.at \in {"idle", "write_manifest"} PROVE Written'
  BY <1>3 DEF Written, Starting, Climbing
<1>4. ASSUME LoadLei \/ LoadRelationships \/ LoadLists \/ MatchEmployer \/ Climb PROVE Written'
  <2>1. /\ request.at \in Starting \union Climbing
        /\ request'.at \in Starting \union Climbing \union {"diff"}
        /\ request'.ties = request.ties /\ request'.run = request.run
    BY <1>4 DEF LoadLei, LoadRelationships, LoadLists, MatchEmployer, Climb, Starting, Climbing
  <2>2. QED
    BY <2>1 DEF Written, Starting, Climbing
<1>5. ASSUME NameParents PROVE Written'
  <2> DEFINE e == Head(request.employers)
             new == EmployerTies(e, request.chains, request.truncated,
                                 gleif_lei, request.lists, request.run)
             s == SetToSeq(new)
  <2>1. /\ request.employers \in Seq(ToSet(Affiliations)) /\ request.employers # <<>>
        /\ request.at = "name_parents" /\ request.ties \in Seq(TieRows)
        /\ request.truncated \in BOOLEAN /\ gleif_lei \in SUBSET LEIs
        /\ request.lists \in SUBSET Lists /\ request.run \in Nat
    BY <1>5 DEF NameParents
  <2>2. e \in ToSet(Affiliations)
    BY <2>1, RestOfSequence
  <2>3. s \in Seq(TieRows) /\ ToSet(s) = new
    <3> HIDE DEF Typed, e
    <3>1. QED
      BY <2>1, <2>2, EmployerTiesType
  <2>4. \A t \in new : t.run = request.run /\ t.kind = "declared_employer_ultimate_parent"
    BY DEF EmployerTies
  <2>5. request'.at = "match_employer" /\ request'.ties = request.ties \o s
        /\ request'.run = request.run
    BY <1>5 DEF NameParents
  <2> HIDE DEF e, new, s
  <2>6. ToSet(request.ties \o s) = ToSet(request.ties) \union new
    BY <2>1, <2>3, ConcatenatedSets
  <2>7. QED
    BY <2>1, <2>4, <2>5, <2>6 DEF Written, Starting, Climbing
<1>6. ASSUME Diff PROVE Written'
  <2> DEFINE f == FindingsOf(request.discovered, request.run)
             own == OwnTies(request.discovered, request.lists, request.run)
             declared == DeclaredTies(request.lists, request.run)
             all == (request.ties \o SetToSeq(own)) \o SetToSeq(declared)
  <2>1. /\ request.at = "diff" /\ request.discovered \in SUBSET Names
        /\ request.lists \in SUBSET Lists /\ request.run \in Nat
        /\ request.ties \in Seq(TieRows)
    BY <1>6 DEF Diff
  <2>2. ToSet(SetToSeq(f)) = f
    BY <2>1, FindingsOfType
  <2>3. /\ SetToSeq(own) \in Seq(TieRows) /\ ToSet(SetToSeq(own)) = own
        /\ SetToSeq(declared) \in Seq(TieRows) /\ ToSet(SetToSeq(declared)) = declared
    BY <2>1, OwnTiesType, DeclaredTiesType
  <2>4. /\ \A t \in own : t.run = request.run /\ t.kind = "own_affiliation_history"
        /\ \A t \in declared : t.run = request.run /\ t.kind = "declared_affiliation_direct"
    BY DEF OwnTies, DeclaredTies
  <2>5. \A t \in ToSet(request.ties) :
          t.run = request.run /\ t.kind = "declared_employer_ultimate_parent"
    BY <2>1 DEF Written
  <2>6. /\ request'.at = "delete_findings" /\ request'.ties = all
        /\ request'.findings = SetToSeq(f) /\ request'.discovered = request.discovered
        /\ request'.run = request.run /\ request'.lists = request.lists
    BY <1>6 DEF Diff
  <2> HIDE DEF f, own, declared
  <2>7. ToSet(all) = (ToSet(request.ties) \union own) \union declared
    <3> DEFINE first == request.ties \o SetToSeq(own)
    <3>1. first \in Seq(TieRows) /\ ToSet(first) = ToSet(request.ties) \union own
      BY <2>1, <2>3, ConcatenatedSets
    <3> HIDE DEF first, Typed
    <3>2. ToSet(first \o SetToSeq(declared)) = ToSet(first) \union declared
      BY <2>3, <3>1, ConcatenatedSets
    <3>3. QED
      BY <3>1, <3>2 DEF first
  <2> HIDE DEF all
  <2>8. /\ \A t \in ToSet(all) : t.run = request.run
        /\ {t \in ToSet(all) : t.kind = "own_affiliation_history"} = own
    BY <2>4, <2>5, <2>7
  <2>9. TiesOfRequest(ToSet(request.ties))'
    BY <2>6, <2>8 DEF TiesOfRequest, Complete, own
  <2>10. ToSet(request'.findings) = FindingsOfRequest'
    BY <2>2, <2>6 DEF FindingsOfRequest, f
  <2>11. QED
    BY <2>6, <2>9, <2>10 DEF Written, Starting, Climbing
<1> DEFINE Same == /\ request'.discovered = request.discovered
                   /\ request'.lists = request.lists /\ request'.run = request.run
<1>same. ASSUME Same PROVE /\ FindingsOfRequest' = FindingsOfRequest
                           /\ \A rows : Complete(rows, request'.discovered, request'.lists, request'.run)
                                         = TiesOfRequest(rows)
  BY <1>same DEF FindingsOfRequest, TiesOfRequest
<1>7. ASSUME DeleteFindings PROVE Written'
  <2>1. /\ request.at = "delete_findings" /\ request'.at = "insert_findings" /\ Same
        /\ request'.findings = request.findings /\ request'.ties = request.ties
        /\ findings' = {}
    BY <1>7 DEF DeleteFindings
  <2>2. /\ ToSet(request.findings) = FindingsOfRequest
        /\ TiesOfRequest(ToSet(request.ties))
    BY <2>1 DEF Written
  <2>3. findings' \union ToSet(request'.findings) = FindingsOfRequest'
    BY <2>1, <2>2, <1>same
  <2>4. TiesOfRequest(ToSet(request.ties))'
    BY <2>1, <2>2 DEF TiesOfRequest
  <2>5. QED
    BY <2>1, <2>3, <2>4 DEF Written, Starting, Climbing
<1>8. ASSUME InsertFinding PROVE Written'
  <2>1. /\ request.at = "insert_findings" /\ request'.ties = request.ties /\ Same
    BY <1>8 DEF InsertFinding
  <2>2. /\ findings \union ToSet(request.findings) = FindingsOfRequest
        /\ TiesOfRequest(ToSet(request.ties))
    BY <2>1 DEF Written
  <2>3. TiesOfRequest(ToSet(request.ties))'
    BY <2>1, <2>2 DEF TiesOfRequest
  <2>4. CASE request.findings = <<>>
    <3>1. request'.at = "delete_ties" /\ findings' = findings
      BY <1>8, <2>4 DEF InsertFinding
    <3>2. findings' = FindingsOfRequest'
      BY <2>1, <2>2, <2>4, <3>1, EmptySequence, <1>same
    <3>3. QED
      BY <2>3, <3>1, <3>2 DEF Written, Starting, Climbing
  <2>5. CASE request.findings # <<>>
    <3>1. /\ request'.at = "insert_findings" /\ request'.findings = Tail(request.findings)
          /\ findings' = findings \union {Head(request.findings)}
      BY <1>8, <2>5 DEF InsertFinding
    <3>2. ToSet(request.findings) = {Head(request.findings)} \union ToSet(Tail(request.findings))
      BY <2>5, RestOfSequence
    <3>3. findings' \union ToSet(request'.findings) = FindingsOfRequest'
      BY <2>1, <2>2, <3>1, <3>2, <1>same
    <3>4. QED
      BY <2>3, <3>1, <3>3 DEF Written, Starting, Climbing
  <2>6. QED
    BY <2>4, <2>5
<1>9. ASSUME DeleteTies PROVE Written'
  <2>1. /\ request.at = "delete_ties" /\ request'.at = "insert_ties" /\ Same
        /\ request'.ties = request.ties /\ findings' = findings /\ ties' = {}
    BY <1>9 DEF DeleteTies
  <2>2. findings = FindingsOfRequest /\ TiesOfRequest(ToSet(request.ties))
    BY <2>1 DEF Written
  <2>3. findings' = FindingsOfRequest'
    BY <2>1, <2>2, <1>same
  <2>4. ties' \union ToSet(request'.ties) = ToSet(request.ties)
    BY <2>1
  <2>5. TiesOfRequest(ties \union ToSet(request.ties))'
    BY <2>1, <2>2, <2>4 DEF TiesOfRequest
  <2>6. QED
    BY <2>1, <2>3, <2>5 DEF Written, Starting, Climbing
<1>10. ASSUME InsertTie PROVE Written'
  <2>1. request.at = "insert_ties" /\ findings' = findings
    BY <1>10 DEF InsertTie
  <2>2. findings = FindingsOfRequest /\ TiesOfRequest(ties \union ToSet(request.ties))
    BY <2>1 DEF Written
  <2>3. CASE request.ties = <<>>
    <3>1. request'.at = "delete_case" /\ ties' = ties /\ Same
      BY <1>10, <2>3 DEF InsertTie
    <3>2. findings' = FindingsOfRequest'
      BY <2>1, <2>2, <3>1, <1>same
    <3>3. ties \union ToSet(request.ties) = ties'
      BY <2>3, <3>1, EmptySequence
    <3>4. TiesOfRequest(ties)'
      BY <2>2, <3>1, <3>3 DEF TiesOfRequest
    <3>5. QED
      BY <3>1, <3>2, <3>4 DEF Written, Starting, Climbing
  <2>4. CASE request.ties # <<>> /\ request' # Idle
    <3>1. /\ request'.at = "insert_ties" /\ request'.ties = Tail(request.ties) /\ Same
          /\ ties' = ties \union {Head(request.ties)}
      BY <1>10, <2>4 DEF InsertTie
    <3>2. ToSet(request.ties) = {Head(request.ties)} \union ToSet(Tail(request.ties))
      BY <2>4, RestOfSequence
    <3>3. ties' \union ToSet(request'.ties) = ties \union ToSet(request.ties)
      BY <3>1, <3>2
    <3>4. findings' = FindingsOfRequest'
      BY <2>1, <2>2, <3>1, <1>same
    <3>5. TiesOfRequest(ties \union ToSet(request.ties))'
      BY <2>2, <3>1, <3>3 DEF TiesOfRequest
    <3>6. QED
      BY <3>1, <3>4, <3>5 DEF Written, Starting, Climbing
  <2>5. CASE request' = Idle
    BY <2>5, <1>3, IdleShape
  <2>6. QED
    BY <2>3, <2>4, <2>5
<1>11. ASSUME DeleteCase PROVE Written'
  <2>1. /\ request.at = "delete_case" /\ request'.at = "insert_case" /\ Same
        /\ findings' = findings /\ ties' = ties
    BY <1>11 DEF DeleteCase
  <2>2. findings = FindingsOfRequest /\ TiesOfRequest(ties)
    BY <2>1 DEF Written
  <2>3. findings' = FindingsOfRequest' /\ TiesOfRequest(ties)'
    BY <2>1, <2>2, <1>same DEF TiesOfRequest
  <2>4. QED
    BY <2>1, <2>3 DEF Written, Starting, Climbing
<1>12. ASSUME DiscoveryFails \/ Crash \/ WriteManifest \/ InsertCase PROVE Written'
  <2>1. request'.at \in {"idle", "write_manifest"}
    BY <1>12, IdleShape DEF DiscoveryFails, Crash, WriteManifest, InsertCase
  <2>2. QED
    BY <1>3, <2>1
<1>13. ASSUME NEW file \in Files, OtherLoadsLei(file) \/ OtherLoadsRelationships(file)
       PROVE  Written'
  <2>1. request'.at = request.at /\ request'.ties = request.ties /\ Same
        /\ request'.findings = request.findings /\ findings' = findings /\ ties' = ties
    BY <1>13 DEF OtherLoadsLei, OtherLoadsRelationships, Disturbed
  <2>2. QED
    BY <2>1 DEF Written, FindingsOfRequest, TiesOfRequest
<1>14. ASSUME NEW target \in States, Transition(target) PROVE Written'
  BY <1>14 DEF Transition, Written, FindingsOfRequest, TiesOfRequest
<1>15. ASSUME UNCHANGED vars PROVE Written'
  BY <1>15 DEF vars, Written, FindingsOfRequest, TiesOfRequest
<1>16. QED
  BY <1>1, <1>2, <1>4, <1>5, <1>6, <1>7, <1>8, <1>9, <1>10, <1>11, <1>12, <1>13, <1>14, <1>15
     DEF Next

\* Every step keeps Settled: nothing writes the tables of a case on the
\* worksheet, and the case gets there with the tables complete or by hand.
LEMMA SettledNext == Typed /\ Busy /\ Written /\ Settled /\ [Next]_vars => Settled'
<1> SUFFICES ASSUME Typed, Busy, Written, Settled, [Next]_vars PROVE Settled'
  OBVIOUS
<1> USE DEF tables, gleif, history
<1>1. ASSUME UNCHANGED <<case_state, findings, ties, by_hand, basis>> PROVE Settled'
  BY <1>1 DEF Settled, Reviewed
<1>2. ASSUME request.at \in Working, UNCHANGED case_state PROVE Settled'
  <2>1. NoCase \notin States
    BY InputAssumption, Zenon
  <2>2. ~Reviewed
    BY <1>2, <2>1 DEF Busy, Reviewed, RECONCILE_ALLOWED_STATES, States
  <2>3. QED
    BY <1>2, <2>2 DEF Settled, Reviewed
<1>3. ASSUME NEW file \in Files \union {NoFile}, NEW lists \in SUBSET Lists, Reconcile(file, lists)
      PROVE  Settled'
  BY <1>1, <1>3 DEF Reconcile
<1>4. ASSUME NEW names \in Discoveries, Discover(names) PROVE Settled'
  BY <1>1, <1>4 DEF Discover
<1>5. ASSUME \/ DiscoveryFails \/ LoadLei \/ LoadRelationships \/ LoadLists
             \/ MatchEmployer \/ Climb \/ NameParents \/ Diff \/ WriteManifest \/ Crash
      PROVE  Settled'
  <2>1. UNCHANGED <<case_state, findings, ties, by_hand, basis>>
    BY <1>5 DEF DiscoveryFails, LoadLei, LoadRelationships, LoadLists, MatchEmployer, Climb,
                NameParents, Diff, WriteManifest, Crash
  <2>2. QED
    BY <1>1, <2>1
<1>6. ASSUME DeleteFindings \/ InsertFinding \/ DeleteTies \/ InsertTie PROVE Settled'
  <2>1. request.at \in Working /\ UNCHANGED case_state
    BY <1>6 DEF DeleteFindings, InsertFinding, DeleteTies, InsertTie, Working
  <2>2. QED
    BY <1>2, <2>1
<1>7. ASSUME DeleteCase PROVE Settled'
  <2>1. NoCase \notin States
    BY InputAssumption, Zenon
  <2>2. QED
    BY <1>7, <2>1 DEF DeleteCase, Settled, Reviewed, States
<1>8. ASSUME InsertCase PROVE Settled'
  <2>1. findings = FindingsOfRequest /\ TiesOfRequest(ties)
    BY <1>8 DEF InsertCase, Written
  <2>2. /\ findings' = findings /\ ties' = ties
        /\ basis'.discovered = request.discovered /\ basis'.lists = request.lists
        /\ basis'.run = request.run
    BY <1>8 DEF InsertCase
  <2>3. QED
    BY <2>1, <2>2 DEF Settled, FindingsOfRequest, TiesOfRequest
<1>9. ASSUME NEW target \in States, Transition(target) PROVE Settled'
  <2>1. /\ UNCHANGED <<findings, ties, basis>>
        /\ case_state' \in TRANSITIONS[case_state] /\ case_state \in States
        /\ by_hand' = IF case_state = "discovery" THEN TRUE ELSE by_hand
    BY <1>9 DEF Transition
  <2>2. CASE case_state \in {"intake", "declaration_assembly", "closed"}
    <3>1. case_state' \in {"declaration_assembly", "discovery"}
      BY <2>1, <2>2 DEF TRANSITIONS
    <3>2. QED
      BY <3>1 DEF Settled, Reviewed
  <2>3. CASE case_state = "discovery"
    BY <2>1, <2>3 DEF Settled
  <2>4. CASE case_state \in {"worksheet", "adjudication", "outcome"}
    <3>1. Reviewed /\ by_hand' = by_hand
      BY <2>1, <2>4 DEF Reviewed
    <3>2. QED
      BY <2>1, <3>1 DEF Settled
  <2>5. QED
    BY <2>1, <2>2, <2>3, <2>4 DEF States
<1>10. ASSUME NEW file \in Files, OtherLoadsLei(file) \/ OtherLoadsRelationships(file)
       PROVE  Settled'
  BY <1>1, <1>10 DEF OtherLoadsLei, OtherLoadsRelationships
<1>11. ASSUME UNCHANGED vars PROVE Settled'
  BY <1>1, <1>11 DEF vars
<1>12. QED
  BY <1>3, <1>4, <1>5, <1>6, <1>7, <1>8, <1>9, <1>10, <1>11 DEF Next

-----------------------------------------------------------------------------
\* The inductive invariant.
Whole == Typed /\ Busy /\ Keyed /\ Written /\ Settled

\* Whole holds throughout, with crashes between any two statements.
THEOREM AlwaysWhole == Spec => []Whole
<1>1. Init => Whole
  <2> SUFFICES ASSUME Init PROVE Whole
    OBVIOUS
  <2>1. request.at = "idle" /\ request.ties = <<>>
    BY DEF Init, Idle
  <2>2. NoCase \notin States
    BY InputAssumption, Zenon
  <2>3. ~Reviewed
    BY <2>2 DEF Init, Reviewed, States
  <2>4. Busy /\ Keyed /\ Written
    BY <2>1 DEF Busy, Working, Keyed, Written, Starting, Climbing, Saving
  <2>5. QED
    BY <2>3, <2>4, TypedInit DEF Whole, Settled
<1>2. Whole /\ [Next]_vars => Whole'
  BY TypedNext, BusyNext, KeyedNext, WrittenNext, SettledNext DEF Whole
<1>3. QED
  BY <1>1, <1>2, PTL DEF Spec

\* A case that a reconciliation moved to the worksheet shows findings and ties
\* of that reconciliation alone, and an own-affiliation tie points to the
\* finding of its institution just when there is one (pipeline.reconcile_case).
THEOREM AlwaysOfOneReconciliation == Spec => []WorksheetIsWhole
<1>1. Whole => WorksheetIsWhole
  <2> SUFFICES ASSUME Settled, OnTheBasis PROVE OfOneDiscovery
    BY DEF Whole, WorksheetIsWhole
  <2>1. /\ findings = FindingsOf(basis.discovered, basis.run)
        /\ \A t \in ties : t.run = basis.run
        /\ {t \in ties : t.kind = "own_affiliation_history"}
             = OwnTies(basis.discovered, basis.lists, basis.run)
    BY DEF Settled, OnTheBasis, Complete
  <2> DEFINE row(m) == [name |-> m, factual_basis |-> FactualBasis(m), run |-> basis.run]
  <2>2. /\ \A f \in findings : f.run = basis.run
        /\ \A n \in basis.discovered :
             (\E f \in findings : f.name = n) <=> ~Cleared(n)
    <3>1. \A f \in findings : \E m \in basis.discovered : ~Cleared(m) /\ f = row(m)
      BY <2>1 DEF FindingsOf
    <3>2. \A m \in basis.discovered : ~Cleared(m) => row(m) \in findings
      BY <2>1 DEF FindingsOf
    <3>3. \A m : row(m).name = m /\ row(m).run = basis.run
      OBVIOUS
    <3> HIDE DEF row
    <3>4. QED
      BY <3>1, <3>2, <3>3
  <2>3. ASSUME NEW t \in ties, t.kind = "own_affiliation_history"
        PROVE  IF \E f \in findings : f.name = t.name THEN t.related = t.name
                                                     ELSE t.related = NoFinding
    <3>1. t \in OwnTies(basis.discovered, basis.lists, basis.run)
      BY <2>1, <2>3
    <3>2. /\ t.name \in basis.discovered
          /\ t.related = IF Cleared(t.name) THEN NoFinding ELSE t.name
      BY <3>1 DEF OwnTies
    <3>3. QED
      BY <2>2, <3>2
  <2>4. QED
    BY <2>1, <2>2, <2>3 DEF OfOneDiscovery
<1>2. QED
  BY <1>1, AlwaysWhole, PTL

\* Whatever no declared affiliation clears is a finding on that worksheet, and
\* whatever is listed is a tie, whatever scores and lists (reconcile,
\* ties_from_own_affiliations).
THEOREM NothingIsEverLost == Spec => []NothingDiscoveredIsLost
<1>1. Whole => NothingDiscoveredIsLost
  <2> SUFFICES ASSUME Typed, Settled, OnTheBasis
               PROVE  /\ {f.name : f \in findings} =
                           {n \in basis.discovered : \A a \in ToSet(Affiliations) :
                              Score(n, a) < RECONCILIATION_THRESHOLD}
                      /\ \A n \in basis.discovered : ListedOn[n] \intersect basis.lists # {} =>
                           \E t \in ties : t.kind = "own_affiliation_history" /\ t.name = n
    BY DEF Whole, NothingDiscoveredIsLost
  <2>1. /\ findings = FindingsOf(basis.discovered, basis.run)
        /\ {t \in ties : t.kind = "own_affiliation_history"}
             = OwnTies(basis.discovered, basis.lists, basis.run)
    BY DEF Settled, OnTheBasis, Complete
  <2>2. {f.name : f \in findings} = {n \in basis.discovered : ~Cleared(n)}
    <3> DEFINE row(m) == [name |-> m, factual_basis |-> FactualBasis(m), run |-> basis.run]
    <3>1. \A f \in findings : \E m \in basis.discovered : ~Cleared(m) /\ f = row(m)
      BY <2>1 DEF FindingsOf
    <3>2. \A m \in basis.discovered : ~Cleared(m) => row(m) \in findings
      BY <2>1 DEF FindingsOf
    <3>3. \A m : row(m).name = m
      OBVIOUS
    <3> HIDE DEF row
    <3>4. QED
      BY <3>1, <3>2, <3>3
  <2>3. \A n \in basis.discovered : Cleared(n) <=>
          ~ \A a \in ToSet(Affiliations) : Score(n, a) < RECONCILIATION_THRESHOLD
    <3>1. TAKE n \in basis.discovered
    <3>2. \A a \in ToSet(Affiliations) : Score(n, a) \in 0..100
      <4>1. n \in Names
        BY DEF Typed
      <4>2. DeclaredName \in [ToSet(Affiliations) -> Names]
            /\ Confidence \in [Names -> [Names -> 0..100]]
        BY InputAssumption, Zenon
      <4>3. QED
        BY <4>1, <4>2 DEF Score
    <3>3. RECONCILIATION_THRESHOLD \in 1..100
      BY InputAssumption, Zenon
    <3>4. \A a \in ToSet(Affiliations) :
            Score(n, a) >= RECONCILIATION_THRESHOLD <=> ~(Score(n, a) < RECONCILIATION_THRESHOLD)
      BY <3>2, <3>3
    <3>5. QED
      BY <3>4 DEF Cleared
  <2>4. ASSUME NEW n \in basis.discovered, ListedOn[n] \intersect basis.lists # {}
        PROVE  \E t \in ties : t.kind = "own_affiliation_history" /\ t.name = n
    <3> DEFINE tie == [kind |-> "own_affiliation_history", anchor |-> NoAffiliation, name |-> n,
                       related |-> IF Cleared(n) THEN NoFinding ELSE n,
                       parent |-> NoLei, truncated |-> FALSE, run |-> basis.run]
    <3>1. tie \in OwnTies(basis.discovered, basis.lists, basis.run)
      BY <2>4 DEF OwnTies, Listed
    <3>2. tie.name = n
      OBVIOUS
    <3> HIDE DEF tie
    <3>3. QED
      BY <2>1, <3>1, <3>2
  <2>5. QED
    BY <2>2, <2>3, <2>4
<1>2. QED
  BY <1>1, AlwaysWhole, PTL

\* For any declaration, whatever ids the client gave its rows, and any graph, an
\* INSERT of a tie is refused only for a parent of one employer with the legal
\* name of another, or for an affiliation_id the declaration repeats; never for a
\* row an earlier reconciliation left (tie_id in discover.py, replace_ties).
THEOREM OnlyTwinsAndRepeatedIdsClash == Spec => []ClashesAreTwinsOrRepeatedIds
<1>1. Whole => ClashesAreTwinsOrRepeatedIds
  <2> SUFFICES ASSUME Whole, request.at = "insert_ties", request.ties # <<>>
               PROVE  \A t \in ties : TieKey(t) = TieKey(Head(request.ties)) =>
                        Twins(t, Head(request.ties)) \/ OfRepeatedId(t, Head(request.ties))
    BY DEF ClashesAreTwinsOrRepeatedIds
  <2>1. request.ties \in Seq(TieRows)
    BY DEF Whole, Typed, RequestShape, Shape
  <2>2. 1 \in 1..Len(request.ties) /\ Head(request.ties) = request.ties[1]
    BY <2>1
  <2>3. QED
    BY <2>2 DEF Whole, Keyed, MayClash
<1>2. QED
  BY <1>1, AlwaysWhole, PTL

-----------------------------------------------------------------------------
Employer == "declared_employer_ultimate_parent"
OfEmployers(rows) == {t \in rows : t.kind = Employer}

\* The ties of an employer by a pair of files alone.
TiesByFile(employer, file, lists, run) ==
  EmployerTies(employer, Chains(file.edges, LeiOf[employer], MaxDepth),
               Truncated(file.edges, LeiOf[employer], MaxDepth), file.leis, lists, run)

\* Those of several employers; one without an LEI in the file has none.
TiesOfEmployers(employers, file, lists, run) ==
  UNION {TiesByFile(e, file, lists, run) : e \in {x \in employers : LeiOf[x] \in file.leis}}

TiesOfFile(file, lists, run) ==
  IF file = NoFile THEN {} ELSE TiesOfEmployers(ToSet(Employers), file, lists, run)

\* Of these rows the employer ties are those of the file, and the others name
\* no parent.
Backed(rows, file, lists, run) ==
  /\ OfEmployers(rows) = TiesOfFile(file, lists, run)
  /\ \A t \in rows : t.kind # Employer => t.parent = NoLei

\* A climb is made for the employers declared, over files.
Climbs ==
  request.at \in Climbing =>
    ToSet(request.employers) \subseteq ToSet(Employers) /\ request.file \in Files

\* While nobody replaces a GLEIF table, the tables are the files of the request,
\* and what it gathered and wrote are the ties of those files: of the employers
\* done so far in the climb, of all of them after it.
ByTheFile ==
  request.undisturbed =>
    /\ request.at \in Climbing \union {"load_relationships"} => gleif_lei = request.file.leis
    /\ request.at = "load_lists" /\ request.file # NoFile =>
         gleif_lei = request.file.leis /\ gleif_relationships = request.file.edges
    /\ request.at \in Climbing =>
         /\ gleif_relationships = request.file.edges
         /\ ToSet(request.ties) =
              TiesOfEmployers(ToSet(Employers) \ ToSet(request.employers),
                              request.file, request.lists, request.run)
    /\ request.at \in AtEmployer => LeiOf[Head(request.employers)] \in request.file.leis
    /\ request.at = "name_parents" =>
         LET lei == LeiOf[Head(request.employers)]
         IN /\ request.chains = Chains(request.file.edges, lei, MaxDepth)
            /\ request.truncated = Truncated(request.file.edges, lei, MaxDepth)
    /\ request.at \in {"diff", "delete_findings", "insert_findings", "delete_ties"} =>
         Backed(ToSet(request.ties), request.file, request.lists, request.run)
    /\ request.at = "insert_ties" =>
         Backed(ties \union ToSet(request.ties), request.file, request.lists, request.run)
    /\ request.at \in {"delete_case", "insert_case"} =>
         Backed(ties, request.file, request.lists, request.run)

\* The ties of a case that an undisturbed reconciliation moved to the worksheet.
Stands ==
  Reviewed /\ ~by_hand /\ basis.undisturbed =>
    Backed(ties, basis.file, basis.lists, basis.run)

\* One employer more is done.
LEMMA OneMoreDone ==
  ASSUME NEW T, NEW s \in Seq(T), s # <<>>, IsInjective(s), NEW A, ToSet(s) \subseteq A
  PROVE  A \ ToSet(Tail(s)) = (A \ ToSet(s)) \union {Head(s)}
<1>1. Head(s) \notin ToSet(Tail(s))
  BY RestIsInjective
<1>2. ToSet(s) = {Head(s)} \union ToSet(Tail(s))
  BY RestOfSequence
<1>3. QED
  BY <1>1, <1>2

\* What one employer more adds to the ties of those done.
LEMMA TiesOfOneMore ==
  ASSUME NEW S, NEW e, NEW file, NEW lists, NEW run
  PROVE  TiesOfEmployers(S \union {e}, file, lists, run)
           = TiesOfEmployers(S, file, lists, run)
               \union (IF LeiOf[e] \in file.leis THEN TiesByFile(e, file, lists, run) ELSE {})
BY Zenon DEF TiesOfEmployers

\* All of them are of the one kind.
LEMMA TiesOfFileKind ==
  ASSUME NEW S, NEW file, NEW lists, NEW run, NEW t \in TiesOfEmployers(S, file, lists, run)
  PROVE  t.kind = Employer
BY DEF TiesOfEmployers, TiesByFile, EmployerTies, Employer

\* Every step keeps Climbs.
LEMMA ClimbsNext == Typed /\ Typed' /\ Climbs /\ [Next]_vars => Climbs'
<1> SUFFICES ASSUME Typed, Typed', Climbs, [Next]_vars PROVE Climbs'
  OBVIOUS
<1> USE DEF tables, gleif, history, Become, GoTo
<1>1. ASSUME request'.at \notin Climbing PROVE Climbs'
  BY <1>1 DEF Climbs
<1>2. ASSUME request'.file = request.file, request'.employers = request.employers,
             request'.at \in Climbing => request.at \in Climbing
      PROVE  Climbs'
  BY <1>2 DEF Climbs
<1>3. ASSUME NEW file \in Files \union {NoFile}, NEW lists \in SUBSET Lists, Reconcile(file, lists)
      PROVE  Climbs'
  <2>1. request'.at = "discover"
    BY <1>3 DEF Reconcile, Idle
  <2>2. QED
    BY <1>1, <2>1 DEF Climbing
<1>4. ASSUME NEW names \in Discoveries, Discover(names) PROVE Climbs'
  <2>1. request'.at \in {"load_lists", "load_lei"}
    BY <1>4 DEF Discover, Typed, RequestShape, Shape
  <2>2. QED
    BY <1>1, <2>1 DEF Climbing
<1>5. ASSUME DiscoveryFails \/ Crash \/ WriteManifest PROVE Climbs'
  BY <1>1, <1>5, IdleShape DEF DiscoveryFails, Crash, WriteManifest, Climbing
<1>6. ASSUME LoadLei \/ LoadRelationships \/ Diff \/ DeleteFindings \/ InsertFinding \/ DeleteTies \/ InsertTie
             \/ DeleteCase \/ InsertCase
      PROVE  Climbs'
  <2>1. request'.at \notin Climbing
    BY <1>6, IdleShape DEF LoadLei, LoadRelationships, Diff, DeleteFindings, InsertFinding, DeleteTies, InsertTie,
                DeleteCase, InsertCase, Typed, RequestShape, Shape, Climbing
  <2>2. QED
    BY <1>1, <2>1
<1>7. ASSUME LoadLists PROVE Climbs'
  <2>1. CASE request.file = NoFile
    <3>1. request'.at = "diff"
      BY <1>7, <2>1 DEF LoadLists, Typed, RequestShape, Shape
    <3>2. QED
      BY <1>1, <3>1 DEF Climbing
  <2>2. CASE request.file # NoFile
    <3>1. request'.employers = Employers /\ request'.file = request.file /\ request.file \in Files
      BY <1>7, <2>2 DEF LoadLists, Typed, RequestShape, Shape
    <3>2. QED
      BY <3>1 DEF Climbs
  <2>3. QED
    BY <2>1, <2>2
<1>8. ASSUME MatchEmployer \/ NameParents PROVE Climbs'
  <2>1. /\ request.at \in Climbing /\ request'.file = request.file
        /\ \/ request'.employers = request.employers
           \/ request.employers # <<>> /\ request'.employers = Tail(request.employers)
    BY <1>8 DEF MatchEmployer, NameParents, Typed, RequestShape, Shape, Climbing
  <2>2. request.employers \in Seq(ToSet(Affiliations))
    BY DEF Typed, RequestShape, Shape
  <2>3. ToSet(request'.employers) \subseteq ToSet(request.employers)
    BY <2>1, <2>2, RestOfSequence
  <2>4. QED
    BY <2>1, <2>3 DEF Climbs
<1>9. ASSUME Climb PROVE Climbs'
  BY <1>2, <1>9 DEF Climb, Typed, RequestShape, Shape, Climbing
<1>10. ASSUME NEW file \in Files, OtherLoadsLei(file) \/ OtherLoadsRelationships(file)
       PROVE  Climbs'
  BY <1>2, <1>10 DEF OtherLoadsLei, OtherLoadsRelationships, Disturbed, Typed, RequestShape, Shape
<1>11. ASSUME NEW target \in States, Transition(target) PROVE Climbs'
  BY <1>2, <1>11 DEF Transition
<1>12. ASSUME UNCHANGED vars PROVE Climbs'
  BY <1>2, <1>12 DEF vars
<1>13. QED
  BY <1>3, <1>4, <1>5, <1>6, <1>7, <1>8, <1>9, <1>10, <1>11, <1>12 DEF Next

\* Every step keeps ByTheFile: the files are loaded and climbed over before
\* anything is written, and another load is noticed (reconcile_case).
LEMMA ByTheFileNext ==
  Typed /\ Typed' /\ Keyed /\ Climbs /\ ByTheFile /\ [Next]_vars => ByTheFile'
<1> SUFFICES ASSUME Typed, Typed', Keyed, Climbs, ByTheFile, [Next]_vars, request'.undisturbed
             PROVE  ByTheFile'
  BY DEF ByTheFile
<1> USE DEF tables, gleif, history, Become, GoTo
<1>p. PICK r : r = request
  OBVIOUS
<1>q. PICK q : q = request'
  OBVIOUS
<1>r. /\ r.run \in Nat /\ r.file \in Files \union {NoFile} /\ r.at \in Labels
      /\ r.lists \in SUBSET Lists /\ r.discovered \in SUBSET Names
      /\ r.employers \in Seq(ToSet(Affiliations))
      /\ r.ties \in Seq(TieRows) /\ r.truncated \in BOOLEAN
  BY <1>p DEF Typed, RequestShape, Shape
\* A step at a point nothing is said about.
<1>1. ASSUME q.at \in {"idle", "discover", "load_lei", "write_manifest"} PROVE ByTheFile'
  BY <1>1, <1>q DEF ByTheFile, Climbing, AtEmployer
\* A step after the climb.
<1>2. ASSUME q.file = r.file, q.lists = r.lists, q.run = r.run,
             \/ /\ q.at \in {"diff", "delete_findings", "insert_findings", "delete_ties"}
                /\ Backed(ToSet(q.ties), r.file, r.lists, r.run)
             \/ /\ q.at = "insert_ties"
                /\ Backed(ties' \union ToSet(q.ties), r.file, r.lists, r.run)
             \/ /\ q.at \in {"delete_case", "insert_case"}
                /\ Backed(ties', r.file, r.lists, r.run)
      PROVE  ByTheFile'
  BY <1>2, <1>q DEF ByTheFile, Climbing, AtEmployer
<1>3. ASSUME NEW file \in Files \union {NoFile}, NEW lists \in SUBSET Lists, Reconcile(file, lists)
      PROVE  ByTheFile'
  <2>1. q.at = "discover"
    BY <1>3, <1>q DEF Reconcile, Idle
  <2>2. QED
    BY <1>1, <2>1
<1>4. ASSUME NEW names \in Discoveries, Discover(names) PROVE ByTheFile'
  <2>1. q.at = (IF r.file = NoFile THEN "load_lists" ELSE "load_lei") /\ q.file = r.file
    BY <1>4, <1>p, <1>q DEF Discover, Typed, RequestShape, Shape
  <2>2. CASE r.file = NoFile
    BY <1>q, <2>1, <2>2 DEF ByTheFile, Climbing, AtEmployer
  <2>3. CASE r.file # NoFile
    BY <1>1, <2>1, <2>3
  <2>4. QED
    BY <2>2, <2>3
<1>5. ASSUME q = Idle PROVE ByTheFile'
  BY <1>1, <1>5, IdleShape
<1>6. ASSUME LoadLei PROVE ByTheFile'
  <2>1. q.at = "load_relationships" /\ q.file = r.file /\ gleif_lei' = r.file.leis
    BY <1>6, <1>p, <1>q DEF LoadLei, Typed, RequestShape, Shape
  <2>2. QED
    BY <1>q, <2>1 DEF ByTheFile, Climbing, AtEmployer
<1>7. ASSUME LoadRelationships PROVE ByTheFile'
  <2>1. /\ r.at = "load_relationships" /\ q.at = "load_lists"
        /\ q.file = r.file /\ q.undisturbed = r.undisturbed
        /\ gleif_relationships' = r.file.edges /\ gleif_lei' = gleif_lei
    BY <1>7, <1>p, <1>q DEF LoadRelationships, Typed, RequestShape, Shape
  <2>2. gleif_lei = r.file.leis
    BY <1>p, <1>q, <2>1 DEF ByTheFile
  <2>3. QED
    BY <1>q, <2>1, <2>2 DEF ByTheFile, Climbing, AtEmployer
<1>l. ASSUME LoadLists PROVE ByTheFile'
  <2>1. /\ r.at = "load_lists" /\ q.file = r.file /\ q.lists = r.lists /\ q.run = r.run
        /\ q.ties = r.ties /\ q.undisturbed = r.undisturbed
        /\ gleif_relationships' = gleif_relationships /\ gleif_lei' = gleif_lei
        /\ IF r.file = NoFile THEN q.at = "diff"
           ELSE q.at = "match_employer" /\ q.employers = Employers
    <3>1. CASE r.file = NoFile
      BY <1>l, <1>p, <1>q, <3>1 DEF LoadLists, Typed, RequestShape, Shape
    <3>2. CASE r.file # NoFile
      BY <1>l, <1>p, <1>q, <3>2 DEF LoadLists, Typed, RequestShape, Shape
    <3>3. QED
      BY <3>1, <3>2
  <2>2. ToSet(q.ties) = {}
    BY <1>p, <2>1, EmptySequence DEF Keyed, Starting
  <2>3. CASE r.file = NoFile
    <3>1. Backed({}, NoFile, r.lists, r.run)
      BY DEF Backed, OfEmployers, TiesOfFile
    <3>2. QED
      BY <1>2, <2>1, <2>2, <2>3, <3>1
  <2>4. CASE r.file # NoFile
    <3>1. gleif_lei = r.file.leis /\ gleif_relationships = r.file.edges
      BY <1>p, <1>q, <2>1, <2>4 DEF ByTheFile
    <3>2. q.at = "match_employer" /\ q.employers = Employers
      BY <2>1, <2>4
    <3>3. TiesOfEmployers(ToSet(Employers) \ ToSet(q.employers), q.file, q.lists, q.run) = {}
      BY <3>2 DEF TiesOfEmployers
    <3>4. QED
      BY <1>q, <2>1, <2>2, <3>1, <3>2, <3>3 DEF ByTheFile, Climbing, AtEmployer
  <2>5. QED
    BY <2>3, <2>4
\* What is known in the climb.
<1>8. ASSUME r.at \in Climbing, q.undisturbed = r.undisturbed
      PROVE  /\ gleif_lei = r.file.leis /\ gleif_relationships = r.file.edges
             /\ ToSet(r.ties) = TiesOfEmployers(ToSet(Employers) \ ToSet(r.employers),
                                                r.file, r.lists, r.run)
             /\ r.file \in Files /\ ToSet(r.employers) \subseteq ToSet(Employers)
             /\ IsInjective(r.employers)
  BY <1>8, <1>p, <1>q DEF ByTheFile, Climbs, Keyed
<1>9. ASSUME MatchEmployer PROVE ByTheFile'
  <2>1. /\ r.at = "match_employer" /\ q.file = r.file /\ q.lists = r.lists /\ q.run = r.run
        /\ q.ties = r.ties /\ q.undisturbed = r.undisturbed
        /\ gleif_relationships' = gleif_relationships /\ gleif_lei' = gleif_lei
        /\ IF r.employers = <<>> THEN q.at = "diff"
           ELSE IF LeiOf[Head(r.employers)] \in gleif_lei
                THEN q.at = "climb" /\ q.employers = r.employers
                ELSE q.at = "match_employer" /\ q.employers = Tail(r.employers)
    <3>1. CASE r.employers = <<>>
      BY <1>9, <1>p, <1>q, <3>1 DEF MatchEmployer, Typed, RequestShape, Shape
    <3>2. CASE r.employers # <<>> /\ LeiOf[Head(r.employers)] \in gleif_lei
      BY <1>9, <1>p, <1>q, <3>2 DEF MatchEmployer, Typed, RequestShape, Shape
    <3>3. CASE r.employers # <<>> /\ LeiOf[Head(r.employers)] \notin gleif_lei
      BY <1>9, <1>p, <1>q, <3>3 DEF MatchEmployer, Typed, RequestShape, Shape
    <3>4. QED
      BY <3>1, <3>2, <3>3
  <2> DEFINE done == ToSet(Employers) \ ToSet(r.employers)
  <2>2. /\ gleif_lei = r.file.leis /\ gleif_relationships = r.file.edges
        /\ ToSet(r.ties) = TiesOfEmployers(done, r.file, r.lists, r.run)
        /\ r.file \in Files /\ ToSet(r.employers) \subseteq ToSet(Employers)
        /\ IsInjective(r.employers)
    BY <1>8, <2>1 DEF Climbing
  <2>3. CASE r.employers = <<>>
    <3>1. done = ToSet(Employers)
      BY <2>3, EmptySequence
    <3>2. r.file # NoFile
      <4>1. NoFile \notin FileRecords /\ Files \subseteq FileRecords
        BY InputAssumption, Zenon
      <4>2. QED
        BY <2>2, <4>1
    <3>3. ToSet(r.ties) = TiesOfFile(r.file, r.lists, r.run)
      BY <2>2, <3>1, <3>2 DEF TiesOfFile
    <3>4. \A t \in ToSet(r.ties) : t.kind = Employer
      BY <2>2, TiesOfFileKind
    <3>5. Backed(ToSet(r.ties), r.file, r.lists, r.run)
      BY <3>3, <3>4 DEF Backed, OfEmployers
    <3>6. QED
      BY <1>2, <2>1, <2>3, <3>5
  <2>4. CASE r.employers # <<>> /\ LeiOf[Head(r.employers)] \in gleif_lei
    <3>1. q.at = "climb" /\ q.employers = r.employers
      BY <2>1, <2>4
    <3>2. QED
      BY <1>q, <2>1, <2>2, <2>4, <3>1 DEF ByTheFile, Climbing, AtEmployer
  <2>5. CASE r.employers # <<>> /\ LeiOf[Head(r.employers)] \notin gleif_lei
    <3>1. q.at = "match_employer" /\ q.employers = Tail(r.employers)
      BY <2>1, <2>5
    <3>2. ToSet(Employers) \ ToSet(q.employers) = done \union {Head(r.employers)}
      BY <1>r, <2>2, <2>5, <3>1, OneMoreDone
    <3>3. TiesOfEmployers(done \union {Head(r.employers)}, r.file, r.lists, r.run)
            = TiesOfEmployers(done, r.file, r.lists, r.run)
      <4> DEFINE e == Head(r.employers)
      <4>1. LeiOf[e] \notin r.file.leis
        BY <2>2, <2>5
      <4> HIDE DEF done, e
      <4>2. TiesOfEmployers(done \union {e}, r.file, r.lists, r.run)
              = TiesOfEmployers(done, r.file, r.lists, r.run)
                  \union (IF LeiOf[e] \in r.file.leis
                          THEN TiesByFile(e, r.file, r.lists, r.run) ELSE {})
        BY TiesOfOneMore
      <4>3. QED
        BY <4>1, <4>2 DEF e
    <3> HIDE DEF done
    <3>4. QED
      BY <1>q, <2>1, <2>2, <3>1, <3>2, <3>3 DEF ByTheFile, Climbing, AtEmployer
  <2>6. QED
    BY <2>3, <2>4, <2>5
<1>10. ASSUME Climb PROVE ByTheFile'
  <2> DEFINE lei == LeiOf[Head(r.employers)]
  <2>1. /\ r.at = "climb" /\ q.at = "name_parents" /\ q.file = r.file /\ q.lists = r.lists
        /\ q.run = r.run /\ q.ties = r.ties /\ q.employers = r.employers
        /\ q.undisturbed = r.undisturbed
        /\ gleif_relationships' = gleif_relationships /\ gleif_lei' = gleif_lei
        /\ q.chains = Chains(gleif_relationships, lei, MaxDepth)
        /\ q.truncated = Truncated(gleif_relationships, lei, MaxDepth)
    BY <1>10, <1>p, <1>q DEF Climb, Typed, RequestShape, Shape
  <2>2. /\ gleif_lei = r.file.leis /\ gleif_relationships = r.file.edges
        /\ ToSet(r.ties) = TiesOfEmployers(ToSet(Employers) \ ToSet(r.employers),
                                           r.file, r.lists, r.run)
    BY <1>8, <2>1 DEF Climbing
  <2>3. lei \in r.file.leis
    BY <1>p, <1>q, <2>1 DEF ByTheFile, AtEmployer
  <2>4. QED
    BY <1>q, <2>1, <2>2, <2>3 DEF ByTheFile, Climbing, AtEmployer
<1>11. ASSUME NameParents PROVE ByTheFile'
  <2> DEFINE e == Head(r.employers)
             new == EmployerTies(e, r.chains, r.truncated, gleif_lei, r.lists, r.run)
             done == ToSet(Employers) \ ToSet(r.employers)
  <2>1. /\ r.at = "name_parents" /\ q.at = "match_employer" /\ q.file = r.file
        /\ q.lists = r.lists /\ q.run = r.run /\ q.undisturbed = r.undisturbed
        /\ q.employers = Tail(r.employers) /\ q.ties = r.ties \o SetToSeq(new)
        /\ gleif_relationships' = gleif_relationships /\ gleif_lei' = gleif_lei
        /\ r.employers # <<>>
    BY <1>11, <1>p, <1>q DEF NameParents, Typed, RequestShape, Shape
  <2>2. /\ gleif_lei = r.file.leis /\ gleif_relationships = r.file.edges
        /\ ToSet(r.ties) = TiesOfEmployers(done, r.file, r.lists, r.run)
        /\ ToSet(r.employers) \subseteq ToSet(Employers)
        /\ IsInjective(r.employers)
    BY <1>8, <2>1 DEF Climbing
  <2>3. /\ LeiOf[e] \in r.file.leis
        /\ r.chains = Chains(r.file.edges, LeiOf[e], MaxDepth)
        /\ r.truncated = Truncated(r.file.edges, LeiOf[e], MaxDepth)
    BY <1>p, <1>q, <2>1 DEF ByTheFile, AtEmployer
  <2>4. new = TiesByFile(e, r.file, r.lists, r.run)
    BY <2>2, <2>3 DEF TiesByFile
  <2>5. SetToSeq(new) \in Seq(TieRows) /\ ToSet(SetToSeq(new)) = new
    <3>1. e \in ToSet(Affiliations) /\ gleif_lei \in SUBSET LEIs
      BY <1>r, <2>1, RestOfSequence DEF Typed
    <3> HIDE DEF e
    <3>2. QED
      BY <1>r, <3>1, EmployerTiesType
  <2> HIDE DEF new
  <2>6. ToSet(q.ties) = ToSet(r.ties) \union new
    BY <1>r, <2>1, <2>5, ConcatenatedSets
  <2>7. ToSet(Employers) \ ToSet(q.employers) = done \union {e}
    BY <1>r, <2>1, <2>2, OneMoreDone
  <2>8. TiesOfEmployers(done \union {e}, r.file, r.lists, r.run)
          = TiesOfEmployers(done, r.file, r.lists, r.run) \union new
    <3> HIDE DEF done, e
    <3>1. QED
      BY <2>3, <2>4, TiesOfOneMore
  <2> HIDE DEF done, e
  <2>9. QED
    BY <1>q, <2>1, <2>2, <2>6, <2>7, <2>8 DEF ByTheFile, Climbing, AtEmployer
<1>12. ASSUME Diff PROVE ByTheFile'
  <2> DEFINE own == OwnTies(r.discovered, r.lists, r.run)
             declared == DeclaredTies(r.lists, r.run)
             first == r.ties \o SetToSeq(own)
             all == first \o SetToSeq(declared)
  <2>1. /\ r.at = "diff" /\ q.at = "delete_findings" /\ q.file = r.file /\ q.lists = r.lists
        /\ q.run = r.run /\ q.ties = all /\ q.undisturbed = r.undisturbed
    BY <1>12, <1>p, <1>q DEF Diff, Typed, RequestShape, Shape
  <2>2. Backed(ToSet(r.ties), r.file, r.lists, r.run)
    BY <1>p, <1>q, <2>1 DEF ByTheFile
  <2>3. /\ SetToSeq(own) \in Seq(TieRows) /\ ToSet(SetToSeq(own)) = own
        /\ SetToSeq(declared) \in Seq(TieRows) /\ ToSet(SetToSeq(declared)) = declared
    BY <1>r, OwnTiesType, DeclaredTiesType
  <2>4. \A t \in own \union declared : t.kind # Employer /\ t.parent = NoLei
    BY DEF OwnTies, DeclaredTies, Employer
  <2> HIDE DEF own, declared
  <2>5. ToSet(all) = (ToSet(r.ties) \union own) \union declared
    <3>1. first \in Seq(TieRows) /\ ToSet(first) = ToSet(r.ties) \union own
      BY <1>r, <2>3, ConcatenatedSets
    <3> HIDE DEF first
    <3>2. ToSet(first \o SetToSeq(declared)) = ToSet(first) \union declared
      BY <2>3, <3>1, ConcatenatedSets
    <3>3. QED
      BY <3>1, <3>2
  <2> HIDE DEF all
  <2>6. Backed(ToSet(all), r.file, r.lists, r.run)
    <3>1. OfEmployers(ToSet(all)) = OfEmployers(ToSet(r.ties))
      BY <2>4, <2>5 DEF OfEmployers
    <3>2. QED
      BY <2>2, <2>4, <2>5, <3>1 DEF Backed
  <2>7. QED
    BY <1>2, <2>1, <2>6
<1>13. ASSUME DeleteFindings \/ InsertFinding PROVE ByTheFile'
  <2>1. /\ r.at \in {"delete_findings", "insert_findings"}
        /\ q.at \in {"insert_findings", "delete_ties"} /\ q.file = r.file /\ q.lists = r.lists
        /\ q.run = r.run /\ q.ties = r.ties /\ q.undisturbed = r.undisturbed
    BY <1>13, <1>p, <1>q DEF DeleteFindings, InsertFinding, Typed, RequestShape, Shape
  <2>2. Backed(ToSet(r.ties), r.file, r.lists, r.run)
    BY <1>p, <1>q, <2>1 DEF ByTheFile
  <2>3. QED
    BY <1>2, <2>1, <2>2
<1>14. ASSUME DeleteTies PROVE ByTheFile'
  <2>1. /\ r.at = "delete_ties" /\ q.at = "insert_ties" /\ q.file = r.file /\ q.lists = r.lists
        /\ q.run = r.run /\ q.ties = r.ties /\ q.undisturbed = r.undisturbed /\ ties' = {}
    BY <1>14, <1>p, <1>q DEF DeleteTies, Typed, RequestShape, Shape
  <2>2. Backed(ToSet(r.ties), r.file, r.lists, r.run)
    BY <1>p, <1>q, <2>1 DEF ByTheFile
  <2>3. ties' \union ToSet(q.ties) = ToSet(r.ties)
    BY <2>1
  <2>4. QED
    BY <1>2, <2>1, <2>2, <2>3
<1>15. ASSUME InsertTie PROVE ByTheFile'
  <2>1. CASE r.ties = <<>>
    <3>1. /\ r.at = "insert_ties" /\ q.at = "delete_case" /\ q.file = r.file
          /\ q.lists = r.lists /\ q.run = r.run /\ q.undisturbed = r.undisturbed
          /\ ties' = ties
      BY <1>15, <1>p, <1>q, <2>1 DEF InsertTie, Typed, RequestShape, Shape
    <3>2. Backed(ties \union ToSet(r.ties), r.file, r.lists, r.run)
      BY <1>p, <1>q, <3>1 DEF ByTheFile
    <3>3. ties \union ToSet(r.ties) = ties'
      BY <2>1, <3>1, EmptySequence
    <3>4. QED
      BY <1>2, <3>1, <3>2, <3>3
  <2>2. CASE r.ties # <<>> /\ q # Idle
    <3>1. /\ r.at = "insert_ties" /\ q.at = "insert_ties" /\ q.file = r.file
          /\ q.lists = r.lists /\ q.run = r.run /\ q.undisturbed = r.undisturbed
          /\ q.ties = Tail(r.ties) /\ ties' = ties \union {Head(r.ties)}
      BY <1>15, <1>p, <1>q, <2>2 DEF InsertTie, Typed, RequestShape, Shape
    <3>2. Backed(ties \union ToSet(r.ties), r.file, r.lists, r.run)
      BY <1>p, <1>q, <3>1 DEF ByTheFile
    <3>3. ties' \union ToSet(q.ties) = ties \union ToSet(r.ties)
      BY <1>r, <2>2, <3>1, RestOfSequence
    <3>4. QED
      BY <1>2, <3>1, <3>2, <3>3
  <2>3. QED
    BY <1>5, <2>1, <2>2
<1>16. ASSUME DeleteCase PROVE ByTheFile'
  <2>1. /\ r.at = "delete_case" /\ q.at = "insert_case" /\ q.file = r.file
        /\ q.lists = r.lists /\ q.run = r.run /\ q.undisturbed = r.undisturbed
        /\ ties' = ties
    BY <1>16, <1>p, <1>q DEF DeleteCase, Typed, RequestShape, Shape
  <2>2. Backed(ties, r.file, r.lists, r.run)
    BY <1>p, <1>q, <2>1 DEF ByTheFile
  <2>3. QED
    BY <1>2, <2>1, <2>2
<1>17. ASSUME DiscoveryFails \/ Crash \/ WriteManifest \/ InsertCase PROVE ByTheFile'
  <2>1. q.at \in {"idle", "write_manifest"}
    BY <1>17, <1>q, IdleShape
       DEF DiscoveryFails, Crash, WriteManifest, InsertCase, Typed, RequestShape, Shape
  <2>2. QED
    BY <1>1, <2>1
<1>18. ASSUME NEW file \in Files, OtherLoadsLei(file) \/ OtherLoadsRelationships(file)
       PROVE  ByTheFile'
  <2>1. q.at = r.at /\ (q.undisturbed => r.at = "idle")
    BY <1>18, <1>p, <1>q DEF OtherLoadsLei, OtherLoadsRelationships, Disturbed, Typed,
                             RequestShape, Shape
  <2>2. q.undisturbed
    BY <1>q
  <2>3. QED
    BY <1>1, <2>1, <2>2
<1>19. ASSUME UNCHANGED <<request, gleif, ties>> PROVE ByTheFile'
  BY <1>19 DEF ByTheFile
<1>20. ASSUME NEW target \in States, Transition(target) PROVE ByTheFile'
  BY <1>19, <1>20 DEF Transition
<1>21. ASSUME UNCHANGED vars PROVE ByTheFile'
  BY <1>19, <1>21 DEF vars
<1>22. QED
  BY <1>3, <1>4, <1>6, <1>7, <1>l, <1>9, <1>10, <1>11, <1>12, <1>13, <1>14, <1>15, <1>16, <1>17,
     <1>18, <1>20, <1>21 DEF Next

\* Every step keeps Stands, as it does Settled.
LEMMA StandsNext == Typed /\ Busy /\ ByTheFile /\ Stands /\ [Next]_vars => Stands'
<1> SUFFICES ASSUME Typed, Busy, ByTheFile, Stands, [Next]_vars PROVE Stands'
  OBVIOUS
<1> USE DEF tables, gleif, history
<1>1. ASSUME UNCHANGED <<case_state, ties, by_hand, basis>> PROVE Stands'
  BY <1>1 DEF Stands, Reviewed
<1>2. ASSUME request.at \in Working, UNCHANGED case_state PROVE Stands'
  <2>1. NoCase \notin States
    BY InputAssumption, Zenon
  <2>2. ~Reviewed
    BY <1>2, <2>1 DEF Busy, Reviewed, RECONCILE_ALLOWED_STATES, States
  <2>3. QED
    BY <1>2, <2>2 DEF Stands, Reviewed
<1>3. ASSUME NEW file \in Files \union {NoFile}, NEW lists \in SUBSET Lists, Reconcile(file, lists)
      PROVE  Stands'
  BY <1>1, <1>3 DEF Reconcile
<1>4. ASSUME NEW names \in Discoveries, Discover(names) PROVE Stands'
  BY <1>1, <1>4 DEF Discover
<1>5. ASSUME \/ DiscoveryFails \/ LoadLei \/ LoadRelationships \/ LoadLists
             \/ MatchEmployer \/ Climb \/ NameParents \/ Diff \/ WriteManifest \/ Crash
      PROVE  Stands'
  <2>1. UNCHANGED <<case_state, ties, by_hand, basis>>
    BY <1>5 DEF DiscoveryFails, LoadLei, LoadRelationships, LoadLists, MatchEmployer, Climb,
                NameParents, Diff, WriteManifest, Crash
  <2>2. QED
    BY <1>1, <2>1
<1>6. ASSUME DeleteFindings \/ InsertFinding \/ DeleteTies \/ InsertTie PROVE Stands'
  <2>1. request.at \in Working /\ UNCHANGED case_state
    BY <1>6 DEF DeleteFindings, InsertFinding, DeleteTies, InsertTie, Working
  <2>2. QED
    BY <1>2, <2>1
<1>7. ASSUME DeleteCase PROVE Stands'
  <2>1. NoCase \notin States
    BY InputAssumption, Zenon
  <2>2. QED
    BY <1>7, <2>1 DEF DeleteCase, Stands, Reviewed, States
<1>8. ASSUME InsertCase PROVE Stands'
  <2>1. request.at = "insert_case" /\ ties' = ties
        /\ basis' = [run |-> request.run, discovered |-> request.discovered,
                     lists |-> request.lists, file |-> request.file,
                     undisturbed |-> request.undisturbed]
    BY <1>8 DEF InsertCase
  <2>2. /\ basis'.run = request.run /\ basis'.lists = request.lists
        /\ basis'.file = request.file /\ basis'.undisturbed = request.undisturbed
    BY <2>1
  <2>3. request.undisturbed => Backed(ties, request.file, request.lists, request.run)
    BY <2>1 DEF ByTheFile
  <2>4. QED
    BY <2>1, <2>2, <2>3 DEF Stands
<1>9. ASSUME NEW target \in States, Transition(target) PROVE Stands'
  <2>1. /\ UNCHANGED <<ties, basis>>
        /\ case_state' \in TRANSITIONS[case_state] /\ case_state \in States
        /\ by_hand' = IF case_state = "discovery" THEN TRUE ELSE by_hand
    BY <1>9 DEF Transition
  <2>2. CASE case_state \in {"intake", "declaration_assembly", "closed"}
    <3>1. case_state' \in {"declaration_assembly", "discovery"}
      BY <2>1, <2>2 DEF TRANSITIONS
    <3>2. QED
      BY <3>1 DEF Stands, Reviewed
  <2>3. CASE case_state = "discovery"
    BY <2>1, <2>3 DEF Stands
  <2>4. CASE case_state \in {"worksheet", "adjudication", "outcome"}
    <3>1. Reviewed /\ by_hand' = by_hand
      BY <2>1, <2>4 DEF Reviewed
    <3>2. QED
      BY <2>1, <3>1 DEF Stands
  <2>5. QED
    BY <2>1, <2>2, <2>3, <2>4 DEF States
<1>10. ASSUME NEW file \in Files, OtherLoadsLei(file) \/ OtherLoadsRelationships(file)
       PROVE  Stands'
  BY <1>1, <1>10 DEF OtherLoadsLei, OtherLoadsRelationships
<1>11. ASSUME UNCHANGED vars PROVE Stands'
  BY <1>1, <1>11 DEF vars
<1>12. QED
  BY <1>3, <1>4, <1>5, <1>6, <1>7, <1>8, <1>9, <1>10, <1>11 DEF Next

\* The climb's part of the invariant holds throughout.
THEOREM AlwaysByTheFile == Spec => [](Climbs /\ ByTheFile /\ Stands)
<1>1. Init => Climbs /\ ByTheFile /\ Stands
  <2> SUFFICES ASSUME Init PROVE Climbs /\ ByTheFile /\ Stands
    OBVIOUS
  <2>1. request.at = "idle"
    BY DEF Init, Idle
  <2>2. NoCase \notin States
    BY InputAssumption, Zenon
  <2>3. ~Reviewed
    BY <2>2 DEF Init, Reviewed, States
  <2>4. QED
    BY <2>1, <2>3 DEF Climbs, ByTheFile, Stands, Climbing, AtEmployer
<1>2. Whole /\ Whole' /\ Climbs /\ ByTheFile /\ Stands /\ [Next]_vars
        => Climbs' /\ ByTheFile' /\ Stands'
  BY ClimbsNext, ByTheFileNext, StandsNext DEF Whole
<1>3. QED
  BY <1>1, <1>2, AlwaysWhole, PTL DEF Spec

\* Unless another request replaced a GLEIF table meanwhile, the employer ties on
\* that worksheet are those of the files the request named, one for each listed
\* parent, and one that does not say truncated has nobody left out above its
\* parent (tie_from_ownership), for any files and any graph.
THEOREM EmployerTiesAreAlwaysBacked == Spec => []EmployerTiesAreBacked
<1>1. Typed /\ Detailed /\ Stands => EmployerTiesAreBacked
  <2> DEFINE shown == {<<t.anchor, t.parent>> : t \in
                         {u \in ties : u.kind = "declared_employer_ultimate_parent"}}
             file == basis.file
             backing == {pair \in ToSet(Employers) \X file.leis :
                           /\ LeiOf[pair[1]] \in file.leis
                           /\ pair[2] \in Endpoints(file.edges, LeiOf[pair[1]], MaxDepth)
                           /\ Listed(LegalName[pair[2]], basis.lists)}
             above(t) == (UNION {ToSet(c) : c \in Chains(file.edges, LeiOf[t.anchor], MaxDepth)})
                           \union {LeiOf[t.anchor]}
  <2>0. SUFFICES ASSUME Typed, Detailed, Stands, OnTheBasis, basis.undisturbed
                 PROVE  IF file = NoFile THEN shown = {}
                        ELSE /\ shown = backing
                             /\ \A t \in ties : t.parent # NoLei /\ ~t.truncated =>
                                  Parents(file.edges, t.parent) \subseteq above(t)
    BY DEF EmployerTiesAreBacked
  <2>1. Backed(ties, file, basis.lists, basis.run)
    BY <2>0 DEF Stands, OnTheBasis
  <2>2. /\ OfEmployers(ties) = TiesOfFile(file, basis.lists, basis.run)
        /\ \A t \in ties : t.kind # Employer => t.parent = NoLei
    BY <2>1 DEF Backed
  <2>3. shown = {<<t.anchor, t.parent>> : t \in OfEmployers(ties)}
    BY DEF OfEmployers, Employer
  <2>4. CASE file = NoFile
    BY <2>2, <2>3, <2>4 DEF TiesOfFile
  <2>5. CASE file # NoFile
    <3> DEFINE tie(e, p) ==
                 [kind |-> "declared_employer_ultimate_parent", anchor |-> e,
                  name |-> LegalName[p], related |-> NoFinding, parent |-> p,
                  truncated |-> Truncated(file.edges, LeiOf[e], MaxDepth), run |-> basis.run]
               At(e, p) == /\ e \in ToSet(Employers) /\ LeiOf[e] \in file.leis
                           /\ p \in file.leis
                           /\ \E c \in Chains(file.edges, LeiOf[e], MaxDepth) : p = Last(c)
                           /\ Listed(LegalName[p], basis.lists)
    <3>1. \A t : t \in OfEmployers(ties) <=> \E e, p : At(e, p) /\ t = tie(e, p)
      <4>1. OfEmployers(ties) = TiesOfEmployers(ToSet(Employers), file, basis.lists, basis.run)
        BY <2>2, <2>5 DEF TiesOfFile
      <4>2. \A e, t : t \in TiesByFile(e, file, basis.lists, basis.run) <=>
              \E p : /\ p \in file.leis
                     /\ \E c \in Chains(file.edges, LeiOf[e], MaxDepth) : p = Last(c)
                     /\ Listed(LegalName[p], basis.lists)
                     /\ t = tie(e, p)
        BY DEF TiesByFile, EmployerTies
      <4> HIDE DEF tie
      <4>3. QED
        BY <4>1, <4>2 DEF TiesOfEmployers
    <3>2. \A e, p : tie(e, p).anchor = e /\ tie(e, p).parent = p
                    /\ tie(e, p).truncated = Truncated(file.edges, LeiOf[e], MaxDepth)
      OBVIOUS
    <3>3. \A e, p : At(e, p) <=> <<e, p>> \in backing
      BY DEF Endpoints
    <3> HIDE DEF tie, At, file
    <3>4. shown = backing
      <4>1. ASSUME NEW x \in shown PROVE x \in backing
        <5>1. PICK t \in OfEmployers(ties) : x = <<t.anchor, t.parent>>
          BY <2>3
        <5>2. PICK e, p : At(e, p) /\ t = tie(e, p)
          BY <3>1, <5>1
        <5>3. QED
          BY <3>2, <3>3, <5>1, <5>2
      <4>2. ASSUME NEW x \in backing PROVE x \in shown
        <5>1. PICK e \in ToSet(Employers), p \in file.leis : x = <<e, p>>
          OBVIOUS
        <5>2. At(e, p)
          BY <3>3, <5>1
        <5>3. tie(e, p) \in OfEmployers(ties)
          BY <3>1, <5>2
        <5>4. QED
          BY <2>3, <3>2, <5>1, <5>3
      <4>3. QED
        BY <4>1, <4>2
    <3>5. ASSUME NEW t \in ties, t.parent # NoLei, ~t.truncated
          PROVE  Parents(file.edges, t.parent) \subseteq above(t)
      <4>1. t \in OfEmployers(ties)
        BY <2>2, <3>5 DEF OfEmployers
      <4>2. PICK e, p : At(e, p) /\ t = tie(e, p)
        BY <3>1, <4>1
      <4>3. t.anchor = e /\ t.parent = p /\ ~Truncated(file.edges, LeiOf[e], MaxDepth)
        BY <3>2, <3>5, <4>2
      <4>4. file \in FileRecords
        <5>1. Files \subseteq FileRecords
          BY InputAssumption, Zenon
        <5>2. QED
          BY <2>0, <2>5, <5>1 DEF Detailed, file
      <4>5. file.edges \in SUBSET (LEIs \X LEIs) /\ LeiOf[e] \in LEIs
        BY <4>2, <4>4 DEF FileRecords, At
      <4>6. MaxDepth \in Nat \ {0}
        BY InputAssumption
      <4>7. PICK c \in Chains(file.edges, LeiOf[e], MaxDepth) : p = Last(c)
        BY <4>2 DEF At
      <4>8. Parents(file.edges, Last(c)) \subseteq ToSet(c) \union {LeiOf[e]}
        <5> DEFINE edges == file.edges
                   lei == LeiOf[e]
        <5>1. edges \in SUBSET (LEIs \X LEIs) /\ lei \in LEIs
          BY <4>5
        <5> HIDE DEF edges, lei
        <5>2. Truncated(edges, lei, MaxDepth) <=>
                \E d \in Chains(edges, lei, MaxDepth) :
                  ~(Parents(edges, Last(d)) \subseteq ToSet(d) \union {lei})
          BY <4>6, <5>1, TruncationIsTold
        <5>3. ~Truncated(edges, lei, MaxDepth) /\ c \in Chains(edges, lei, MaxDepth)
          BY <4>3, <4>7 DEF edges, lei
        <5>4. Parents(edges, Last(c)) \subseteq ToSet(c) \union {lei}
          BY <5>2, <5>3
        <5>5. QED
          BY <5>4 DEF edges, lei
      <4>9. ToSet(c) \subseteq UNION {ToSet(d) : d \in Chains(file.edges, LeiOf[e], MaxDepth)}
        BY <4>7
      <4>10. Parents(file.edges, p) \subseteq
               (UNION {ToSet(d) : d \in Chains(file.edges, LeiOf[e], MaxDepth)}) \union {LeiOf[e]}
        BY <4>7, <4>8, <4>9
      <4>11. t.anchor = e /\ t.parent = p
        BY <4>3
      <4>12. QED
        BY <4>10, <4>11
    <3>6. QED
      BY <2>5, <3>4, <3>5
  <2>6. QED
    BY <2>4, <2>5
<1>2. QED
  BY <1>1, AlwaysTyped, AlwaysByTheFile, PTL
=============================================================================
