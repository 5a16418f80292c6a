------------------------ MODULE BibliometricsProofs ------------------------
(***************************************************************************)
(* Proofs about Bibliometrics, for any entities, investigators, authors    *)
(* and papers, any caps and page size, and any number of requests.         *)
(*                                                                         *)
(* What is stored of an author is all there is up to a cap someone asked   *)
(* for, and no paper is flagged that is not of an investigator of the      *)
(* entity or does not lead by the margin. What a request holds on its way  *)
(* there is Sound; what each table may hold, Stored. Neither relates two   *)
(* requests, so overlaps and crashes do not matter to them.                *)
(*                                                                         *)
(* What the manifest and the flags say of a stage that nobody overlapped   *)
(* needs more: such a stage is the only one at work (Solo), a survey has   *)
(* the works of each author it leads to or has them ahead (MissesNone),    *)
(* nobody refetches them once its manifest is written (Surveyed), and a    *)
(* topic stage has in hand the papers it found when it began and the flags *)
(* they give (PapersInHand, FlagsInHand).                                  *)
(***************************************************************************)
EXTENDS Bibliometrics, FiniteSetTheorems, SequenceTheorems, TLAPS

\* SetToSeq of a finite set lists each of its elements once: the order in which
\* calls are made and rows inserted does not matter.
LEMMA SetAsSequence ==
  ASSUME NEW S, IsFiniteSet(S)
  PROVE  /\ SetToSeq(S) \in Seq(S)
         /\ ToSet(SetToSeq(S)) = S
         /\ IsInjective(SetToSeq(S))
<1> DEFINE n == Cardinality(S)
           s == SetToSeq(S)
<1>1. n \in Nat /\ ExistsBijection(1..n, S)
  BY FS_CardinalityType
<1>2. \E f \in [1..n -> S] : IsInjective(f)
  BY <1>1 DEF ExistsBijection, Bijection, Injection
<1>3. s \in [1..n -> S] /\ IsInjective(s)
  BY <1>2 DEF SetToSeq
<1>4. s \in Seq(S)
  BY <1>1, <1>3
<1>5. s \in Injection(1..n, S)
  BY <1>3 DEF Injection
<1>6. IsFiniteSet(1..n) /\ Cardinality(1..n) = n
  BY <1>1, FS_Interval
<1>7. s \in Surjection(1..n, S)
  <2> HIDE DEF s
  <2>1. QED
    BY <1>5, <1>6, FS_Injection
<1>8. ToSet(s) = S
  BY <1>3, <1>7 DEF ToSet, Surjection
<1>9. QED
  BY <1>3, <1>4, <1>8

\* What is left of the calls when the first is done.
LEMMA RestOfSequence ==
  ASSUME NEW T, NEW s \in Seq(T), s # <<>>
  PROVE  /\ Head(s) \in T /\ Tail(s) \in Seq(T)
         /\ Len(s) \in Nat /\ Len(Tail(s)) = Len(s) - 1
         /\ \A i \in 1..Len(Tail(s)) : Tail(s)[i] = s[i + 1]
         /\ ToSet(s) = {Head(s)} \union ToSet(Tail(s))
<1>1. Head(s) \in T /\ Tail(s) \in Seq(T) /\ Len(s) \in Nat \ {0} /\ Len(Tail(s)) = Len(s) - 1
  OBVIOUS
<1>2. \A i \in 1..Len(Tail(s)) : Tail(s)[i] = s[i + 1]
  OBVIOUS
<1>3. ASSUME NEW x \in ToSet(s) PROVE x \in {Head(s)} \union ToSet(Tail(s))
  <2>1. PICK i \in 1..Len(s) : x = s[i]
    BY DEF ToSet
  <2>2. CASE i = 1
    BY <2>1, <2>2
  <2>3. CASE i # 1
    <3>1. i - 1 \in 1..Len(Tail(s)) /\ Tail(s)[i - 1] = s[i]
      BY <1>1, <1>2, <2>1, <2>3
    <3>2. DOMAIN Tail(s) = 1..Len(Tail(s))
      BY <1>1
    <3>3. QED
      BY <2>1, <3>1, <3>2 DEF ToSet
  <2>4. QED
    BY <2>2, <2>3
<1>4. ToSet(Tail(s)) \subseteq ToSet(s)
  BY <1>1, <1>2 DEF ToSet
<1>5. Head(s) \in ToSet(s)
  BY <1>1 DEF ToSet
<1>6. QED
  BY <1>1, <1>2, <1>3, <1>4, <1>5

\* The calls of two lists put together are the calls of both.
LEMMA ConcatenatedSets ==
  ASSUME NEW T, NEW s \in Seq(T), NEW t \in Seq(T)
  PROVE  /\ s \o t \in Seq(T)
         /\ ToSet(s \o t) = ToSet(s) \union ToSet(t)
<1>1. s \o t \in Seq(T) /\ Len(s \o t) = Len(s) + Len(t)
  OBVIOUS
<1>2. /\ \A i \in 1..Len(s) : (s \o t)[i] = s[i]
      /\ \A i \in 1..Len(t) : (s \o t)[i + Len(s)] = t[i]
  OBVIOUS
<1>3. \A i \in 1..Len(s \o t) : i \in 1..Len(s) \/ i - Len(s) \in 1..Len(t)
  BY <1>1
<1>4. ASSUME NEW x \in ToSet(s \o t) PROVE x \in ToSet(s) \union ToSet(t)
  <2>1. PICK i \in 1..Len(s \o t) : x = (s \o t)[i]
    BY <1>1 DEF ToSet
  <2>2. CASE i \in 1..Len(s)
    BY <1>2, <2>1, <2>2 DEF ToSet
  <2>3. CASE i - Len(s) \in 1..Len(t)
    <3>1. x = t[i - Len(s)]
      BY <1>2, <2>1, <2>3
    <3>2. QED
      BY <2>3, <3>1 DEF ToSet
  <2>4. QED
    BY <1>3, <2>2, <2>3
<1>5. ToSet(s) \subseteq ToSet(s \o t)
  BY <1>1, <1>2 DEF ToSet
<1>6. ASSUME NEW x \in ToSet(t) PROVE x \in ToSet(s \o t)
  <2>1. PICK i \in 1..Len(t) : x = t[i]
    BY DEF ToSet
  <2>2. i + Len(s) \in 1..Len(s \o t)
    BY <1>1
  <2>3. QED
    BY <1>1, <1>2, <2>1, <2>2 DEF ToSet
<1>7. QED
  BY <1>1, <1>4, <1>5, <1>6

-----------------------------------------------------------------------------
\* A match stands for an author some name of the entity's institution leads to.
Backed(m) ==
  \E f \in Entities : /\ InstitutionOf[f] = InstitutionOf[m.entity]
                      /\ \E pi \in PIsOf[f] : m.author \in AuthorsOf[pi]

\* A paper with an abstract, of an author the entity is matched to.
OfAuthor(p) ==
  Backed(p.match) /\ p.work \in HasAbstract \intersect ToSet(WorksOf[p.match.author])

\* What FlagsAreEarned asks of a flag.
Earned(t) ==
  Lead[t[3]][t[2]] >= Margin /\ t[2] \in HasAbstract \intersect PapersBehind(t[1])

\* The points of a survey where it asks OpenAlex, or stores works.
Fetching == {"next", "get", "delete_works", "insert_works"}

\* The fields of a request; of some of them no more than that they are there.
Shape(r) ==
  r \in [at : {"idle", "next", "get", "delete_works", "insert_works",
               "delete_matches", "insert_matches", "write_manifest",
               "embed", "delete_papers", "insert_papers", "rank",
               "delete_flags", "insert_flags", "write_topic_manifest"},
         calls : Seq(Calls), attempt : {r.attempt}, page : Nat, cap : {r.cap},
         located : SUBSET Entities, at_work : {r.at_work}, found : {r.found},
         rows : {r.rows}, loaded : {r.loaded}, todo : {r.todo},
         embedded : {r.embedded}, corpora : Seq(ToSet(Corpora)), flags : SUBSET FlagRows,
         before : {r.before}, alone : {r.alone}]

\* The group in hand is of one institution; the names asked about, and what
\* they resolved to, are of it.
Grouped(r) ==
  /\ r.at_work \subseteq Entities
  /\ \A e, f \in r.at_work : InstitutionOf[e] = InstitutionOf[f]
  /\ \A call \in ToSet(r.calls) : call.kind = "authors" =>
       \E f \in r.at_work : call.of \in PIsOf[f]
  /\ \A p \in r.found : \E f \in r.at_work : p[1] \in PIsOf[f] /\ p[2] \in AuthorsOf[p[1]]

Sound(r) ==
  /\ Shape(r)
  /\ r.at \in Fetching => Grouped(r)
  /\ r.at \in {"get", "delete_works", "insert_works"} => r.calls # <<>>
  /\ r.at \in {"delete_works", "insert_works"} =>
       Head(r.calls).kind = "works" /\ IsLastPage(Head(r.calls).of, r.page, r.cap)
  /\ \A m \in MatchRows : r.rows[m] # 0 => Backed(m)
  /\ \A m \in MatchRows : r.loaded[m] # 0 => Backed(m)
  /\ \A p \in PaperRows : r.embedded[p] # 0 => OfAuthor(p)
  /\ \A t \in r.flags : Earned(t)
  /\ r.at = "rank" => r.corpora # <<>>

Stored ==
  /\ caps_used \subseteq Caps /\ DOMAIN works \subseteq Authors /\ WorksAreWhole
  /\ \A m \in MatchRows : matches[m] # 0 => Backed(m)
  /\ \A p \in PaperRows : papers[p] # 0 => OfAuthor(p)
  /\ \A t \in FlagRows : flags[t] # 0 => Earned(t)

Requests ==
  /\ DOMAIN worker = Workers
  /\ \A k \in Workers :
       /\ Sound(worker[k])
       /\ worker[k].at \in Fetching => worker[k].cap \in caps_used

Inv == Stored /\ Requests

\* The assumptions on the inputs, one by one.
LEMMA Inputs ==
  /\ IsFiniteSet(Entities) /\ IsFiniteSet(PIs) /\ IsFiniteSet(Authors) /\ IsFiniteSet(Works)
  /\ PIsOf \in [Entities -> SUBSET PIs] /\ AuthorsOf \in [PIs -> SUBSET Authors]
  /\ WorksOf \in [Authors -> Seq(Works)] /\ HasAbstract \subseteq Works
  /\ Corpora \in Seq(ToSet(Corpora)) /\ Corpora # <<>>
  /\ Lead \in [ToSet(Corpora) -> [Works -> Nat]]
  /\ Margin \in Nat /\ PAGE_SIZE \in Nat \ {0} /\ Caps \subseteq Nat
BY InputAssumption, Zenon

\* A request that holds nothing is sound.
LEMMA IdleIsSound == Sound(Idle) /\ Idle.at = "idle"
<1>1. <<>> \in Seq(Calls) /\ <<>> \in Seq(ToSet(Corpora)) /\ ToSet(<<>>) = {}
  BY DEF ToSet
<1>2. Shape(Idle) /\ Idle.at = "idle"
  <2>1. {} \in SUBSET Entities /\ {} \in SUBSET FlagRows /\ 0 \in Nat
    OBVIOUS
  <2>2. QED
    BY <1>1, <2>1, Zenon DEF Shape, Idle
<1>3. QED
  BY <1>2 DEF Sound, Idle, Fetching, NoMatches, NoPapers

\* A step of one request that leaves the tables alone, or what they hold of
\* the right kind.
LEMMA OneStep ==
  ASSUME Requests, Stored', NEW k \in Workers, NEW q, Become(k, q), Sound(q),
         q.at \in Fetching => q.cap \in caps_used', caps_used \subseteq caps_used'
  PROVE  Inv'
BY DEF Inv, Requests, Become

\* What the last page leaves stored is the coverage the cap asks for
\* (get_author_works).
LEMMA LastPageIsWhole ==
  ASSUME NEW a \in Authors, NEW page \in Nat, NEW cap \in Nat, IsLastPage(a, page, cap)
  PROVE  LET upto == UpTo(a, page)
         IN (IF cap = 0 THEN upto ELSE Least(upto, cap)) = Coverage(a, cap)
<1> DEFINE all == Len(WorksOf[a])
           end == (page + 1) * PAGE_SIZE
<1>1. all \in Nat /\ end \in Nat
  BY Inputs
<1>2. UpTo(a, page) = Least(all, end)
  BY DEF UpTo
<1>3. \/ cap # 0 /\ Least(all, end) >= cap
      \/ Least(all, end) < end
  BY <1>2 DEF IsLastPage
<1> HIDE DEF all, end
<1>4. (IF cap = 0 THEN Least(all, end) ELSE Least(Least(all, end), cap))
        = IF cap = 0 THEN all ELSE Least(cap, all)
  BY <1>1, <1>3 DEF Least
<1>5. Coverage(a, cap) = IF cap = 0 THEN all ELSE Least(cap, all)
  BY DEF Coverage, all
<1>6. QED
  BY <1>2, <1>4, <1>5

\* Papers stored with an abstract are papers of the author.
LEMMA StoredAreOfAuthor ==
  ASSUME Stored, NEW a \in Authors
  PROVE  StoredPapers(a) \subseteq HasAbstract \intersect ToSet(WorksOf[a])
<1>1. CASE a \notin DOMAIN works
  BY <1>1 DEF StoredPapers
<1>2. CASE a \in DOMAIN works
  <2>1. PICK cap \in caps_used : works[a] = Coverage(a, cap)
    BY <1>2 DEF Stored, WorksAreWhole
  <2>2. cap \in Nat /\ WorksOf[a] \in Seq(Works) /\ Len(WorksOf[a]) \in Nat
    BY Inputs DEF Stored
  <2>3. works[a] \in Nat /\ works[a] <= Len(WorksOf[a])
    BY <2>1, <2>2 DEF Coverage, Least
  <2>4. 1..works[a] \subseteq DOMAIN WorksOf[a]
    BY <2>2, <2>3
  <2>5. QED
    BY <1>2, <2>4 DEF StoredPapers, ToSet
<1>3. QED
  BY <1>1, <1>2

\* An insert that is cut short got to some of its rows.
LEMMA FirstAreSome ==
  ASSUME NEW S, IsFiniteSet(S), NEW M \in FirstOf(S)
  PROVE  M \subseteq S
<1> DEFINE s == SetToSeq(S)
<1>1. s \in Seq(S) /\ Len(s) = Cardinality(S) /\ Cardinality(S) \in Nat
  <2>1. Cardinality(S) \in Nat /\ ExistsBijection(1..Cardinality(S), S)
    BY FS_CardinalityType
  <2>2. \E f \in [1..Cardinality(S) -> S] : IsInjective(f)
    BY <2>1 DEF ExistsBijection, Bijection, Injection
  <2>3. s \in [1..Cardinality(S) -> S]
    BY <2>2 DEF SetToSeq
  <2>4. QED
    BY <2>1, <2>3
<1>2. PICK n \in 1..Cardinality(S) : M = ToSet(SubSeq(s, 1, n))
  BY DEF FirstOf
<1> HIDE DEF s
<1>3. \A i \in 1..n : SubSeq(s, 1, n)[i] = s[i] /\ s[i] \in S
  BY <1>1, <1>2
<1>4. DOMAIN SubSeq(s, 1, n) = 1..n
  BY <1>1, <1>2
<1>5. QED
  BY <1>2, <1>3, <1>4 DEF ToSet

\* The tables have finitely many rows.
LEMMA RowsAreFinite ==
  IsFiniteSet(MatchRows) /\ IsFiniteSet(PaperRows) /\ IsFiniteSet(FlagRows)
<1>1. IsFiniteSet(MatchRows)
  <2> DEFINE F == [p \in Entities \X Authors |-> [entity |-> p[1], author |-> p[2]]]
  <2>1. IsFiniteSet(Entities \X Authors)
    BY Inputs, FS_Product
  <2>2. F \in Surjection(Entities \X Authors, MatchRows)
    <3>1. F \in [Entities \X Authors -> MatchRows]
      BY DEF MatchRows
    <3>2. ASSUME NEW m \in MatchRows PROVE \E p \in Entities \X Authors : F[p] = m
      <4>1. <<m.entity, m.author>> \in Entities \X Authors
        BY DEF MatchRows
      <4>2. F[<<m.entity, m.author>>] = m
        BY <4>1 DEF MatchRows
      <4>3. QED
        BY <4>1, <4>2
    <3>3. QED
      BY <3>1, <3>2 DEF Surjection
  <2> HIDE DEF F
  <2>3. QED
    BY <2>1, <2>2, FS_Surjection
<1>2. IsFiniteSet(PaperRows)
  <2> DEFINE F == [p \in MatchRows \X Works |-> [match |-> p[1], work |-> p[2]]]
  <2>1. IsFiniteSet(MatchRows \X Works)
    BY <1>1, Inputs, FS_Product
  <2>2. F \in Surjection(MatchRows \X Works, PaperRows)
    <3>1. F \in [MatchRows \X Works -> PaperRows]
      BY DEF PaperRows
    <3>2. ASSUME NEW m \in PaperRows PROVE \E p \in MatchRows \X Works : F[p] = m
      <4>1. <<m.match, m.work>> \in MatchRows \X Works
        BY DEF PaperRows
      <4>2. F[<<m.match, m.work>>] = m
        BY <4>1 DEF PaperRows
      <4>3. QED
        BY <4>1, <4>2
    <3>3. QED
      BY <3>1, <3>2 DEF Surjection
  <2> HIDE DEF F
  <2>3. QED
    BY <2>1, <2>2, FS_Surjection
<1>3. IsFiniteSet(FlagRows)
  <2> DEFINE C == ToSet(Corpora)
             F == [p \in (Entities \X Works) \X C |-> <<p[1][1], p[1][2], p[2]>>]
  <2>1. IsFiniteSet(C)
    <3>1. Corpora \in Surjection(1..Len(Corpora), C) /\ Len(Corpora) \in Nat
      BY Inputs DEF Surjection, ToSet
    <3>2. IsFiniteSet(1..Len(Corpora))
      BY <3>1, FS_Interval
    <3>3. QED
      BY <3>1, <3>2, FS_Surjection
  <2> HIDE DEF C
  <2>2. IsFiniteSet((Entities \X Works) \X C)
    BY <2>1, Inputs, FS_Product
  <2>3. F \in Surjection((Entities \X Works) \X C, Entities \X Works \X C)
    <3>1. F \in [(Entities \X Works) \X C -> Entities \X Works \X C]
      OBVIOUS
    <3>2. ASSUME NEW t \in Entities \X Works \X C
          PROVE  \E p \in (Entities \X Works) \X C : F[p] = t
      <4>1. <<<<t[1], t[2]>>, t[3]>> \in (Entities \X Works) \X C
        OBVIOUS
      <4>2. F[<<<<t[1], t[2]>>, t[3]>>] = t
        BY <4>1
      <4>3. QED
        BY <4>1, <4>2
    <3>3. QED
      BY <3>1, <3>2 DEF Surjection
  <2> HIDE DEF F
  <2>4. QED
    BY <2>2, <2>3, FS_Surjection DEF FlagRows, C
<1>4. QED
  BY <1>1, <1>2, <1>3

-----------------------------------------------------------------------------
\* A step that touches no table keeps what they hold of the right kind.
LEMMA TablesStay ==
  ASSUME Stored, UNCHANGED <<stored, topic>>, caps_used \subseteq caps_used',
         caps_used' \subseteq Caps
  PROVE  Stored'
<1>1. works' = works /\ matches' = matches /\ papers' = papers /\ flags' = flags
  BY DEF stored, topic
<1>2. WorksAreWhole'
  BY <1>1 DEF Stored, WorksAreWhole
<1>3. DOMAIN works' \subseteq Authors
  BY <1>1 DEF Stored
<1>4. QED
  BY <1>1, <1>2, <1>3 DEF Stored

\* What is known of a request, and of the tables, before its step.
LEMMA OfRequest ==
  ASSUME Inv, NEW k \in Workers
  PROVE  /\ Requests /\ Stored /\ Sound(worker[k])
         /\ worker[k].at \in Fetching => worker[k].cap \in caps_used
BY DEF Inv, Requests

\* The same step of a request that leaves the tables alone.
LEMMA QuietStep ==
  ASSUME Inv, NEW k \in Workers, NEW q, Become(k, q), Sound(q),
         q.at \in Fetching => q.cap \in caps_used, UNCHANGED <<stored, topic, history>>
  PROVE  Inv'
<1>1. caps_used' = caps_used /\ caps_used \subseteq Caps
  BY DEF history, Inv, Stored
<1>2. Stored'
  BY <1>1, TablesStay DEF Inv
<1>3. QED
  BY <1>1, <1>2, OneStep DEF Inv

\* Whether a request was alone says nothing of what it holds.
LEMMA AloneOrNot ==
  ASSUME NEW r, Sound(r), NEW b \in BOOLEAN
  PROVE  LET p == [r EXCEPT !.alone = b]
         IN Sound(p) /\ p.at = r.at /\ p.cap = r.cap
<1> DEFINE p == [r EXCEPT !.alone = b]
<1>1. Shape(p)
  BY DEF Sound, Shape
<1>2. /\ p.at = r.at /\ p.cap = r.cap /\ p.calls = r.calls /\ p.at_work = r.at_work
      /\ p.found = r.found /\ p.rows = r.rows /\ p.loaded = r.loaded
      /\ p.embedded = r.embedded /\ p.flags = r.flags /\ p.corpora = r.corpora
      /\ p.page = r.page
  BY DEF Sound, Shape
<1> HIDE DEF p
<1>3. Sound(p)
  BY <1>1, <1>2 DEF Sound, Grouped
<1>4. QED
  BY <1>2, <1>3 DEF p

\* A stage starts: a new record, and the others know they are not alone.
LEMMA BeginKeeps ==
  ASSUME Inv, NEW k \in Workers, NEW q, Sound(q), Begin(k, q), Stored',
         q.at \in Fetching => q.cap \in caps_used', caps_used \subseteq caps_used'
  PROVE  Inv'
<1> DEFINE alone == Others(k) = {}
           fresh == [q EXCEPT !.alone = alone]
           after(j) == IF j = k THEN fresh
                       ELSE IF j \in Others(k) THEN [worker[j] EXCEPT !.alone = FALSE]
                       ELSE worker[j]
<1>1. worker' = [j \in Workers |-> after(j)]
  BY DEF Begin
<1>2. alone \in BOOLEAN
  OBVIOUS
<1> HIDE DEF alone
<1>3. Sound(fresh) /\ fresh.at = q.at /\ fresh.cap = q.cap
  BY <1>2, AloneOrNot
<1> HIDE DEF fresh
<1>4. ASSUME NEW j \in Workers
      PROVE  Sound(after(j)) /\ (after(j).at \in Fetching => after(j).cap \in caps_used')
  <2> DEFINE r == worker[j]
             p == [r EXCEPT !.alone = FALSE]
  <2>1. Sound(r) /\ (r.at \in Fetching => r.cap \in caps_used)
    BY OfRequest
  <2>2. Sound(p) /\ p.at = r.at /\ p.cap = r.cap
    BY <2>1, AloneOrNot
  <2>3. after(j) = fresh \/ after(j) = p \/ after(j) = r
    OBVIOUS
  <2> HIDE DEF p, r, after
  <2>4. QED
    BY <1>3, <2>1, <2>2, <2>3
<1> HIDE DEF after
<1>5. QED
  BY <1>1, <1>4 DEF Inv, Requests

\* A survey starts under its cap.
LEMMA EnrichBibliometricKeeps ==
  ASSUME Inv, NEW k \in Workers, NEW cap \in Caps, EnrichBibliometric(k, cap)
  PROVE  Inv'
<1> DEFINE S == {Institution(e) : e \in Entities}
           calls == SetToSeq(S)
           q == [Idle EXCEPT !.at = "next", !.cap = cap, !.calls = calls]
<1>1. Begin(k, q) /\ caps_used' = caps_used \union {cap} /\ UNCHANGED <<stored, topic>>
  BY DEF EnrichBibliometric
<1>2. Stored'
  <2>1. caps_used \subseteq Caps /\ Stored
    BY DEF Inv, Stored
  <2>2. QED
    BY <1>1, <2>1, TablesStay
<1>3. calls \in Seq(Calls) /\ ToSet(calls) = S
  <2>1. [e \in Entities |-> Institution(e)] \in Surjection(Entities, S)
    BY DEF Surjection
  <2>2. IsFiniteSet(S)
    <3> HIDE DEF S
    <3>1. QED
      BY <2>1, Inputs, FS_Surjection
  <2>3. S \subseteq Calls
    BY DEF Institution, Calls
  <2> HIDE DEF S
  <2>4. SetToSeq(S) \in Seq(S) /\ ToSet(SetToSeq(S)) = S
    BY <2>2, SetAsSequence
  <2>5. QED
    BY <2>3, <2>4
<1>4. \A call \in S : call.kind # "authors"
  BY DEF Institution
<1> HIDE DEF calls, S
<1>5. Sound(q) /\ q.at = "next" /\ q.cap = cap
  BY <1>3, <1>4, IdleIsSound DEF Sound, Shape, Grouped, Idle, Fetching
<1> HIDE DEF q
<1>6. QED
  BY <1>1, <1>2, <1>5, BeginKeeps

\* The next call of a survey, or the next author whose works are there already.
LEMMA NextCallKeeps == ASSUME Inv, NEW k \in Workers, NextCall(k) PROVE Inv'
<1> DEFINE r == worker[k]
           rest == Tail(r.calls)
           skip == [r EXCEPT !.calls = rest]
           get == [r EXCEPT !.at = "get", !.attempt = 0, !.page = 0]
<1>1. r.at = "next" /\ r.calls # <<>> /\ UNCHANGED <<stored, topic, history>>
  BY DEF NextCall
<1>2. Become(k, skip) \/ Become(k, get)
  BY DEF NextCall
<1>3. Sound(r) /\ r.cap \in caps_used
  BY <1>1, OfRequest DEF Fetching
<1>4. r.calls \in Seq(Calls)
  BY <1>3 DEF Sound, Shape
<1>5. rest \in Seq(Calls) /\ ToSet(rest) \subseteq ToSet(r.calls)
  BY <1>1, <1>4, RestOfSequence
<1> HIDE DEF rest, r
<1>6. Sound(skip) /\ skip.at = "next" /\ skip.cap = r.cap
  BY <1>1, <1>3, <1>5 DEF Sound, Shape, Grouped, Fetching
<1>7. Sound(get) /\ get.cap = r.cap
  BY <1>1, <1>3 DEF Sound, Shape, Grouped, Fetching
<1> HIDE DEF skip, get
<1>8. QED
  BY <1>1, <1>2, <1>3, <1>6, <1>7, QuietStep

\* A retry, or the end.
LEMMA RetryKeeps == ASSUME Inv, NEW k \in Workers, RetryGet(k) \/ FailGet(k) PROVE Inv'
<1> DEFINE r == worker[k]
           attempt == r.attempt + 1
           q == [r EXCEPT !.attempt = attempt]
<1>1. r.at = "get" /\ UNCHANGED <<stored, topic, history>>
  BY DEF RetryGet, FailGet
<1>2. Become(k, q) \/ Become(k, Idle)
  BY DEF RetryGet, FailGet, End
<1>3. Sound(r) /\ r.cap \in caps_used
  BY <1>1, OfRequest DEF Fetching
<1> HIDE DEF attempt, r
<1>4. Sound(q) /\ q.cap = r.cap
  BY <1>3 DEF Sound, Shape, Grouped
<1> HIDE DEF q
<1>5. QED
  BY <1>1, <1>2, <1>3, <1>4, IdleIsSound, QuietStep DEF Fetching

\* An answer: the institution, authors of the name asked for, or a page.
LEMMA AnsweredKeeps == ASSUME Inv, NEW k \in Workers, Answered(k) PROVE Inv'
<1> DEFINE r == worker[k]
           call == Head(r.calls)
           rest == Tail(r.calls)
           done == [r EXCEPT !.at = "next", !.calls = rest]
           located == IF InstitutionOf[call.of] = NoInstitution
                      THEN r.located ELSE r.located \union {call.of}
           institution == [done EXCEPT !.located = located]
           S == {AuthorWorks(a) : a \in AuthorsOf[call.of]} \ ToSet(done.calls)
           found == r.found \union ({call.of} \X AuthorsOf[call.of])
           calls == rest \o SetToSeq(S)
           authors == [done EXCEPT !.found = found, !.calls = calls]
           last == [r EXCEPT !.at = "delete_works"]
           page == r.page + 1
           more == [r EXCEPT !.page = page, !.attempt = 0]
<1>1. r.at = "get" /\ UNCHANGED <<stored, topic, history>>
  BY DEF Answered
<1>2. Sound(r) /\ r.cap \in caps_used
  BY <1>1, OfRequest DEF Fetching
<1>3. /\ r.calls \in Seq(Calls) /\ r.calls # <<>> /\ r.page \in Nat
      /\ r.located \subseteq Entities /\ Grouped(r)
  BY <1>1, <1>2 DEF Sound, Shape, Fetching
<1>4. /\ call \in Calls /\ rest \in Seq(Calls)
      /\ ToSet(r.calls) = {call} \union ToSet(rest)
  BY <1>3, RestOfSequence
<1>5. done.calls = rest /\ done.located = r.located /\ done.found = r.found
  BY <1>2 DEF Sound, Shape
<1>6. \/ call.kind = "institution" /\ Become(k, institution)
      \/ call.kind = "authors" /\ Become(k, authors)
      \/ call.kind = "works" /\ IsLastPage(call.of, r.page, r.cap) /\ Become(k, last)
      \/ Become(k, more)
  <2>1. CASE call.kind = "institution"
    BY <1>5, <2>1 DEF Answered
  <2>2. CASE call.kind = "authors"
    BY <1>5, <2>2 DEF Answered
  <2>3. CASE call.kind = "works" /\ IsLastPage(call.of, r.page, r.cap)
    BY <2>3 DEF Answered, MoveTo
  <2>4. CASE /\ call.kind # "institution" /\ call.kind # "authors"
             /\ ~(call.kind = "works" /\ IsLastPage(call.of, r.page, r.cap))
    BY <2>4 DEF Answered
  <2>5. QED
    BY <2>1, <2>2, <2>3, <2>4
<1>7. CASE call.kind = "institution" /\ Become(k, institution)
  <2>1. call.of \in Entities
    BY <1>4, <1>7 DEF Calls
  <2>2. located \subseteq Entities
    BY <1>3, <2>1
  <2> HIDE DEF r, rest, located
  <2>3. Sound(institution) /\ institution.cap = r.cap
    BY <1>1, <1>2, <1>4, <2>2 DEF Sound, Shape, Grouped, Fetching
  <2> HIDE DEF institution
  <2>4. QED
    BY <1>1, <1>2, <1>7, <2>3, QuietStep DEF r
<1>8. CASE call.kind = "authors" /\ Become(k, authors)
  <2>1. call.of \in PIs
    BY <1>4, <1>8 DEF Calls
  <2>2. calls \in Seq(Calls) /\ ToSet(calls) = ToSet(rest) \union S
    <3> DEFINE T == {AuthorWorks(a) : a \in AuthorsOf[call.of]}
    <3>1. AuthorsOf[call.of] \subseteq Authors
      BY <2>1, Inputs
    <3>2. IsFiniteSet(AuthorsOf[call.of])
      BY <3>1, Inputs, FS_Subset
    <3>3. [a \in AuthorsOf[call.of] |-> AuthorWorks(a)] \in Surjection(AuthorsOf[call.of], T)
      BY DEF Surjection
    <3>4. IsFiniteSet(T)
      <4> HIDE DEF T
      <4>1. QED
        BY <3>2, <3>3, FS_Surjection
    <3>5. T \subseteq Calls
      BY <3>1 DEF AuthorWorks, Calls
    <3> HIDE DEF T, rest
    <3>6. S \subseteq T
      BY DEF T
    <3> HIDE DEF S
    <3>7. IsFiniteSet(S)
      BY <3>4, <3>6, FS_Subset
    <3>8. SetToSeq(S) \in Seq(S) /\ ToSet(SetToSeq(S)) = S
      BY <3>7, SetAsSequence
    <3>9. SetToSeq(S) \in Seq(Calls)
      BY <3>5, <3>6, <3>8
    <3>10. QED
      BY <1>4, <3>8, <3>9, ConcatenatedSets
  <2>3. \A c \in S : c.kind # "authors"
    BY DEF AuthorWorks
  <2>4. PICK f \in r.at_work : call.of \in PIsOf[f]
    BY <1>3, <1>4, <1>8 DEF Grouped
  <2>5. \A p \in found : \E g \in r.at_work : p[1] \in PIsOf[g] /\ p[2] \in AuthorsOf[p[1]]
    <3>1. ASSUME NEW p \in r.found
          PROVE  \E g \in r.at_work : p[1] \in PIsOf[g] /\ p[2] \in AuthorsOf[p[1]]
      BY <1>3 DEF Grouped
    <3>2. ASSUME NEW p \in {call.of} \X AuthorsOf[call.of]
          PROVE  p[1] \in PIsOf[f] /\ p[2] \in AuthorsOf[p[1]]
      BY <2>4
    <3>3. QED
      BY <2>4, <3>1, <3>2
  <2>6. \A c \in ToSet(calls) : c.kind = "authors" => \E g \in r.at_work : c.of \in PIsOf[g]
    <3> HIDE DEF calls, S, rest
    <3>1. QED
      BY <1>3, <1>4, <2>2, <2>3 DEF Grouped
  <2> HIDE DEF r, rest, calls, found, S
  <2>7. Sound(authors) /\ authors.cap = r.cap
    BY <1>1, <1>2, <1>3, <2>2, <2>5, <2>6 DEF Sound, Shape, Grouped, Fetching
  <2> HIDE DEF authors
  <2>8. QED
    BY <1>1, <1>2, <1>8, <2>7, QuietStep DEF r
<1>9. CASE call.kind = "works" /\ IsLastPage(call.of, r.page, r.cap) /\ Become(k, last)
  <2> HIDE DEF r
  <2>1. Sound(last) /\ last.cap = r.cap
    BY <1>1, <1>2, <1>9 DEF Sound, Shape, Grouped, Fetching
  <2> HIDE DEF last
  <2>2. QED
    BY <1>1, <1>2, <1>9, <2>1, QuietStep DEF r
<1>10. CASE Become(k, more)
  <2>1. page \in Nat
    BY <1>3
  <2> HIDE DEF r, page
  <2>2. Sound(more) /\ more.cap = r.cap
    BY <1>1, <1>2, <2>1 DEF Sound, Shape, Grouped, Fetching
  <2> HIDE DEF more
  <2>3. QED
    BY <1>1, <1>2, <1>10, <2>2, QuietStep DEF r
<1>11. QED
  BY <1>6, <1>7, <1>8, <1>9, <1>10

\* The works of one author go; those of the others stay what they were.
LEMMA DeleteWorksKeeps == ASSUME Inv, NEW k \in Workers, DeleteWorks(k) PROVE Inv'
<1> DEFINE r == worker[k]
           author == Head(r.calls).of
           q == [r EXCEPT !.at = "insert_works"]
<1>1. /\ r.at = "delete_works" /\ Become(k, q)
      /\ works' = [a \in DOMAIN works \ {author} |-> works[a]]
      /\ UNCHANGED <<matches, bib_manifest, topic, history>>
  BY DEF DeleteWorks, MoveTo
<1>2. Sound(r) /\ r.cap \in caps_used
  BY <1>1, OfRequest DEF Fetching
<1>3. Stored'
  <2>1. /\ DOMAIN works' \subseteq DOMAIN works
        /\ \A a \in DOMAIN works' : works'[a] = works[a]
        /\ matches' = matches /\ papers' = papers /\ flags' = flags /\ caps_used' = caps_used
    BY <1>1 DEF topic, history
  <2>2. WorksAreWhole'
    BY <2>1 DEF Inv, Stored, WorksAreWhole
  <2>3. DOMAIN works' \subseteq Authors
    BY <2>1 DEF Inv, Stored
  <2>4. QED
    BY <2>1, <2>2, <2>3 DEF Inv, Stored
<1>4. caps_used' = caps_used
  BY <1>1 DEF history
<1> HIDE DEF r
<1>5. Sound(q) /\ q.cap = r.cap
  BY <1>1, <1>2 DEF Sound, Shape, Grouped, Fetching
<1> HIDE DEF q
<1>6. QED
  BY <1>1, <1>2, <1>3, <1>4, <1>5, OneStep DEF Inv

\* All pages up to the cap are stored at once.
LEMMA InsertWorksKeeps == ASSUME Inv, NEW k \in Workers, InsertWorks(k) PROVE Inv'
<1> DEFINE r == worker[k]
           call == Head(r.calls)
           rest == Tail(r.calls)
           upto == UpTo(call.of, r.page)
           kept == IF r.cap = 0 THEN upto ELSE Least(upto, r.cap)
           q == [r EXCEPT !.at = "next", !.calls = rest]
<1>1. r.at = "insert_works" /\ UNCHANGED <<matches, bib_manifest, topic, history>>
  BY DEF InsertWorks
<1>2. Sound(r) /\ r.cap \in caps_used
  BY <1>1, OfRequest DEF Fetching
<1>3. /\ r.calls \in Seq(Calls) /\ r.calls # <<>> /\ r.page \in Nat
      /\ call.kind = "works" /\ IsLastPage(call.of, r.page, r.cap)
  BY <1>1, <1>2 DEF Sound, Shape, Fetching
<1>4. call \in Calls /\ rest \in Seq(Calls) /\ ToSet(rest) \subseteq ToSet(r.calls)
  BY <1>3, RestOfSequence
<1>5. call.of \in Authors
  BY <1>3, <1>4 DEF Calls
<1>6. r.cap \in Nat
  BY <1>2, Inputs DEF Inv, Stored
<1>7. kept = Coverage(call.of, r.cap)
  <2> HIDE DEF call, r
  <2>1. QED
    BY <1>3, <1>5, <1>6, LastPageIsWhole
<1>8. \/ works' = works /\ Become(k, Idle)
      \/ /\ works' = [a \in DOMAIN works \union {call.of} |-> IF a = call.of THEN kept ELSE works[a]]
         /\ Become(k, q)
  BY DEF InsertWorks, End
<1>9. caps_used' = caps_used /\ matches' = matches /\ papers' = papers /\ flags' = flags
  BY <1>1 DEF history, topic
<1> HIDE DEF kept, call, rest, r
<1>10. Stored'
  <2>1. DOMAIN works' \subseteq Authors
    BY <1>5, <1>8 DEF Inv, Stored
  <2>2. ASSUME NEW a \in DOMAIN works'
        PROVE  \E cap \in caps_used : works'[a] = Coverage(a, cap)
    <3>1. \/ a \in DOMAIN works /\ works'[a] = works[a]
          \/ a = call.of /\ works'[a] = kept
      BY <1>8
    <3>2. QED
      BY <1>2, <1>7, <3>1 DEF Inv, Stored, WorksAreWhole
  <2>3. WorksAreWhole'
    BY <1>9, <2>2 DEF WorksAreWhole
  <2>4. QED
    BY <1>9, <2>1, <2>3 DEF Inv, Stored
<1>11. Sound(q) /\ q.cap = r.cap
  BY <1>1, <1>2, <1>4 DEF Sound, Shape, Grouped, Fetching
<1> HIDE DEF q
<1>12. QED
  BY <1>2, <1>8, <1>9, <1>10, <1>11, IdleIsSound, OneStep DEF Inv, Fetching, r

\* A group is done and its matches stamped on its entities, the names of the
\* next one are asked for: both of one institution.
LEMMA NextGroupKeeps == ASSUME Inv, NEW k \in Workers, NextGroup(k) PROVE Inv'
<1> DEFINE r == worker[k]
           stamped(m) == IF m.entity \in r.at_work
                         THEN Cardinality({f \in r.found : f[2] = m.author}) ELSE 0
           rows == [m \in MatchRows |-> r.rows[m] + stamped(m)]
           rest == r.located \ r.at_work
           after == [r EXCEPT !.rows = rows, !.located = rest, !.at_work = {}, !.found = {}]
           last == [after EXCEPT !.at = "delete_matches"]
           group(i) == {e \in rest : InstitutionOf[e] = i}
           names(i) == UNION {PIsOf[e] : e \in group(i)}
           S(i) == {AuthorSearch(pi) : pi \in names(i)}
<1>1. r.at = "next" /\ r.calls = <<>> /\ UNCHANGED <<stored, topic, history>>
  BY DEF NextGroup
<1>2. Sound(r) /\ r.cap \in caps_used
  BY <1>1, OfRequest DEF Fetching
<1>3. /\ r.located \subseteq Entities /\ Grouped(r)
      /\ \A m \in MatchRows : r.rows[m] # 0 => Backed(m)
  BY <1>1, <1>2 DEF Sound, Shape, Fetching
<1>4. \A m \in MatchRows : rows[m] # 0 => Backed(m)
  <2>1. ASSUME NEW m \in MatchRows, stamped(m) # 0 PROVE Backed(m)
    <3>1. m.entity \in r.at_work /\ {f \in r.found : f[2] = m.author} # {}
      BY <2>1, FS_EmptySet
    <3>2. PICK f \in r.found : f[2] = m.author
      BY <3>1
    <3>3. PICK g \in r.at_work : f[1] \in PIsOf[g] /\ f[2] \in AuthorsOf[f[1]]
      BY <1>3 DEF Grouped
    <3>4. g \in Entities /\ InstitutionOf[g] = InstitutionOf[m.entity]
      BY <1>3, <3>1, <3>3 DEF Grouped
    <3>5. QED
      BY <3>2, <3>3, <3>4 DEF Backed
  <2>2. ASSUME NEW m \in MatchRows, rows[m] # 0 PROVE r.rows[m] # 0 \/ stamped(m) # 0
    <3>1. rows[m] = r.rows[m] + stamped(m)
      OBVIOUS
    <3> HIDE DEF rows, stamped, r
    <3>2. QED
      BY <2>2, <3>1
  <2> HIDE DEF rows, stamped, r
  <2>3. QED
    BY <1>3, <2>1, <2>2
<1>5. rest \subseteq Entities
  BY <1>3
<1>6. \/ Become(k, last)
      \/ \E i \in {InstitutionOf[e] : e \in rest} :
           Become(k, [after EXCEPT !.at_work = group(i), !.calls = SetToSeq(S(i))])
  <2>1. CASE rest = {}
    BY <2>1 DEF NextGroup
  <2>2. CASE rest # {}
    BY <2>2 DEF NextGroup
  <2>3. QED
    BY <2>1, <2>2
<1> HIDE DEF rows, rest, r
<1>7. /\ after.at = r.at /\ after.calls = r.calls /\ after.cap = r.cap
      /\ after.at_work = {} /\ after.found = {} /\ Sound(after)
  <2>1. /\ Shape(after) /\ after.at = r.at /\ after.calls = r.calls /\ after.cap = r.cap
        /\ after.at_work = {} /\ after.found = {} /\ after.rows = rows
        /\ after.loaded = r.loaded /\ after.embedded = r.embedded /\ after.flags = r.flags
        /\ after.corpora = r.corpora
    BY <1>2, <1>5 DEF Sound, Shape
  <2>2. \A call \in ToSet(after.calls) : FALSE
    BY <1>1, <2>1 DEF ToSet
  <2> HIDE DEF after
  <2>3. QED
    BY <1>1, <1>2, <1>4, <2>1, <2>2 DEF Sound, Grouped, Fetching
<1> HIDE DEF after
<1>8. CASE Become(k, last)
  <2>1. Sound(last) /\ last.at \notin Fetching
    BY <1>1, <1>7 DEF Sound, Shape, Fetching
  <2> HIDE DEF last
  <2>2. QED
    BY <1>1, <1>8, <2>1, QuietStep
<1>9. ASSUME NEW i,
             Become(k, [after EXCEPT !.at_work = group(i), !.calls = SetToSeq(S(i))])
      PROVE  Inv'
  <2> DEFINE G == group(i)
             T == S(i)
             calls == SetToSeq(T)
             q == [after EXCEPT !.at_work = G, !.calls = calls]
  <2>1. G \subseteq Entities /\ \A e, f \in G : InstitutionOf[e] = InstitutionOf[f]
    BY <1>5
  <2>2. names(i) \subseteq PIs
    BY <2>1, Inputs
  <2>3. \A c \in T : \E f \in G : c.of \in PIsOf[f]
    BY DEF AuthorSearch
  <2>4. calls \in Seq(Calls) /\ ToSet(calls) = T
    <3>1. IsFiniteSet(names(i))
      BY <2>2, Inputs, FS_Subset
    <3>2. [pi \in names(i) |-> AuthorSearch(pi)] \in Surjection(names(i), T)
      BY DEF Surjection
    <3>3. T \subseteq Calls
      BY <2>2 DEF AuthorSearch, Calls
    <3> HIDE DEF T, names
    <3>4. IsFiniteSet(T)
      BY <3>1, <3>2, FS_Surjection
    <3>5. SetToSeq(T) \in Seq(T) /\ ToSet(SetToSeq(T)) = T
      BY <3>4, SetAsSequence
    <3>6. QED
      BY <3>3, <3>5
  <2>5. Become(k, q)
    BY <1>9
  <2> HIDE DEF G, T, calls
  <2>6. Sound(q) /\ q.cap = r.cap
    BY <1>1, <1>7, <2>1, <2>3, <2>4 DEF Sound, Shape, Grouped, Fetching
  <2> HIDE DEF q
  <2>7. QED
    BY <1>1, <1>2, <2>5, <2>6, QuietStep
<1>10. QED
  BY <1>6, <1>8, <1>9

\* The matches of an earlier survey go, those of this one are added.
LEMMA MatchesKeep ==
  ASSUME Inv, NEW k \in Workers, DeleteMatches(k) \/ InsertMatches(k) PROVE Inv'
<1> DEFINE r == worker[k]
           label == IF r.at = "delete_matches" THEN "insert_matches" ELSE "write_manifest"
           q == [r EXCEPT !.at = label]
<1>1. /\ r.at \in {"delete_matches", "insert_matches"} /\ Become(k, q)
      /\ \/ matches' = NoMatches
         \/ matches' = [m \in MatchRows |-> matches[m] + r.rows[m]]
      /\ UNCHANGED <<works, bib_manifest, topic, history>>
  BY DEF DeleteMatches, InsertMatches, MoveTo
<1>2. Sound(r)
  BY OfRequest
<1>3. label \in {"insert_matches", "write_manifest"}
  OBVIOUS
<1>4. works' = works /\ papers' = papers /\ flags' = flags /\ caps_used' = caps_used
  BY <1>1 DEF topic, history
<1> HIDE DEF label
<1>5. Stored'
  <2>1. \A m \in MatchRows : r.rows[m] # 0 => Backed(m)
    BY <1>2 DEF Sound
  <2> HIDE DEF r
  <2>2. ASSUME NEW m \in MatchRows, matches'[m] # 0 PROVE Backed(m)
    <3>1. CASE matches' = NoMatches
      BY <2>2, <3>1 DEF NoMatches
    <3>2. CASE matches'[m] = matches[m] + r.rows[m]
      <4>1. matches[m] # 0 \/ r.rows[m] # 0
        BY <2>2, <3>2
      <4>2. QED
        BY <2>1, <4>1 DEF Inv, Stored
    <3>3. QED
      BY <1>1, <3>1, <3>2
  <2>3. WorksAreWhole' /\ DOMAIN works' \subseteq Authors
    BY <1>4 DEF Inv, Stored, WorksAreWhole
  <2>4. QED
    BY <1>4, <2>2, <2>3 DEF Inv, Stored
<1> HIDE DEF r
<1>6. Sound(q) /\ q.at \notin Fetching
  BY <1>2, <1>3 DEF Sound, Shape, Fetching
<1> HIDE DEF q
<1>7. QED
  BY <1>1, <1>4, <1>5, <1>6, OneStep DEF Inv

\* The cap is recorded, and the survey is over.
LEMMA WriteManifestKeeps == ASSUME Inv, NEW k \in Workers, WriteManifest(k) PROVE Inv'
<1>1. /\ Become(k, Idle)
      /\ works' = works /\ matches' = matches /\ papers' = papers /\ flags' = flags
      /\ caps_used' = caps_used
  BY DEF WriteManifest, End, topic
<1>2. WorksAreWhole' /\ DOMAIN works' \subseteq Authors
  BY <1>1 DEF Inv, Stored, WorksAreWhole
<1>3. Stored'
  BY <1>1, <1>2 DEF Inv, Stored
<1>4. QED
  BY <1>1, <1>3, IdleIsSound, OneStep DEF Inv, Fetching

\* The topic stage goes by the matches it found stored.
LEMMA EnrichTopicSimilarityKeeps ==
  ASSUME Inv, NEW k \in Workers, EnrichTopicSimilarity(k) PROVE Inv'
<1> DEFINE todo == SetToSeq({m.entity : m \in {n \in MatchRows : matches[n] > 0}})
           before == [r \in PaperRows |-> PapersOf(r.match.entity, matches)[r]]
           q == [Idle EXCEPT !.at = "embed", !.loaded = matches, !.todo = todo,
                             !.before = before]
<1>1. Begin(k, q) /\ UNCHANGED <<stored, topic, history>>
  BY DEF EnrichTopicSimilarity
<1>2. Stored' /\ caps_used' = caps_used
  <2>1. caps_used' = caps_used /\ caps_used \subseteq Caps /\ Stored
    BY <1>1 DEF Inv, Stored, history
  <2>2. QED
    BY <1>1, <2>1, TablesStay
<1> HIDE DEF todo, before
<1>3. Shape(q) /\ q.at = "embed"
  BY IdleIsSound DEF Sound, Shape, Idle
<1>4. /\ q.calls = Idle.calls /\ q.rows = Idle.rows /\ q.embedded = Idle.embedded
      /\ q.loaded = matches /\ q.flags = Idle.flags
  BY DEF Idle
<1>5. Sound(q)
  <2> HIDE DEF q
  <2>1. QED
    BY <1>3, <1>4, IdleIsSound DEF Sound, Fetching, Inv, Stored
<1> HIDE DEF q
<1>6. QED
  BY <1>1, <1>2, <1>3, <1>5, BeginKeeps DEF Fetching

\* The papers of one entity, of authors it is matched to.
LEMMA EmbedPapersKeeps == ASSUME Inv, NEW k \in Workers, EmbedPapers(k) PROVE Inv'
<1> DEFINE r == worker[k]
           e == Head(r.todo)
           rest == Tail(r.todo)
           embedded == PapersOf(e, r.loaded)
           q == [r EXCEPT !.at = "delete_papers", !.at_work = {e}, !.todo = rest,
                          !.embedded = embedded]
<1>1. r.at = "embed" /\ Become(k, q) /\ UNCHANGED <<stored, topic, history>>
  BY DEF EmbedPapers
<1>2. Sound(r)
  BY OfRequest
<1>3. ASSUME NEW p \in PaperRows, embedded[p] # 0 PROVE OfAuthor(p)
  <2>1. p.work \in StoredPapers(p.match.author) /\ r.loaded[p.match] # 0
    BY <1>3 DEF PapersOf
  <2>2. p.match \in MatchRows /\ p.match.author \in Authors
    BY DEF PaperRows, MatchRows
  <2>3. Backed(p.match)
    BY <1>2, <2>1, <2>2 DEF Sound
  <2>4. p.work \in HasAbstract \intersect ToSet(WorksOf[p.match.author])
    BY <2>1, <2>2, StoredAreOfAuthor DEF Inv
  <2>5. QED
    BY <2>3, <2>4 DEF OfAuthor
<1> HIDE DEF r, e, rest, embedded
<1>4. Sound(q) /\ q.at \notin Fetching
  BY <1>2, <1>3 DEF Sound, Shape, Fetching
<1> HIDE DEF q
<1>5. QED
  BY <1>1, <1>4, QuietStep DEF r

\* The paper rows of one entity are replaced in two steps.
LEMMA PapersKeep ==
  ASSUME Inv, NEW k \in Workers, DeletePapers(k) \/ InsertPapers(k) PROVE Inv'
<1> DEFINE r == worker[k]
           inserting == [r EXCEPT !.at = "insert_papers"]
           ranking == [r EXCEPT !.at = "rank", !.corpora = Corpora]
<1>1. /\ Become(k, inserting) \/ Become(k, ranking)
      /\ \/ papers' = [p \in PaperRows |-> IF p.match.entity \in r.at_work THEN 0 ELSE papers[p]]
         \/ papers' = [p \in PaperRows |-> papers[p] + r.embedded[p]]
      /\ UNCHANGED <<stored, flags, topic_manifest, history>>
  BY DEF DeletePapers, InsertPapers, MoveTo
<1>2. Sound(r)
  BY OfRequest
<1>3. works' = works /\ matches' = matches /\ flags' = flags /\ caps_used' = caps_used
  BY <1>1 DEF stored, history
<1>4. Stored'
  <2>1. \A p \in PaperRows : r.embedded[p] # 0 => OfAuthor(p)
    BY <1>2 DEF Sound
  <2> HIDE DEF r
  <2>2. ASSUME NEW p \in PaperRows, papers'[p] # 0 PROVE OfAuthor(p)
    <3>1. papers[p] # 0 \/ r.embedded[p] # 0
      BY <1>1, <2>2
    <3>2. QED
      BY <2>1, <3>1 DEF Inv, Stored
  <2>3. WorksAreWhole' /\ DOMAIN works' \subseteq Authors
    BY <1>3 DEF Inv, Stored, WorksAreWhole
  <2>4. QED
    BY <1>3, <2>2, <2>3 DEF Inv, Stored
<1> HIDE DEF r
<1>5. Sound(inserting) /\ inserting.at \notin Fetching
  BY <1>2 DEF Sound, Shape, Fetching
<1>6. Sound(ranking) /\ ranking.at \notin Fetching
  BY <1>2, Inputs DEF Sound, Shape, Fetching
<1> HIDE DEF inserting, ranking
<1>7. QED
  BY <1>1, <1>3, <1>4, <1>5, <1>6, OneStep DEF Inv

\* A paper that leads by the margin, of a row of the entity, earns its flag.
LEMMA LeaderEarns ==
  ASSUME Inv, NEW e, NEW w \in Works, NEW c \in ToSet(Corpora),
         RowsOfPaper(papers, e, w) # {}, RankedLead(c, e, w) >= Margin
  PROVE  <<e, w, c>> \in FlagRows /\ Earned(<<e, w, c>>)
<1>1. PICK p \in PaperRows : p.match.entity = e /\ p.work = w /\ papers[p] > 0
  BY DEF RowsOfPaper
<1>2. p.match \in MatchRows /\ p.match.entity \in Entities /\ p.match.author \in Authors
  BY DEF PaperRows, MatchRows
<1>3. OfAuthor(p)
  BY <1>1 DEF Inv, Stored
<1>4. PICK f \in Entities : /\ InstitutionOf[f] = InstitutionOf[e]
                            /\ \E pi \in PIsOf[f] : p.match.author \in AuthorsOf[pi]
  BY <1>1, <1>3 DEF OfAuthor, Backed
<1>5. w \in HasAbstract \intersect PapersBehind(e)
  <2>1. w \in HasAbstract \intersect ToSet(WorksOf[p.match.author])
    BY <1>1, <1>3 DEF OfAuthor
  <2>2. QED
    BY <1>4, <2>1 DEF PapersBehind
<1>6. Lead[c][w] >= Margin
  <2>1. Lead[c][w] \in Nat /\ Margin \in Nat
    BY Inputs
  <2>2. RankedLead(c, e, w) \in {Lead[c][w], 0}
    BY DEF RankedLead
  <2>3. QED
    BY <2>1, <2>2
<1>7. QED
  BY <1>1, <1>2, <1>5, <1>6 DEF FlagRows, Earned

\* One corpus is ranked.
LEMMA RankKeeps == ASSUME Inv, NEW k \in Workers, Rank(k) PROVE Inv'
<1> DEFINE r == worker[k]
           c == Head(r.corpora)
           left == Tail(r.corpora)
           leaders(e) == {w \in Works : /\ RowsOfPaper(papers, e, w) # {}
                                        /\ RankedLead(c, e, w) >= Margin}
           earned == UNION {{<<e, w, c>> : w \in leaders(e)} : e \in r.at_work}
           new == r.flags \union earned
           label == IF left # <<>> THEN "rank"
                    ELSE IF r.todo # <<>> THEN "embed" ELSE "delete_flags"
           q == [r EXCEPT !.flags = new, !.corpora = left, !.at = label]
<1>1. r.at = "rank" /\ Become(k, q) /\ UNCHANGED <<stored, topic, history>>
  BY DEF Rank
<1>2. Sound(r)
  BY OfRequest
<1>3. r.corpora \in Seq(ToSet(Corpora)) /\ r.corpora # <<>> /\ r.flags \subseteq FlagRows
  BY <1>1, <1>2 DEF Sound, Shape
<1>4. c \in ToSet(Corpora) /\ left \in Seq(ToSet(Corpora))
  BY <1>3, RestOfSequence
<1>5. \A t \in earned : t \in FlagRows /\ Earned(t)
  <2>1. ASSUME NEW t \in earned PROVE t \in FlagRows /\ Earned(t)
    <3>1. PICK e \in r.at_work : t \in {<<e, w, c>> : w \in leaders(e)}
      OBVIOUS
    <3>2. PICK w \in leaders(e) : t = <<e, w, c>>
      BY <3>1
    <3> HIDE DEF c
    <3>3. w \in Works /\ RowsOfPaper(papers, e, w) # {} /\ RankedLead(c, e, w) >= Margin
      OBVIOUS
    <3>4. QED
      BY <1>4, <3>2, <3>3, LeaderEarns
  <2>2. QED
    BY <2>1
<1>6. /\ label \in {"rank", "embed", "delete_flags"}
      /\ label = "rank" => left # <<>>
  OBVIOUS
<1> HIDE DEF earned, left, label, r
<1>7. new \subseteq FlagRows /\ \A t \in new : Earned(t)
  BY <1>2, <1>3, <1>5 DEF Sound
<1> HIDE DEF new
<1>8. Sound(q) /\ q.at \notin Fetching
  BY <1>2, <1>4, <1>6, <1>7 DEF Sound, Shape, Fetching
<1> HIDE DEF q
<1>9. QED
  BY <1>1, <1>8, QuietStep DEF r

\* The flags of an earlier stage go, those of this one are added.
LEMMA FlagsKeep ==
  ASSUME Inv, NEW k \in Workers, DeleteFlags(k) \/ InsertFlags(k) PROVE Inv'
<1> DEFINE r == worker[k]
           inserting == [r EXCEPT !.at = "insert_flags"]
           writing == [r EXCEPT !.at = "write_topic_manifest"]
<1>1. /\ Become(k, inserting) \/ Become(k, writing)
      /\ \/ flags' = [t \in FlagRows |-> 0]
         \/ flags' = [t \in FlagRows |-> IF t \in r.flags THEN flags[t] + 1 ELSE flags[t]]
      /\ UNCHANGED <<stored, papers, caps_used>>
  BY DEF DeleteFlags, InsertFlags, MoveTo, history
<1>2. Sound(r)
  BY OfRequest
<1>3. works' = works /\ matches' = matches /\ papers' = papers /\ caps_used' = caps_used
  BY <1>1 DEF stored
<1>4. Stored'
  <2>1. \A t \in r.flags : Earned(t)
    BY <1>2 DEF Sound
  <2> HIDE DEF r
  <2>2. ASSUME NEW t \in FlagRows, flags'[t] # 0 PROVE Earned(t)
    <3>1. flags[t] # 0 \/ t \in r.flags
      BY <1>1, <2>2
    <3>2. QED
      BY <2>1, <3>1 DEF Inv, Stored
  <2>3. WorksAreWhole' /\ DOMAIN works' \subseteq Authors
    BY <1>3 DEF Inv, Stored, WorksAreWhole
  <2>4. QED
    BY <1>3, <2>2, <2>3 DEF Inv, Stored
<1> HIDE DEF r
<1>5. Sound(inserting) /\ inserting.at \notin Fetching
  BY <1>2 DEF Sound, Shape, Fetching
<1>6. Sound(writing) /\ writing.at \notin Fetching
  BY <1>2 DEF Sound, Shape, Fetching
<1> HIDE DEF inserting, writing
<1>7. QED
  BY <1>1, <1>3, <1>4, <1>5, <1>6, OneStep DEF Inv

\* The count is recorded, and the stage is over.
LEMMA WriteTopicManifestKeeps ==
  ASSUME Inv, NEW k \in Workers, WriteTopicManifest(k) PROVE Inv'
<1>1. /\ Become(k, Idle)
      /\ works' = works /\ matches' = matches /\ papers' = papers /\ flags' = flags
      /\ caps_used' = caps_used
  BY DEF WriteTopicManifest, End, stored, history
<1>2. WorksAreWhole' /\ DOMAIN works' \subseteq Authors
  BY <1>1 DEF Inv, Stored, WorksAreWhole
<1>3. Stored'
  BY <1>1, <1>2 DEF Inv, Stored
<1>4. QED
  BY <1>1, <1>3, IdleIsSound, OneStep DEF Inv, Fetching

\* The process dies: no request holds anything.
LEMMA CrashKeeps == ASSUME Inv, Crash PROVE Inv'
<1>1. worker' = [k \in Workers |-> Idle] /\ UNCHANGED <<stored, topic, history>>
  BY DEF Crash
<1>2. Stored'
  <2>1. caps_used' = caps_used /\ caps_used \subseteq Caps /\ Stored
    BY <1>1 DEF Inv, Stored, history
  <2>2. QED
    BY <1>1, <2>1, TablesStay
<1>3. QED
  BY <1>1, <1>2, IdleIsSound DEF Inv, Requests, Fetching

\* It dies amid an insert: some of the rows are stored.
LEMMA CrashAmidInsertKeeps ==
  ASSUME Inv, NEW k \in Workers, CrashAmidInsert(k) PROVE Inv'
<1> DEFINE r == worker[k]
           matching == {m \in MatchRows : r.rows[m] > 0}
           embedding == {p \in PaperRows : r.embedded[p] > 0}
<1>1. worker' = [j \in Workers |-> Idle] /\ works' = works /\ caps_used' = caps_used
  BY DEF CrashAmidInsert, history
<1>2. Sound(r)
  BY OfRequest
<1>3. IsFiniteSet(matching) /\ IsFiniteSet(embedding) /\ IsFiniteSet(r.flags)
  <2>1. matching \subseteq MatchRows /\ embedding \subseteq PaperRows /\ r.flags \subseteq FlagRows
    BY <1>2 DEF Sound, Shape
  <2> HIDE DEF matching, embedding
  <2>2. QED
    BY <2>1, RowsAreFinite, FS_Subset
<1>4. \A m \in MatchRows : matches'[m] # 0 => Backed(m)
  <2>1. CASE matches' = matches
    BY <2>1 DEF Inv, Stored
  <2>2. ASSUME NEW M \in FirstOf(matching),
               matches' = [m \in MatchRows |-> IF m \in M THEN matches[m] + 1 ELSE matches[m]]
        PROVE  \A m \in MatchRows : matches'[m] # 0 => Backed(m)
    <3>1. M \subseteq matching
      <4> HIDE DEF matching
      <4>1. QED
        BY <1>3, FirstAreSome
    <3>2. \A m \in M : Backed(m)
      BY <1>2, <3>1 DEF Sound
    <3>3. QED
      BY <2>2, <3>2 DEF Inv, Stored
  <2>3. QED
    BY <2>1, <2>2 DEF CrashAmidInsert
<1>5. \A p \in PaperRows : papers'[p] # 0 => OfAuthor(p)
  <2>1. CASE papers' = papers
    BY <2>1 DEF Inv, Stored
  <2>2. ASSUME NEW R \in FirstOf(embedding),
               papers' = [p \in PaperRows |-> IF p \in R THEN papers[p] + 1 ELSE papers[p]]
        PROVE  \A p \in PaperRows : papers'[p] # 0 => OfAuthor(p)
    <3>1. R \subseteq embedding
      <4> HIDE DEF embedding
      <4>1. QED
        BY <1>3, FirstAreSome
    <3>2. \A p \in R : OfAuthor(p)
      BY <1>2, <3>1 DEF Sound
    <3>3. QED
      BY <2>2, <3>2 DEF Inv, Stored
  <2>3. QED
    BY <2>1, <2>2 DEF CrashAmidInsert
<1>6. \A t \in FlagRows : flags'[t] # 0 => Earned(t)
  <2>1. CASE flags' = flags
    BY <2>1 DEF Inv, Stored
  <2>2. ASSUME NEW F \in FirstOf(r.flags),
               flags' = [t \in FlagRows |-> IF t \in F THEN flags[t] + 1 ELSE flags[t]]
        PROVE  \A t \in FlagRows : flags'[t] # 0 => Earned(t)
    <3>1. F \subseteq r.flags
      BY <1>3, FirstAreSome
    <3>2. \A t \in F : Earned(t)
      BY <1>2, <3>1 DEF Sound
    <3>3. QED
      BY <2>2, <3>2 DEF Inv, Stored
  <2>3. QED
    BY <2>1, <2>2 DEF CrashAmidInsert
<1>7. WorksAreWhole' /\ DOMAIN works' \subseteq Authors
  BY <1>1 DEF Inv, Stored, WorksAreWhole
<1>8. Stored'
  BY <1>1, <1>4, <1>5, <1>6, <1>7 DEF Inv, Stored
<1>9. QED
  BY <1>1, <1>8, IdleIsSound DEF Inv, Requests, Fetching

-----------------------------------------------------------------------------
\* It holds of the empty tables, with nobody at work.
LEMMA InitSound == ASSUME Init PROVE Inv
<1>1. Requests
  BY IdleIsSound DEF Init, Requests, Fetching
<1>2. DOMAIN works = {} /\ WorksAreWhole
  BY DEF Init, WorksAreWhole
<1>3. Stored
  BY <1>2 DEF Init, Stored, NoMatches, NoPapers
<1>4. QED
  BY <1>1, <1>3 DEF Inv

\* Every step of anyone keeps it.
LEMMA StepKeeps == ASSUME Inv, [Next]_vars PROVE Inv'
<1>1. CASE UNCHANGED vars
  BY <1>1 DEF vars, stored, topic, history, bounds, Inv, Stored, Requests, WorksAreWhole
<1>2. CASE \E k \in Workers, cap \in Caps : EnrichBibliometric(k, cap)
  BY <1>2, EnrichBibliometricKeeps
<1>3. CASE \E k \in Workers : EnrichTopicSimilarity(k)
  BY <1>3, EnrichTopicSimilarityKeeps
<1>4. ASSUME NEW k \in Workers, Step(k) PROVE Inv'
  BY <1>4, NextCallKeeps, RetryKeeps, AnsweredKeeps, DeleteWorksKeeps, InsertWorksKeeps,
     NextGroupKeeps, MatchesKeep, WriteManifestKeeps, EmbedPapersKeeps, PapersKeep,
     RankKeeps, FlagsKeep, WriteTopicManifestKeeps DEF Step
<1>5. CASE Crash
  BY <1>5, CrashKeeps
<1>6. CASE \E k \in Workers : CrashAmidInsert(k)
  BY <1>6, CrashAmidInsertKeeps
<1>7. QED
  BY <1>1, <1>2, <1>3, <1>4, <1>5, <1>6 DEF Next

\* What requests hold and what is stored stays sound, whatever they overlap
\* with and wherever the process dies (pipeline.py, storage.py).
THEOREM AlwaysSound == Spec => []Inv
<1>1. QED
  BY InitSound, StepKeeps, PTL DEF Spec

\* What is stored of an author is all there is up to a cap some enrichment
\* asked for, for any number of pages, retries, overlapping enrichments and
\* crashes (get_author_works, store_openalex_works).
THEOREM WorksAreAlwaysWhole == Spec => []WorksAreWhole
<1>1. Inv => WorksAreWhole
  BY DEF Inv, Stored
<1>2. QED
  BY <1>1, AlwaysSound, PTL

\* No paper is flagged that is not of an investigator of the entity, has no
\* abstract or does not lead by the margin (_rank_against_corpus), though its
\* rows are replaced in steps others interleave with.
THEOREM FlagsAreAlwaysEarned == Spec => []FlagsAreEarned
<1>1. ASSUME Inv PROVE FlagsAreEarned
  <2>1. SUFFICES ASSUME NEW e \in Entities, NEW w \in Works, NEW c \in ToSet(Corpora),
                        flags[<<e, w, c>>] > 0
                 PROVE  Lead[c][w] >= Margin /\ w \in HasAbstract \intersect PapersBehind(e)
    BY DEF FlagsAreEarned
  <2>2. <<e, w, c>> \in FlagRows
    BY DEF FlagRows
  <2>3. Earned(<<e, w, c>>)
    BY <1>1, <2>1, <2>2 DEF Inv, Stored
  <2>4. QED
    BY <2>3 DEF Earned
<1>2. QED
  BY <1>1, AlwaysSound, PTL

-----------------------------------------------------------------------------
\* A stage that is at embed has an entity to embed for, and one that found
\* matches has one at all.
EntityLeft(r) == r.at = "embed" => r.todo # <<>>

TypeInv == BibliometricsTypeOK /\ \A k \in Workers : EntityLeft(worker[k])

\* A request that nobody overlapped is the only one at work.
Solo ==
  \A k \in Workers : worker[k].alone =>
    /\ worker[k].at # "idle"
    /\ \A j \in Workers \ {k} : worker[j].at = "idle"

\* The points of a survey, and those of a topic stage.
Surveying == Fetching \union {"delete_matches", "insert_matches", "write_manifest"}
Ranking == {"embed", "delete_papers", "insert_papers", "rank", "delete_flags",
            "insert_flags", "write_topic_manifest"}

\* The name of an investigator of an entity OpenAlex knows, and an author it
\* resolves to.
Leading(f, pi, a) == InstitutionOf[f] # NoInstitution /\ pi \in PIsOf[f] /\ a \in AuthorsOf[pi]
ReachedAuthors == {a \in Authors : \E f \in Entities : \E pi \in PIsOf[f] : Leading(f, pi, a)}

\* A survey handles entities OpenAlex knows, and the authors they lead to.
OnTrack(r) ==
  /\ \A f \in r.located : InstitutionOf[f] # NoInstitution
  /\ r.at \in Fetching => \A f \in r.at_work : InstitutionOf[f] # NoInstitution
  /\ r.at \in Fetching => \A call \in ToSet(r.calls) :
       /\ call.kind = "works" => call.of \in ReachedAuthors
       /\ call.kind = "institution" => r.at_work = {}
  /\ \A m \in MatchRows : r.rows[m] # 0 => m.author \in ReachedAuthors
  /\ r.at \in Surveying \ Fetching => r.calls = <<>> /\ r.located = {}
  /\ r.at \in Surveying => r.cap \in caps_used

\* What a survey has still to do before the works of an author are stored.
AheadOf(r, f, pi, a) ==
  \/ Institution(f) \in ToSet(r.calls)
  \/ f \in r.located \ r.at_work
  \/ AuthorSearch(pi) \in ToSet(r.calls)
  \/ AuthorWorks(a) \in ToSet(r.calls)

\* A survey nobody overlaps misses no author.
MissesNone(r) ==
  r.alone /\ r.at \in Surveying =>
    \A f \in Entities : \A pi \in PIsOf[f] : \A a \in AuthorsOf[pi] :
      Leading(f, pi, a) => a \in DOMAIN works \/ AheadOf(r, f, pi, a)

\* A request is past asking whether the works of the author are stored.
Refetching(r) ==
  \/ r.at \in {"delete_works", "insert_works"}
  \/ r.at = "get" /\ Head(r.calls).kind = "works"

\* The authors the survey of the manifest reached stay stored.
Surveyed ==
  /\ IsFiniteSet(caps_used)
  /\ \A m \in MatchRows : matches[m] # 0 => m.author \in ReachedAuthors
  /\ bib_manifest.written => bib_manifest.number \in caps_used
  /\ bib_manifest.written /\ surveyed_alone =>
       /\ ReachedAuthors \subseteq DOMAIN works
       /\ \A k \in Workers : ~ Refetching(worker[k])

SurveyInv == Solo /\ Surveyed /\ \A k \in Workers : OnTrack(worker[k]) /\ MissesNone(worker[k])

\* The ranking of a paper against a corpus is over for an entity.
Settled(r, e, c) ==
  /\ e \notin ToSet(r.todo)
  /\ e \in r.at_work => /\ r.at \notin {"delete_papers", "insert_papers"}
                        /\ r.at = "rank" => c \notin ToSet(r.corpora)

\* Whether a paper is to be flagged, of the papers a stage found.
Best(rows, e, w, c) == RowsOfPaper(rows, e, w) # {} /\ Lead[c][w] >= Margin
Unshared(rows, e, w) == OneRow(rows, e, w) \/ RowsOfPaper(rows, e, w) = {}

\* The papers a topic stage found when it began are those stored of the entity
\* in hand, once its rows are replaced.
PapersInHand(r) ==
  /\ \A p \in PaperRows : r.before[p] = PapersOf(p.match.entity, r.loaded)[p]
  /\ r.at \in {"delete_papers", "insert_papers"} => \A p \in PaperRows :
       r.embedded[p] = IF p.match.entity \in r.at_work THEN r.before[p] ELSE 0
  /\ r.at = "insert_papers" => \A p \in PaperRows :
       p.match.entity \in r.at_work => papers[p] = 0
  /\ r.at = "rank" => \A p \in PaperRows :
       p.match.entity \in r.at_work => papers[p] = r.before[p]
  /\ r.at = "insert_flags" => \A t \in FlagRows : flags[t] = 0

\* The flags it has in hand are those the papers give, of what it ranked.
FlagsInHand(r) ==
  /\ r.at \in {"delete_flags", "insert_flags", "write_topic_manifest"} => r.todo = <<>>
  /\ \A e \in Entities, w \in Works, c \in ToSet(Corpora) : Unshared(r.before, e, w) =>
       /\ <<e, w, c>> \in r.flags => Best(r.before, e, w, c)
       /\ Settled(r, e, c) /\ Best(r.before, e, w, c) => <<e, w, c>> \in r.flags

\* So it is while nobody overlaps the stage.
GoesByThePapers(r) == r.alone /\ r.at \in Ranking => PapersInHand(r) /\ FlagsInHand(r)

TopicInv ==
  /\ Solo /\ FlagsFollowTheMargin
  /\ \A k \in Workers : /\ GoesByThePapers(worker[k])
                        /\ worker[k].at = "insert_flags" => ~ flagged.alone

-----------------------------------------------------------------------------
(* Types *)

\* A request that holds nothing.
LEMMA IdleIsTyped == Idle \in WorkerRecords /\ EntityLeft(Idle)
<1>1. <<>> \in Seq(Calls) /\ <<>> \in Seq(Entities) /\ <<>> \in Seq(ToSet(Corpora))
  OBVIOUS
<1>2. {} \in SUBSET Entities /\ {} \in SUBSET FlagRows /\ {} \in SUBSET (PIs \X Authors)
  OBVIOUS
<1>3. NoMatches \in [MatchRows -> Nat] /\ NoPapers \in [PaperRows -> Nat]
  BY DEF NoMatches, NoPapers
<1> HIDE DEF NoMatches, NoPapers
<1>4. Idle \in WorkerRecords
  BY <1>1, <1>2, <1>3 DEF Idle, WorkerRecords
<1>5. Idle.at = "idle"
  BY DEF Idle
<1>6. QED
  BY <1>4, <1>5 DEF EntityLeft

\* What is known of a request before its step.
LEMMA OfTypedRequest ==
  ASSUME Inv, TypeInv, NEW k \in Workers
  PROVE  worker[k] \in WorkerRecords /\ EntityLeft(worker[k]) /\ Sound(worker[k])
BY OfRequest DEF TypeInv, BibliometricsTypeOK

\* The step of one request, whatever it stores.
LEMMA TypedStep ==
  ASSUME TypeInv, NEW k \in Workers, NEW q \in WorkerRecords, EntityLeft(q), Become(k, q),
         DOMAIN works' \subseteq Authors, \A a \in DOMAIN works' : works'[a] \in Nat,
         matches' \in [MatchRows -> Nat],
         bib_manifest' \in [written : BOOLEAN, number : Nat],
         topic_manifest' \in [written : BOOLEAN, number : Nat],
         papers' \in [PaperRows -> Nat], flags' \in [FlagRows -> Nat],
         caps_used' \subseteq Caps, surveyed_alone' \in BOOLEAN,
         flagged' \in [papers : [PaperRows -> Nat], alone : BOOLEAN]
  PROVE  TypeInv'
<1>1. worker' \in [Workers -> WorkerRecords] /\ \A j \in Workers : EntityLeft(worker'[j])
  BY DEF TypeInv, BibliometricsTypeOK, Become
<1>2. stages' \in Nat /\ crashes' \in Nat
  BY DEF TypeInv, BibliometricsTypeOK, Become, bounds
<1>3. {bib_manifest', topic_manifest'} \subseteq [written : BOOLEAN, number : Nat]
  OBVIOUS
<1>4. BibliometricsTypeOK'
  BY <1>1, <1>2, <1>3 DEF BibliometricsTypeOK
<1>5. QED
  BY <1>1, <1>4 DEF TypeInv

\* What the tables hold before a step.
LEMMA TypedTables ==
  ASSUME TypeInv
  PROVE  /\ DOMAIN works \subseteq Authors /\ \A a \in DOMAIN works : works[a] \in Nat
         /\ matches \in [MatchRows -> Nat]
         /\ bib_manifest \in [written : BOOLEAN, number : Nat]
         /\ topic_manifest \in [written : BOOLEAN, number : Nat]
         /\ papers \in [PaperRows -> Nat] /\ flags \in [FlagRows -> Nat]
         /\ caps_used \subseteq Caps /\ surveyed_alone \in BOOLEAN
         /\ flagged \in [papers : [PaperRows -> Nat], alone : BOOLEAN]
BY DEF TypeInv, BibliometricsTypeOK

\* The step of one request that stores nothing.
LEMMA QuietTypedStep ==
  ASSUME TypeInv, NEW k \in Workers, NEW q \in WorkerRecords, EntityLeft(q), Become(k, q),
         UNCHANGED <<stored, topic, history>>
  PROVE  TypeInv'
<1>1. /\ works' = works /\ matches' = matches /\ bib_manifest' = bib_manifest
      /\ papers' = papers /\ flags' = flags /\ topic_manifest' = topic_manifest
      /\ caps_used' = caps_used /\ surveyed_alone' = surveyed_alone /\ flagged' = flagged
  BY DEF stored, topic, history
<1>2. QED
  BY <1>1, TypedTables, TypedStep

\* A stage starts.
LEMMA BeginIsTyped ==
  ASSUME TypeInv, NEW k \in Workers, NEW q \in WorkerRecords, EntityLeft(q), Begin(k, q),
         UNCHANGED <<stored, topic>>, caps_used' \subseteq Caps,
         surveyed_alone' = surveyed_alone, flagged' = flagged
  PROVE  TypeInv'
<1> DEFINE alone == Others(k) = {}
           fresh == [q EXCEPT !.alone = alone]
           after(j) == IF j = k THEN fresh
                       ELSE IF j \in Others(k) THEN [worker[j] EXCEPT !.alone = FALSE]
                       ELSE worker[j]
<1>1. worker' = [j \in Workers |-> after(j)] /\ stages' \in Nat /\ crashes' \in Nat
  BY DEF Begin, TypeInv, BibliometricsTypeOK
<1>2. alone \in BOOLEAN
  OBVIOUS
<1> HIDE DEF alone
<1>3. ASSUME NEW r \in WorkerRecords, EntityLeft(r), NEW b \in BOOLEAN
      PROVE  [r EXCEPT !.alone = b] \in WorkerRecords /\ EntityLeft([r EXCEPT !.alone = b])
  <2> DEFINE p == [r EXCEPT !.alone = b]
  <2>1. p \in WorkerRecords /\ p.at = r.at /\ p.todo = r.todo
    BY DEF WorkerRecords
  <2> HIDE DEF p
  <2>2. p \in WorkerRecords /\ EntityLeft(p)
    BY <1>3, <2>1 DEF EntityLeft
  <2>3. QED
    BY <2>2 DEF p
<1>4. ASSUME NEW j \in Workers PROVE after(j) \in WorkerRecords /\ EntityLeft(after(j))
  <2>1. worker[j] \in WorkerRecords /\ EntityLeft(worker[j])
    BY DEF TypeInv, BibliometricsTypeOK
  <2>2. fresh \in WorkerRecords /\ EntityLeft(fresh)
    BY <1>2, <1>3
  <2>3. [worker[j] EXCEPT !.alone = FALSE] \in WorkerRecords
        /\ EntityLeft([worker[j] EXCEPT !.alone = FALSE])
    BY <1>3, <2>1
  <2> HIDE DEF fresh
  <2>4. QED
    BY <2>1, <2>2, <2>3
<1> HIDE DEF after
<1>5. worker' \in [Workers -> WorkerRecords] /\ \A j \in Workers : EntityLeft(worker'[j])
  BY <1>1, <1>4
<1>6. /\ works' = works /\ matches' = matches /\ bib_manifest' = bib_manifest
      /\ papers' = papers /\ flags' = flags /\ topic_manifest' = topic_manifest
  BY DEF stored, topic
<1>7. BibliometricsTypeOK'
  BY <1>1, <1>5, <1>6 DEF TypeInv, BibliometricsTypeOK
<1>8. QED
  BY <1>5, <1>7 DEF TypeInv

\* A finite set of calls, as the list in which they are made.
LEMMA CallsInOrder ==
  ASSUME NEW S, IsFiniteSet(S), S \subseteq Calls
  PROVE  SetToSeq(S) \in Seq(Calls) /\ ToSet(SetToSeq(S)) = S
BY SetAsSequence

\* One call for each entity, name, or author.
LEMMA CallsOf ==
  /\ \A E \in SUBSET Entities : /\ IsFiniteSet({Institution(e) : e \in E})
                                /\ {Institution(e) : e \in E} \subseteq Calls
  /\ \A P \in SUBSET PIs : /\ IsFiniteSet({AuthorSearch(pi) : pi \in P})
                           /\ {AuthorSearch(pi) : pi \in P} \subseteq Calls
  /\ \A A \in SUBSET Authors : /\ IsFiniteSet({AuthorWorks(a) : a \in A})
                               /\ {AuthorWorks(a) : a \in A} \subseteq Calls
<1>1. ASSUME NEW E, E \subseteq Entities
      PROVE  /\ IsFiniteSet({Institution(e) : e \in E})
             /\ {Institution(e) : e \in E} \subseteq Calls
  <2> DEFINE T == {Institution(e) : e \in E}
  <2>1. T \subseteq Calls
    BY <1>1 DEF Institution, Calls
  <2>2. IsFiniteSet(E) /\ [e \in E |-> Institution(e)] \in Surjection(E, T)
    BY <1>1, Inputs, FS_Subset DEF Surjection
  <2> HIDE DEF T
  <2>3. IsFiniteSet(T)
    BY <2>2, FS_Surjection
  <2>4. QED
    BY <2>1, <2>3 DEF T
<1>2. ASSUME NEW P, P \subseteq PIs
      PROVE  /\ IsFiniteSet({AuthorSearch(pi) : pi \in P})
             /\ {AuthorSearch(pi) : pi \in P} \subseteq Calls
  <2> DEFINE T == {AuthorSearch(pi) : pi \in P}
  <2>1. T \subseteq Calls
    BY <1>2 DEF AuthorSearch, Calls
  <2>2. IsFiniteSet(P) /\ [pi \in P |-> AuthorSearch(pi)] \in Surjection(P, T)
    BY <1>2, Inputs, FS_Subset DEF Surjection
  <2> HIDE DEF T
  <2>3. IsFiniteSet(T)
    BY <2>2, FS_Surjection
  <2>4. QED
    BY <2>1, <2>3 DEF T
<1>3. ASSUME NEW A, A \subseteq Authors
      PROVE  /\ IsFiniteSet({AuthorWorks(a) : a \in A})
             /\ {AuthorWorks(a) : a \in A} \subseteq Calls
  <2> DEFINE T == {AuthorWorks(a) : a \in A}
  <2>1. T \subseteq Calls
    BY <1>3 DEF AuthorWorks, Calls
  <2>2. IsFiniteSet(A) /\ [a \in A |-> AuthorWorks(a)] \in Surjection(A, T)
    BY <1>3, Inputs, FS_Subset DEF Surjection
  <2> HIDE DEF T
  <2>3. IsFiniteSet(T)
    BY <2>2, FS_Surjection
  <2>4. QED
    BY <2>1, <2>3 DEF T
<1>4. QED
  BY <1>1, <1>2, <1>3

\* A survey starts.
LEMMA EnrichBibliometricIsTyped ==
  ASSUME Inv, TypeInv, NEW k \in Workers, NEW cap \in Caps, EnrichBibliometric(k, cap)
  PROVE  TypeInv'
<1> DEFINE calls == SetToSeq({Institution(e) : e \in Entities})
           q == [Idle EXCEPT !.at = "next", !.cap = cap, !.calls = calls]
<1>1. /\ Begin(k, q) /\ caps_used' = caps_used \union {cap}
      /\ UNCHANGED <<stored, topic, surveyed_alone, flagged>>
  BY DEF EnrichBibliometric
<1>2. calls \in Seq(Calls)
  BY CallsInOrder, CallsOf
<1>3. cap \in Nat
  BY Inputs
<1> HIDE DEF calls
<1>4. q \in WorkerRecords /\ q.at = "next"
  BY <1>2, <1>3, IdleIsTyped DEF WorkerRecords
<1> HIDE DEF q
<1>5. EntityLeft(q)
  BY <1>4 DEF EntityLeft
<1>6. caps_used' \subseteq Caps
  BY <1>1, TypedTables
<1>7. QED
  BY <1>1, <1>4, <1>5, <1>6, BeginIsTyped

\* The steps of a survey up to its answers.
LEMMA AskingIsTyped ==
  ASSUME Inv, TypeInv, NEW k \in Workers, NextCall(k) \/ RetryGet(k) \/ FailGet(k)
  PROVE  TypeInv'
<1> DEFINE r == worker[k]
           rest == Tail(r.calls)
           attempt == r.attempt + 1
           skip == [r EXCEPT !.calls = rest]
           get == [r EXCEPT !.at = "get", !.attempt = 0, !.page = 0]
           again == [r EXCEPT !.attempt = attempt]
<1>1. UNCHANGED <<stored, topic, history>> /\ r.at \in {"next", "get"}
  BY DEF NextCall, RetryGet, FailGet
<1>2. \/ r.calls # <<>> /\ Become(k, skip)
      \/ Become(k, get) \/ Become(k, again) \/ Become(k, Idle)
  BY DEF NextCall, RetryGet, FailGet, End
<1>3. r \in WorkerRecords
  BY OfTypedRequest
<1>4. r.calls \in Seq(Calls) /\ attempt \in Nat /\ (r.calls # <<>> => rest \in Seq(Calls))
  <2>1. r.calls \in Seq(Calls) /\ attempt \in Nat
    BY <1>3 DEF WorkerRecords
  <2>2. QED
    BY <2>1, RestOfSequence
<1> HIDE DEF rest, attempt, r
<1>5. ASSUME r.calls # <<>> PROVE skip \in WorkerRecords /\ skip.at \in {"next", "get"}
  BY <1>1, <1>3, <1>4, <1>5 DEF WorkerRecords
<1>6. get \in WorkerRecords /\ get.at = "get"
  BY <1>3 DEF WorkerRecords
<1>7. again \in WorkerRecords /\ again.at \in {"next", "get"}
  BY <1>1, <1>3, <1>4 DEF WorkerRecords
<1> HIDE DEF skip, get, again
<1>8. PICK q \in WorkerRecords : Become(k, q) /\ q.at \in {"next", "get", "idle"}
  <2>1. Idle.at = "idle"
    BY DEF Idle
  <2>2. QED
    BY <1>2, <1>5, <1>6, <1>7, <2>1, IdleIsTyped
<1>9. EntityLeft(q)
  BY <1>8 DEF EntityLeft
<1>10. QED
  BY <1>1, <1>8, <1>9, QuietTypedStep

\* An answer.
LEMMA AnsweredIsTyped ==
  ASSUME Inv, TypeInv, NEW k \in Workers, Answered(k) PROVE TypeInv'
<1> DEFINE r == worker[k]
           call == Head(r.calls)
           rest == Tail(r.calls)
           done == [r EXCEPT !.at = "next", !.calls = rest]
           located == IF InstitutionOf[call.of] = NoInstitution
                      THEN r.located ELSE r.located \union {call.of}
           institution == [done EXCEPT !.located = located]
           S == {AuthorWorks(a) : a \in AuthorsOf[call.of]} \ ToSet(done.calls)
           found == r.found \union ({call.of} \X AuthorsOf[call.of])
           calls == rest \o SetToSeq(S)
           authors == [done EXCEPT !.found = found, !.calls = calls]
           last == [r EXCEPT !.at = "delete_works"]
           page == r.page + 1
           more == [r EXCEPT !.page = page, !.attempt = 0]
<1>1. r.at = "get" /\ UNCHANGED <<stored, topic, history>>
  BY DEF Answered
<1>2. r \in WorkerRecords /\ Sound(r)
  BY OfTypedRequest
<1>3. /\ r.calls \in Seq(Calls) /\ r.calls # <<>> /\ page \in Nat
      /\ r.located \subseteq Entities /\ r.found \subseteq PIs \X Authors
  BY <1>1, <1>2 DEF Sound, WorkerRecords
<1>4. call \in Calls /\ rest \in Seq(Calls)
  BY <1>3, RestOfSequence
<1>5. done.calls = rest /\ done.located = r.located /\ done.found = r.found
  BY <1>2 DEF WorkerRecords
<1>6. \/ call.kind = "institution" /\ Become(k, institution)
      \/ call.kind = "authors" /\ Become(k, authors)
      \/ Become(k, last)
      \/ Become(k, more)
  <2>1. CASE call.kind = "institution"
    BY <1>5, <2>1 DEF Answered
  <2>2. CASE call.kind = "authors"
    BY <1>5, <2>2 DEF Answered
  <2>3. CASE call.kind = "works" /\ IsLastPage(call.of, r.page, r.cap)
    BY <2>3 DEF Answered, MoveTo
  <2>4. CASE /\ call.kind # "institution" /\ call.kind # "authors"
             /\ ~(call.kind = "works" /\ IsLastPage(call.of, r.page, r.cap))
    BY <2>4 DEF Answered
  <2>5. QED
    BY <2>1, <2>2, <2>3, <2>4
<1>7. ASSUME call.kind = "institution"
      PROVE  institution \in WorkerRecords /\ institution.at = "next"
  <2>1. call.of \in Entities
    BY <1>4, <1>7 DEF Calls
  <2>2. located \subseteq Entities
    BY <1>3, <2>1
  <2> HIDE DEF r, rest, located
  <2>3. QED
    BY <1>2, <1>4, <2>2 DEF WorkerRecords
<1>8. ASSUME call.kind = "authors"
      PROVE  authors \in WorkerRecords /\ authors.at = "next"
  <2>1. call.of \in PIs
    BY <1>4, <1>8 DEF Calls
  <2>2. AuthorsOf[call.of] \subseteq Authors
    BY <2>1, Inputs
  <2>3. calls \in Seq(Calls)
    <3> DEFINE T == {AuthorWorks(a) : a \in AuthorsOf[call.of]}
    <3>1. IsFiniteSet(T) /\ T \subseteq Calls
      BY <2>2, CallsOf
    <3>2. S \subseteq T
      OBVIOUS
    <3> HIDE DEF T, S, rest
    <3>3. IsFiniteSet(S) /\ S \subseteq Calls
      BY <3>1, <3>2, FS_Subset
    <3>4. SetToSeq(S) \in Seq(Calls)
      BY <3>3, CallsInOrder
    <3>5. QED
      BY <1>4, <3>4, ConcatenatedSets
  <2>4. found \in SUBSET (PIs \X Authors)
    BY <1>3, <2>1, <2>2
  <2> HIDE DEF r, rest, calls, found, S
  <2>5. QED
    BY <1>2, <1>4, <2>3, <2>4 DEF WorkerRecords
<1>9. last \in WorkerRecords /\ last.at = "delete_works"
  BY <1>2 DEF WorkerRecords
<1>10. more \in WorkerRecords /\ more.at = "get"
  <2> HIDE DEF r, page
  <2>1. QED
    BY <1>1, <1>2, <1>3 DEF WorkerRecords
<1> HIDE DEF institution, authors, last, more
<1>11. PICK q \in WorkerRecords : Become(k, q) /\ q.at \in {"next", "get", "delete_works"}
  BY <1>6, <1>7, <1>8, <1>9, <1>10
<1>12. EntityLeft(q)
  BY <1>11 DEF EntityLeft
<1>13. QED
  BY <1>1, <1>11, <1>12, QuietTypedStep

\* The works of an author are replaced.
LEMMA WorksAreTyped ==
  ASSUME Inv, TypeInv, NEW k \in Workers, DeleteWorks(k) \/ InsertWorks(k) PROVE TypeInv'
<1> DEFINE r == worker[k]
           call == Head(r.calls)
           rest == Tail(r.calls)
           author == call.of
           upto == UpTo(author, r.page)
           kept == IF r.cap = 0 THEN upto ELSE Least(upto, r.cap)
           inserting == [r EXCEPT !.at = "insert_works"]
           done == [r EXCEPT !.at = "next", !.calls = rest]
<1>1. /\ r.at \in {"delete_works", "insert_works"}
      /\ UNCHANGED <<matches, bib_manifest, topic, history>>
  BY DEF DeleteWorks, InsertWorks
<1>2. \/ /\ works' = [a \in DOMAIN works \ {author} |-> works[a]]
         /\ Become(k, inserting)
      \/ works' = works /\ Become(k, Idle)
      \/ /\ works' = [a \in DOMAIN works \union {author} |-> IF a = author THEN kept ELSE works[a]]
         /\ Become(k, done)
  BY DEF DeleteWorks, InsertWorks, MoveTo, End
<1>3. r \in WorkerRecords /\ Sound(r)
  BY OfTypedRequest
<1>4. r.calls \in Seq(Calls) /\ r.calls # <<>> /\ call.kind = "works" /\ r.page \in Nat /\ r.cap \in Nat
  BY <1>1, <1>3 DEF Sound, WorkerRecords
<1>5. call \in Calls /\ rest \in Seq(Calls)
  BY <1>4, RestOfSequence
<1>6. author \in Authors
  BY <1>4, <1>5 DEF Calls
<1>7. kept \in Nat
  <2> DEFINE page == r.page
             all == Len(WorksOf[author])
             end == (page + 1) * PAGE_SIZE
  <2>1. all \in Nat
    BY <1>6, Inputs
  <2>2. end \in Nat
    <3>1. page \in Nat
      BY <1>4
    <3> HIDE DEF page
    <3>2. QED
      BY <3>1, Inputs
  <2>3. upto = Least(all, end)
    BY DEF UpTo
  <2> HIDE DEF all, end
  <2>4. upto \in Nat
    BY <2>1, <2>2, <2>3 DEF Least
  <2> HIDE DEF upto, r
  <2>5. QED
    BY <1>4, <2>4 DEF Least
<1> HIDE DEF kept, author, rest, r
<1>8. inserting \in WorkerRecords /\ inserting.at = "insert_works"
  BY <1>3 DEF WorkerRecords
<1>9. done \in WorkerRecords /\ done.at = "next"
  BY <1>3, <1>5 DEF WorkerRecords
<1> HIDE DEF inserting, done
<1>10. PICK q \in WorkerRecords : Become(k, q) /\ q.at \in {"insert_works", "next", "idle"}
  <2>1. Idle.at = "idle"
    BY DEF Idle
  <2>2. QED
    BY <1>2, <1>8, <1>9, <2>1, IdleIsTyped
<1>11. EntityLeft(q)
  BY <1>10 DEF EntityLeft
<1>12. DOMAIN works' \subseteq Authors /\ \A a \in DOMAIN works' : works'[a] \in Nat
  <2>1. CASE works' = [a \in DOMAIN works \ {author} |-> works[a]]
    BY <2>1, TypedTables
  <2>2. CASE works' = works
    BY <2>2, TypedTables
  <2>3. CASE works' = [a \in DOMAIN works \union {author} |-> IF a = author THEN kept ELSE works[a]]
    BY <1>6, <1>7, <2>3, TypedTables
  <2>4. QED
    BY <1>2, <2>1, <2>2, <2>3
<1>13. /\ matches' = matches /\ bib_manifest' = bib_manifest
       /\ papers' = papers /\ flags' = flags /\ topic_manifest' = topic_manifest
       /\ caps_used' = caps_used /\ surveyed_alone' = surveyed_alone /\ flagged' = flagged
  BY <1>1 DEF topic, history
<1>14. QED
  BY <1>10, <1>11, <1>12, <1>13, TypedTables, TypedStep

\* A group is done.
LEMMA NextGroupIsTyped ==
  ASSUME Inv, TypeInv, NEW k \in Workers, NextGroup(k) PROVE TypeInv'
<1> DEFINE r == worker[k]
           stamped(m) == IF m.entity \in r.at_work
                         THEN Cardinality({f \in r.found : f[2] = m.author}) ELSE 0
           rows == [m \in MatchRows |-> r.rows[m] + stamped(m)]
           rest == r.located \ r.at_work
           after == [r EXCEPT !.rows = rows, !.located = rest, !.at_work = {}, !.found = {}]
           last == [after EXCEPT !.at = "delete_matches"]
           group(i) == {e \in rest : InstitutionOf[e] = i}
           names(i) == UNION {PIsOf[e] : e \in group(i)}
           S(i) == {AuthorSearch(pi) : pi \in names(i)}
<1>1. r.at = "next" /\ UNCHANGED <<stored, topic, history>>
  BY DEF NextGroup
<1>2. r \in WorkerRecords
  BY OfTypedRequest
<1>3. r.located \subseteq Entities /\ r.found \subseteq PIs \X Authors /\ r.rows \in [MatchRows -> Nat]
  BY <1>2 DEF WorkerRecords
<1>4. rows \in [MatchRows -> Nat]
  <2>1. ASSUME NEW m \in MatchRows PROVE stamped(m) \in Nat
    <3>1. IsFiniteSet(PIs \X Authors)
      BY Inputs, FS_Product
    <3>2. {f \in r.found : f[2] = m.author} \subseteq PIs \X Authors
      BY <1>3
    <3>3. IsFiniteSet({f \in r.found : f[2] = m.author})
      BY <3>1, <3>2, FS_Subset
    <3>4. Cardinality({f \in r.found : f[2] = m.author}) \in Nat
      BY <3>3, FS_CardinalityType
    <3>5. QED
      BY <3>4
  <2> HIDE DEF stamped
  <2>2. QED
    BY <1>3, <2>1
<1>5. rest \subseteq Entities
  BY <1>3
<1>6. \/ Become(k, last)
      \/ \E i \in {InstitutionOf[e] : e \in rest} :
           Become(k, [after EXCEPT !.at_work = group(i), !.calls = SetToSeq(S(i))])
  <2>1. CASE rest = {}
    BY <2>1 DEF NextGroup
  <2>2. CASE rest # {}
    BY <2>2 DEF NextGroup
  <2>3. QED
    BY <2>1, <2>2
<1> HIDE DEF rows, rest, r
<1>7. after \in WorkerRecords /\ after.at = "next"
  BY <1>1, <1>2, <1>4, <1>5 DEF WorkerRecords
<1> HIDE DEF after
<1>8. last \in WorkerRecords /\ last.at = "delete_matches"
  BY <1>7 DEF WorkerRecords
<1>9. ASSUME NEW i
      PROVE  LET q == [after EXCEPT !.at_work = group(i), !.calls = SetToSeq(S(i))]
             IN q \in WorkerRecords /\ q.at = "next"
  <2> DEFINE G == group(i)
             calls == SetToSeq(S(i))
  <2>1. G \subseteq Entities
    BY <1>5
  <2>2. names(i) \subseteq PIs
    BY <2>1, Inputs
  <2>3. calls \in Seq(Calls)
    <3> HIDE DEF names
    <3>1. IsFiniteSet(S(i)) /\ S(i) \subseteq Calls
      BY <2>2, CallsOf
    <3>2. QED
      BY <3>1, CallsInOrder
  <2> HIDE DEF G, calls
  <2>4. /\ [after EXCEPT !.at_work = G, !.calls = calls] \in WorkerRecords
        /\ [after EXCEPT !.at_work = G, !.calls = calls].at = "next"
    BY <1>7, <2>1, <2>3 DEF WorkerRecords
  <2>5. QED
    BY <2>4 DEF G, calls
<1> HIDE DEF last
<1>10. PICK q \in WorkerRecords : Become(k, q) /\ q.at \in {"next", "delete_matches"}
  <2>1. CASE Become(k, last)
    BY <1>8, <2>1
  <2>2. CASE \E i \in {InstitutionOf[e] : e \in rest} :
               Become(k, [after EXCEPT !.at_work = group(i), !.calls = SetToSeq(S(i))])
    <3>1. PICK i : Become(k, [after EXCEPT !.at_work = group(i), !.calls = SetToSeq(S(i))])
      BY <2>2
    <3> DEFINE p == [after EXCEPT !.at_work = group(i), !.calls = SetToSeq(S(i))]
    <3>2. p \in WorkerRecords /\ p.at = "next"
      BY <1>9
    <3> HIDE DEF p
    <3>3. QED
      BY <3>1, <3>2 DEF p
  <2>3. QED
    BY <1>6, <2>1, <2>2
<1>11. EntityLeft(q)
  BY <1>10 DEF EntityLeft
<1>12. QED
  BY <1>1, <1>10, <1>11, QuietTypedStep

\* The matches are replaced, and the manifest written.
LEMMA MatchesAreTyped ==
  ASSUME Inv, TypeInv, NEW k \in Workers,
         DeleteMatches(k) \/ InsertMatches(k) \/ WriteManifest(k)
  PROVE  TypeInv'
<1> DEFINE r == worker[k]
           inserting == [r EXCEPT !.at = "insert_matches"]
           writing == [r EXCEPT !.at = "write_manifest"]
<1>1. r \in WorkerRecords
  BY OfTypedRequest
<1>2. r.rows \in [MatchRows -> Nat] /\ r.cap \in Nat /\ r.alone \in BOOLEAN
  BY <1>1 DEF WorkerRecords
<1>3. NoMatches \in [MatchRows -> Nat]
  BY DEF NoMatches
<1>4. Become(k, inserting) \/ Become(k, writing) \/ Become(k, Idle)
  BY DEF DeleteMatches, InsertMatches, WriteManifest, MoveTo, End
<1>5. /\ \/ matches' = NoMatches
         \/ matches' = [m \in MatchRows |-> matches[m] + r.rows[m]]
         \/ matches' = matches
      /\ bib_manifest' \in {bib_manifest, [written |-> TRUE, number |-> r.cap]}
      /\ surveyed_alone' \in {surveyed_alone, r.alone}
      /\ works' = works /\ papers' = papers /\ flags' = flags
      /\ topic_manifest' = topic_manifest /\ caps_used' = caps_used /\ flagged' = flagged
  BY DEF DeleteMatches, InsertMatches, WriteManifest, topic, history
<1> HIDE DEF r
<1>6. inserting \in WorkerRecords /\ inserting.at = "insert_matches"
  BY <1>1 DEF WorkerRecords
<1>7. writing \in WorkerRecords /\ writing.at = "write_manifest"
  BY <1>1 DEF WorkerRecords
<1> HIDE DEF inserting, writing
<1>8. PICK q \in WorkerRecords :
        Become(k, q) /\ q.at \in {"insert_matches", "write_manifest", "idle"}
  <2>1. Idle.at = "idle"
    BY DEF Idle
  <2>2. QED
    BY <1>4, <1>6, <1>7, <2>1, IdleIsTyped
<1>9. EntityLeft(q)
  BY <1>8 DEF EntityLeft
<1>10. matches' \in [MatchRows -> Nat]
  <2> HIDE DEF NoMatches
  <2>1. CASE matches' = [m \in MatchRows |-> matches[m] + r.rows[m]]
    BY <1>2, <2>1, TypedTables
  <2>2. QED
    BY <1>3, <1>5, <2>1, TypedTables
<1>11. /\ bib_manifest' \in [written : BOOLEAN, number : Nat]
       /\ surveyed_alone' \in BOOLEAN
  <2>1. [written |-> TRUE, number |-> r.cap] \in [written : BOOLEAN, number : Nat]
    BY <1>2
  <2>2. bib_manifest' \in [written : BOOLEAN, number : Nat]
    BY <1>5, <2>1, TypedTables, Zenon
  <2>3. surveyed_alone' \in BOOLEAN
    BY <1>2, <1>5, TypedTables, Zenon
  <2>4. QED
    BY <2>2, <2>3
<1>12. QED
  BY <1>5, <1>8, <1>9, <1>10, <1>11, TypedTables, TypedStep

\* The rows of an entity's papers are so many as its matches.
LEMMA PapersAreCounted ==
  ASSUME NEW e, NEW loaded \in [MatchRows -> Nat]
  PROVE  PapersOf(e, loaded) \in [PaperRows -> Nat]
<1>1. \A p \in PaperRows : p.match \in MatchRows
  BY DEF PaperRows
<1>2. QED
  BY <1>1 DEF PapersOf

\* A topic stage starts with the entities that have matches: there is one.
LEMMA EnrichTopicSimilarityIsTyped ==
  ASSUME Inv, TypeInv, NEW k \in Workers, EnrichTopicSimilarity(k) PROVE TypeInv'
<1> DEFINE E == {m.entity : m \in {n \in MatchRows : matches[n] > 0}}
           todo == SetToSeq(E)
           before == [r \in PaperRows |-> PapersOf(r.match.entity, matches)[r]]
           q == [Idle EXCEPT !.at = "embed", !.loaded = matches, !.todo = todo,
                             !.before = before]
<1>1. Begin(k, q) /\ UNCHANGED <<stored, topic, history>> /\ matches # NoMatches
  BY DEF EnrichTopicSimilarity
<1>2. matches \in [MatchRows -> Nat]
  BY TypedTables
<1>3. E \subseteq Entities
  BY DEF MatchRows
<1>4. E # {}
  <2>1. PICK m \in MatchRows : matches[m] # 0
    BY <1>1, <1>2 DEF NoMatches
  <2>2. m.entity \in E
    BY <1>2, <2>1
  <2>3. QED
    BY <2>2
<1> HIDE DEF E
<1>5. todo \in Seq(Entities) /\ todo # <<>>
  <2>1. IsFiniteSet(E)
    BY <1>3, Inputs, FS_Subset
  <2>2. todo \in Seq(E) /\ ToSet(todo) = E
    BY <2>1, SetAsSequence
  <2>3. ToSet(<<>>) = {}
    BY DEF ToSet
  <2> HIDE DEF todo
  <2>4. QED
    BY <1>3, <1>4, <2>2, <2>3
<1>6. before \in [PaperRows -> Nat]
  BY <1>2, PapersAreCounted
<1> HIDE DEF todo, before
<1>7. q \in WorkerRecords /\ q.todo = todo
  BY <1>2, <1>5, <1>6, IdleIsTyped DEF WorkerRecords
<1> HIDE DEF q
<1>8. EntityLeft(q)
  BY <1>5, <1>7 DEF EntityLeft
<1>9. caps_used' = caps_used /\ surveyed_alone' = surveyed_alone /\ flagged' = flagged
  BY <1>1 DEF history
<1>10. QED
  BY <1>1, <1>7, <1>8, <1>9, BeginIsTyped, TypedTables

\* The papers of one entity are taken up.
LEMMA EmbedPapersIsTyped ==
  ASSUME Inv, TypeInv, NEW k \in Workers, EmbedPapers(k) PROVE TypeInv'
<1> DEFINE r == worker[k]
           e == Head(r.todo)
           rest == Tail(r.todo)
           embedded == PapersOf(e, r.loaded)
           q == [r EXCEPT !.at = "delete_papers", !.at_work = {e}, !.todo = rest,
                          !.embedded = embedded]
<1>1. r.at = "embed" /\ Become(k, q) /\ UNCHANGED <<stored, topic, history>>
  BY DEF EmbedPapers
<1>2. r \in WorkerRecords /\ EntityLeft(r)
  BY OfTypedRequest
<1>3. r.todo \in Seq(Entities) /\ r.todo # <<>> /\ r.loaded \in [MatchRows -> Nat]
  BY <1>1, <1>2 DEF WorkerRecords, EntityLeft
<1>4. e \in Entities /\ rest \in Seq(Entities)
  BY <1>3, RestOfSequence
<1>5. embedded \in [PaperRows -> Nat]
  BY <1>3, PapersAreCounted
<1> HIDE DEF r, e, rest, embedded
<1>6. q \in WorkerRecords /\ q.at = "delete_papers"
  BY <1>2, <1>4, <1>5 DEF WorkerRecords
<1> HIDE DEF q
<1>7. EntityLeft(q)
  BY <1>6 DEF EntityLeft
<1>8. QED
  BY <1>1, <1>6, <1>7, QuietTypedStep

\* The paper rows of one entity are replaced.
LEMMA PapersAreTyped ==
  ASSUME Inv, TypeInv, NEW k \in Workers, DeletePapers(k) \/ InsertPapers(k) PROVE TypeInv'
<1> DEFINE r == worker[k]
           inserting == [r EXCEPT !.at = "insert_papers"]
           ranking == [r EXCEPT !.at = "rank", !.corpora = Corpora]
<1>1. /\ Become(k, inserting) \/ Become(k, ranking)
      /\ \/ papers' = [p \in PaperRows |-> IF p.match.entity \in r.at_work THEN 0 ELSE papers[p]]
         \/ papers' = [p \in PaperRows |-> papers[p] + r.embedded[p]]
      /\ UNCHANGED <<stored, flags, topic_manifest, history>>
  BY DEF DeletePapers, InsertPapers, MoveTo
<1>2. r \in WorkerRecords
  BY OfTypedRequest
<1>3. r.embedded \in [PaperRows -> Nat]
  BY <1>2 DEF WorkerRecords
<1> HIDE DEF r
<1>4. inserting \in WorkerRecords /\ inserting.at = "insert_papers"
  BY <1>2 DEF WorkerRecords
<1>5. ranking \in WorkerRecords /\ ranking.at = "rank"
  BY <1>2, Inputs DEF WorkerRecords
<1> HIDE DEF inserting, ranking
<1>6. PICK q \in WorkerRecords : Become(k, q) /\ q.at \in {"insert_papers", "rank"}
  BY <1>1, <1>4, <1>5
<1>7. EntityLeft(q)
  BY <1>6 DEF EntityLeft
<1>8. papers' \in [PaperRows -> Nat]
  BY <1>1, <1>3, TypedTables
<1>9. /\ works' = works /\ matches' = matches /\ bib_manifest' = bib_manifest
      /\ flags' = flags /\ topic_manifest' = topic_manifest
      /\ caps_used' = caps_used /\ surveyed_alone' = surveyed_alone /\ flagged' = flagged
  BY <1>1 DEF stored, history
<1>10. QED
  BY <1>6, <1>7, <1>8, <1>9, TypedTables, TypedStep

\* One corpus is ranked; with the last of an entity, the next entity is up.
LEMMA RankIsTyped ==
  ASSUME Inv, TypeInv, NEW k \in Workers, Rank(k) PROVE TypeInv'
<1> DEFINE r == worker[k]
           c == Head(r.corpora)
           left == Tail(r.corpora)
           leaders(e) == {w \in Works : /\ RowsOfPaper(papers, e, w) # {}
                                        /\ RankedLead(c, e, w) >= Margin}
           earned == UNION {{<<e, w, c>> : w \in leaders(e)} : e \in r.at_work}
           new == r.flags \union earned
           label == IF left # <<>> THEN "rank"
                    ELSE IF r.todo # <<>> THEN "embed" ELSE "delete_flags"
           q == [r EXCEPT !.flags = new, !.corpora = left, !.at = label]
<1>1. r.at = "rank" /\ Become(k, q) /\ UNCHANGED <<stored, topic, history>>
  BY DEF Rank
<1>2. r \in WorkerRecords /\ Sound(r)
  BY OfTypedRequest
<1>3. /\ r.corpora \in Seq(ToSet(Corpora)) /\ r.corpora # <<>> /\ r.flags \subseteq FlagRows
      /\ r.at_work \subseteq Entities
  BY <1>1, <1>2 DEF Sound, WorkerRecords
<1>4. c \in ToSet(Corpora) /\ left \in Seq(ToSet(Corpora))
  BY <1>3, RestOfSequence
<1>5. earned \subseteq FlagRows
  <2> HIDE DEF c
  <2>1. QED
    BY <1>3, <1>4 DEF FlagRows
<1>6. new \subseteq FlagRows
  BY <1>3, <1>5
<1>7. label \in {"rank", "embed", "delete_flags"} /\ (label = "embed" => r.todo # <<>>)
  OBVIOUS
<1> HIDE DEF new, left, label, r
<1>8. q \in WorkerRecords /\ q.at = label /\ q.todo = r.todo
  BY <1>2, <1>4, <1>6, <1>7 DEF WorkerRecords
<1> HIDE DEF q
<1>9. EntityLeft(q)
  BY <1>7, <1>8 DEF EntityLeft
<1>10. QED
  BY <1>1, <1>8, <1>9, QuietTypedStep DEF r

\* The flags are replaced, and the count recorded.
LEMMA FlagsAreTyped ==
  ASSUME Inv, TypeInv, NEW k \in Workers,
         DeleteFlags(k) \/ InsertFlags(k) \/ WriteTopicManifest(k)
  PROVE  TypeInv'
<1> DEFINE r == worker[k]
           inserting == [r EXCEPT !.at = "insert_flags"]
           writing == [r EXCEPT !.at = "write_topic_manifest"]
<1>1. /\ Become(k, inserting) \/ Become(k, writing) \/ Become(k, Idle)
      /\ \/ flags' = [t \in FlagRows |-> 0]
         \/ flags' = [t \in FlagRows |-> IF t \in r.flags THEN flags[t] + 1 ELSE flags[t]]
         \/ flags' = flags
      /\ topic_manifest' \in {topic_manifest, [written |-> TRUE, number |-> Cardinality(r.flags)]}
      /\ flagged' \in {flagged, NoFlags, [papers |-> r.before, alone |-> r.alone]}
      /\ UNCHANGED <<stored, papers, caps_used, surveyed_alone>>
  BY DEF DeleteFlags, InsertFlags, WriteTopicManifest, MoveTo, End, history
<1>2. r \in WorkerRecords
  BY OfTypedRequest
<1>3. /\ r.flags \subseteq FlagRows /\ r.before \in [PaperRows -> Nat] /\ r.alone \in BOOLEAN
  BY <1>2 DEF WorkerRecords
<1>4. Cardinality(r.flags) \in Nat
  BY <1>3, RowsAreFinite, FS_Subset, FS_CardinalityType
<1> HIDE DEF r
<1>5. inserting \in WorkerRecords /\ inserting.at = "insert_flags"
  BY <1>2 DEF WorkerRecords
<1>6. writing \in WorkerRecords /\ writing.at = "write_topic_manifest"
  BY <1>2 DEF WorkerRecords
<1> HIDE DEF inserting, writing
<1>7. PICK q \in WorkerRecords :
        Become(k, q) /\ q.at \in {"insert_flags", "write_topic_manifest", "idle"}
  <2>1. Idle.at = "idle"
    BY DEF Idle
  <2>2. QED
    BY <1>1, <1>5, <1>6, <2>1, IdleIsTyped
<1>8. EntityLeft(q)
  BY <1>7 DEF EntityLeft
<1>9. flags' \in [FlagRows -> Nat]
  BY <1>1, TypedTables
<1>10. topic_manifest' \in [written : BOOLEAN, number : Nat]
  <2> DEFINE n == Cardinality(r.flags)
  <2>1. [written |-> TRUE, number |-> n] \in [written : BOOLEAN, number : Nat]
    <3> HIDE DEF n
    <3>1. n \in Nat
      BY <1>4 DEF n
    <3>2. QED
      BY <3>1
  <2>2. QED
    BY <1>1, <2>1, TypedTables, Zenon
<1>11. flagged' \in [papers : [PaperRows -> Nat], alone : BOOLEAN]
  <2>1. NoFlags \in [papers : [PaperRows -> Nat], alone : BOOLEAN]
    BY DEF NoFlags, NoPapers
  <2> HIDE DEF NoFlags
  <2>2. QED
    BY <1>1, <1>3, <2>1, TypedTables
<1>12. works' = works /\ matches' = matches /\ bib_manifest' = bib_manifest
       /\ papers' = papers /\ caps_used' = caps_used /\ surveyed_alone' = surveyed_alone
  BY <1>1 DEF stored
<1>13. QED
  BY <1>7, <1>8, <1>9, <1>10, <1>11, <1>12, TypedTables, TypedStep

\* The process dies, amid an insert or not.
LEMMA CrashIsTyped ==
  ASSUME Inv, TypeInv, Crash \/ \E k \in Workers : CrashAmidInsert(k) PROVE TypeInv'
<1>1. /\ worker' = [k \in Workers |-> Idle] /\ crashes' = crashes + 1 /\ stages' = stages
      /\ works' = works /\ bib_manifest' = bib_manifest /\ topic_manifest' = topic_manifest
      /\ caps_used' = caps_used /\ surveyed_alone' = surveyed_alone /\ flagged' = flagged
  BY DEF Crash, CrashAmidInsert, stored, topic, history
<1>2. /\ \/ matches' = matches
         \/ \E M : matches' = [m \in MatchRows |-> IF m \in M THEN matches[m] + 1 ELSE matches[m]]
      /\ \/ papers' = papers
         \/ \E R : papers' = [r \in PaperRows |-> IF r \in R THEN papers[r] + 1 ELSE papers[r]]
      /\ \/ flags' = flags
         \/ \E F : flags' = [t \in FlagRows |-> IF t \in F THEN flags[t] + 1 ELSE flags[t]]
  <2>1. CASE Crash
    BY <2>1 DEF Crash, stored, topic
  <2>2. ASSUME NEW k \in Workers, CrashAmidInsert(k)
        PROVE  /\ \/ matches' = matches
                  \/ \E M : matches' = [m \in MatchRows |-> IF m \in M THEN matches[m] + 1 ELSE matches[m]]
               /\ \/ papers' = papers
                  \/ \E R : papers' = [r \in PaperRows |-> IF r \in R THEN papers[r] + 1 ELSE papers[r]]
               /\ \/ flags' = flags
                  \/ \E F : flags' = [t \in FlagRows |-> IF t \in F THEN flags[t] + 1 ELSE flags[t]]
    BY <2>2 DEF CrashAmidInsert
  <2>3. QED
    BY <2>1, <2>2
<1>3. matches' \in [MatchRows -> Nat]
  BY <1>2, TypedTables
<1>4. papers' \in [PaperRows -> Nat]
  BY <1>2, TypedTables
<1>5. flags' \in [FlagRows -> Nat]
  BY <1>2, TypedTables
<1>6. worker' \in [Workers -> WorkerRecords] /\ \A k \in Workers : EntityLeft(worker'[k])
  BY <1>1, IdleIsTyped
<1>7. BibliometricsTypeOK'
  BY <1>1, <1>3, <1>4, <1>5, <1>6 DEF TypeInv, BibliometricsTypeOK
<1>8. QED
  BY <1>6, <1>7 DEF TypeInv

\* The first state of the process and of its tables is typed.
LEMMA InitIsTyped == ASSUME Init PROVE TypeInv
<1>1. worker \in [Workers -> WorkerRecords] /\ \A k \in Workers : EntityLeft(worker[k])
  BY IdleIsTyped DEF Init
<1>2. DOMAIN works = {}
  BY DEF Init
<1>3. /\ NoMatches \in [MatchRows -> Nat] /\ NoPapers \in [PaperRows -> Nat]
      /\ NoFlags \in [papers : [PaperRows -> Nat], alone : BOOLEAN]
      /\ NoManifest \in [written : BOOLEAN, number : Nat]
  BY DEF NoMatches, NoPapers, NoFlags, NoManifest
<1> HIDE DEF NoMatches, NoPapers, NoFlags, NoManifest
<1>4. BibliometricsTypeOK
  BY <1>1, <1>2, <1>3 DEF Init, BibliometricsTypeOK
<1>5. QED
  BY <1>1, <1>4 DEF TypeInv

\* No step of a stage and no crash leaves the types.
LEMMA StepIsTyped == ASSUME Inv, TypeInv, [Next]_vars PROVE TypeInv'
<1>1. CASE UNCHANGED vars
  BY <1>1 DEF vars, stored, topic, history, bounds, TypeInv, BibliometricsTypeOK
<1>2. CASE \E k \in Workers, cap \in Caps : EnrichBibliometric(k, cap)
  BY <1>2, EnrichBibliometricIsTyped
<1>3. CASE \E k \in Workers : EnrichTopicSimilarity(k)
  BY <1>3, EnrichTopicSimilarityIsTyped
<1>4. ASSUME NEW k \in Workers, Step(k) PROVE TypeInv'
  BY <1>4, AskingIsTyped, AnsweredIsTyped, WorksAreTyped, NextGroupIsTyped,
     MatchesAreTyped, EmbedPapersIsTyped, PapersAreTyped, RankIsTyped, FlagsAreTyped DEF Step
<1>5. CASE Crash \/ \E k \in Workers : CrashAmidInsert(k)
  BY <1>5, CrashIsTyped
<1>6. QED
  BY <1>1, <1>2, <1>3, <1>4, <1>5 DEF Next

\* Whatever overlaps and dies, the tables and the requests hold what they are
\* meant to: counts of rows of known entities, authors and papers, calls of
\* openalex_client, flags of papers; a request that embeds has an entity left.
THEOREM AlwaysTyped == Spec => [](Inv /\ TypeInv)
<1>1. Init => TypeInv
  BY InitIsTyped
<1>2. Inv /\ TypeInv /\ [Next]_vars => TypeInv'
  BY StepIsTyped
<1>3. QED
  BY <1>1, <1>2, AlwaysSound, PTL DEF Spec

\* Types of the tables, the manifests and the requests of both enrichments.
THEOREM EnrichmentsKeepTypes == Spec => []BibliometricsTypeOK
<1>1. TypeInv => BibliometricsTypeOK
  BY DEF TypeInv
<1>2. QED
  BY <1>1, AlwaysTyped, PTL

-----------------------------------------------------------------------------
(* Surveys nobody overlaps *)

\* While a request is at work, no other one counts as alone.
LEMMA NobodyElseIsAlone ==
  ASSUME Solo, NEW k \in Workers, worker[k].at # "idle", NEW j \in Workers, j # k
  PROVE  ~ worker[j].alone
BY DEF Solo

\* A request that takes a step was at work, and is no more alone than before.
LEMMA StepStaysSolo ==
  ASSUME Inv, Solo, NEW k \in Workers, worker[k].at # "idle", NEW q, Become(k, q),
         q.alone => worker[k].alone /\ q.at # "idle"
  PROVE  Solo'
<1>1. DOMAIN worker = Workers /\ worker' = [worker EXCEPT ![k] = q]
  BY DEF Inv, Requests, Become
<1>2. worker'[k] = q /\ \A j \in Workers \ {k} : worker'[j] = worker[j] /\ ~ worker[j].alone
  BY <1>1, NobodyElseIsAlone
<1>3. ASSUME NEW i \in Workers, worker'[i].alone
      PROVE  worker'[i].at # "idle" /\ \A j \in Workers \ {i} : worker'[j].at = "idle"
  <2>1. i = k
    BY <1>2, <1>3
  <2>2. q.alone /\ worker[k].alone /\ q.at # "idle"
    BY <1>2, <1>3, <2>1
  <2>3. \A j \in Workers \ {k} : worker[j].at = "idle"
    BY <2>2 DEF Solo
  <2>4. QED
    BY <1>2, <2>1, <2>2, <2>3
<1>4. QED
  BY <1>3 DEF Solo

\* A stage that starts is alone if nobody else is at work; nobody else is.
LEMMA BeginStaysSolo ==
  ASSUME Inv, TypeInv, Solo, NEW k \in Workers, NEW q \in WorkerRecords, q.at # "idle",
         Begin(k, q)
  PROVE  /\ Solo'
         /\ worker'[k] = [q EXCEPT !.alone = (Others(k) = {})]
         /\ \A j \in Workers \ {k} :
              /\ ~ worker'[j].alone
              /\ worker'[j] = [worker[j] EXCEPT !.alone = FALSE] \/ worker'[j] = worker[j]
<1> DEFINE alone == Others(k) = {}
           fresh == [q EXCEPT !.alone = alone]
           after(j) == IF j = k THEN fresh
                       ELSE IF j \in Others(k) THEN [worker[j] EXCEPT !.alone = FALSE]
                       ELSE worker[j]
<1>1. worker' = [j \in Workers |-> after(j)]
  BY DEF Begin
<1>2. alone \in BOOLEAN
  OBVIOUS
<1>3. fresh.alone = alone /\ fresh.at = q.at
  <2> HIDE DEF alone
  <2>1. QED
    BY <1>2 DEF WorkerRecords
<1>4. ASSUME NEW j \in Workers \ {k}
      PROVE  /\ ~ worker'[j].alone
             /\ worker'[j] = [worker[j] EXCEPT !.alone = FALSE] \/ worker'[j] = worker[j]
             /\ worker'[j].at = worker[j].at
  <2>1. worker'[j] = IF j \in Others(k) THEN [worker[j] EXCEPT !.alone = FALSE] ELSE worker[j]
    BY <1>1
  <2>2. worker[j] \in WorkerRecords
    BY DEF TypeInv, BibliometricsTypeOK
  <2>3. CASE j \in Others(k)
    BY <2>1, <2>2, <2>3 DEF WorkerRecords
  <2>4. CASE j \notin Others(k)
    <3>1. worker[j].at = "idle"
      BY <2>4 DEF Others
    <3>2. QED
      BY <2>1, <2>4, <3>1 DEF Solo
  <2>5. QED
    BY <2>3, <2>4
<1>5. worker'[k] = fresh
  BY <1>1
<1>6. ASSUME NEW i \in Workers, worker'[i].alone
      PROVE  worker'[i].at # "idle" /\ \A j \in Workers \ {i} : worker'[j].at = "idle"
  <2>1. i = k
    BY <1>4, <1>6
  <2>2. Others(k) = {}
    BY <1>3, <1>5, <1>6, <2>1
  <2>3. \A j \in Workers \ {k} : worker[j].at = "idle"
    BY <2>2 DEF Others
  <2> HIDE DEF fresh, alone
  <2>4. QED
    BY <1>3, <1>4, <1>5, <2>1, <2>3
<1>7. Solo'
  BY <1>6 DEF Solo
<1>8. QED
  BY <1>4, <1>5, <1>7

\* An idle request has nothing to survey.
LEMMA IdleIsOnTrack ==
  OnTrack(Idle) /\ MissesNone(Idle) /\ ~ Refetching(Idle) /\ ~ Idle.alone /\ Idle.at = "idle"
<1>1. Idle.at = "idle" /\ Idle.located = {} /\ Idle.rows = NoMatches /\ ~ Idle.alone
  BY DEF Idle
<1>2. QED
  BY <1>1 DEF OnTrack, MissesNone, Refetching, Fetching, Surveying, NoMatches

\* The step of one request.
LEMMA SurveyStep ==
  ASSUME Inv, SurveyInv, NEW k \in Workers, worker[k].at # "idle", NEW q, Become(k, q),
         q.alone => worker[k].alone /\ q.at # "idle",
         caps_used' = caps_used, OnTrack(q)', MissesNone(q)', Surveyed'
  PROVE  SurveyInv'
<1>1. Solo'
  BY StepStaysSolo DEF SurveyInv
<1>2. worker' = [worker EXCEPT ![k] = q] /\ DOMAIN worker = Workers
  BY DEF Become, Inv, Requests
<1>3. ASSUME NEW j \in Workers PROVE OnTrack(worker[j])' /\ MissesNone(worker[j])'
  <2>1. CASE j = k
    BY <1>2, <2>1 DEF OnTrack, MissesNone, AheadOf
  <2>2. CASE j # k
    <3>1. worker'[j] = worker[j] /\ ~ worker'[j].alone
      BY <1>2, <2>2, NobodyElseIsAlone DEF SurveyInv
    <3>2. OnTrack(worker[j])
      BY DEF SurveyInv
    <3>3. OnTrack(worker[j])'
      BY <3>1, <3>2 DEF OnTrack
    <3>4. MissesNone(worker[j])'
      BY <3>1 DEF MissesNone
    <3>5. QED
      BY <3>3, <3>4
  <2>3. QED
    BY <2>1, <2>2
<1>4. QED
  BY <1>1, <1>3 DEF SurveyInv

\* The step of one request that leaves what surveys store alone, and asks for
\* no works that are there.
LEMMA QuietSurveyStep ==
  ASSUME Inv, SurveyInv, NEW k \in Workers, worker[k].at # "idle", NEW q, Become(k, q),
         q.alone => worker[k].alone /\ q.at # "idle",
         UNCHANGED <<stored, caps_used, surveyed_alone>>, OnTrack(q), MissesNone(q),
         ReachedAuthors \subseteq DOMAIN works /\ ~ Refetching(worker[k]) => ~ Refetching(q)
  PROVE  SurveyInv'
<1>1. works' = works /\ matches' = matches /\ bib_manifest' = bib_manifest
  BY DEF stored
<1>2. OnTrack(q)' /\ MissesNone(q)'
  BY <1>1 DEF OnTrack, MissesNone, AheadOf
<1>3. worker' = [worker EXCEPT ![k] = q] /\ DOMAIN worker = Workers
  BY DEF Become, Inv, Requests
<1>4. ASSUME bib_manifest'.written /\ surveyed_alone'
      PROVE  /\ ReachedAuthors \subseteq DOMAIN works'
             /\ \A j \in Workers : ~ Refetching(worker[j])'
  <2>1. ReachedAuthors \subseteq DOMAIN works /\ \A j \in Workers : ~ Refetching(worker[j])
    BY <1>1, <1>4 DEF SurveyInv, Surveyed
  <2>2. ASSUME NEW j \in Workers PROVE ~ Refetching(worker'[j])
    <3>1. worker'[j] = IF j = k THEN q ELSE worker[j]
      BY <1>3
    <3>2. QED
      BY <2>1, <3>1
  <2>3. QED
    BY <1>1, <2>1, <2>2 DEF Refetching
<1>5. Surveyed'
  BY <1>1, <1>4 DEF SurveyInv, Surveyed
<1>6. QED
  BY <1>2, <1>5, SurveyStep

\* The step of a topic stage.
LEMMA TopicStepIsQuiet ==
  ASSUME Inv, SurveyInv, NEW k \in Workers, worker[k].at \in Ranking, NEW q, Become(k, q),
         q = Idle \/ /\ q.at \in Ranking /\ q.alone = worker[k].alone
                     /\ q.located = worker[k].located /\ q.rows = worker[k].rows,
         UNCHANGED <<stored, caps_used, surveyed_alone>>
  PROVE  SurveyInv'
<1>1. OnTrack(worker[k]) /\ worker[k].at # "idle"
  BY DEF SurveyInv, Ranking
<1>2. CASE q = Idle
  BY <1>1, <1>2, IdleIsOnTrack, QuietSurveyStep
<1>3. CASE /\ q.at \in Ranking /\ q.alone = worker[k].alone
           /\ q.located = worker[k].located /\ q.rows = worker[k].rows
  <2>1. q.at \notin Surveying /\ q.at \notin Fetching /\ q.at # "idle"
    BY <1>3 DEF Ranking, Surveying, Fetching
  <2>2. OnTrack(q) /\ MissesNone(q) /\ ~ Refetching(q)
    BY <1>1, <1>3, <2>1 DEF OnTrack, MissesNone, Refetching, Fetching
  <2>3. QED
    BY <1>1, <1>3, <2>1, <2>2, QuietSurveyStep
<1>4. QED
  BY <1>2, <1>3

\* Every step of a topic stage is one.
LEMMA TopicKeepsSurvey ==
  ASSUME Inv, TypeInv, SurveyInv, NEW k \in Workers,
         \/ EmbedPapers(k) \/ DeletePapers(k) \/ InsertPapers(k) \/ Rank(k)
         \/ DeleteFlags(k) \/ InsertFlags(k) \/ WriteTopicManifest(k)
  PROVE  SurveyInv'
<1>1. PICK r \in WorkerRecords : r = worker[k]
  BY DEF TypeInv, BibliometricsTypeOK
<1>2. r.at \in Ranking /\ UNCHANGED <<stored, caps_used, surveyed_alone>>
  BY <1>1 DEF EmbedPapers, DeletePapers, InsertPapers, Rank, DeleteFlags, InsertFlags,
     WriteTopicManifest, Ranking, history
<1> DEFINE Quiet(q) == \/ q = Idle
                       \/ /\ q.at \in Ranking /\ q.alone = r.alone
                          /\ q.located = r.located /\ q.rows = r.rows
<1>3. \E q : Become(k, q) /\ Quiet(q)
  <2>1. CASE EmbedPapers(k)
    <3>1. PICK e, rest, embedded : Become(k,
            [r EXCEPT !.at = "delete_papers", !.at_work = {e}, !.todo = rest,
                      !.embedded = embedded])
      BY <1>1, <2>1 DEF EmbedPapers
    <3> DEFINE q == [r EXCEPT !.at = "delete_papers", !.at_work = {e}, !.todo = rest,
                              !.embedded = embedded]
    <3>2. Quiet(q)
      BY DEF WorkerRecords, Ranking
    <3> HIDE DEF q
    <3>3. QED
      BY <3>1, <3>2 DEF q
  <2>2. CASE DeletePapers(k)
    <3> DEFINE q == [r EXCEPT !.at = "insert_papers"]
    <3>1. Become(k, q) /\ Quiet(q)
      BY <1>1, <2>2 DEF DeletePapers, MoveTo, WorkerRecords, Ranking
    <3> HIDE DEF q
    <3>2. QED
      BY <3>1
  <2>3. CASE InsertPapers(k)
    <3> DEFINE q == [r EXCEPT !.at = "rank", !.corpora = Corpora]
    <3>1. Become(k, q) /\ Quiet(q)
      BY <1>1, <2>3 DEF InsertPapers, WorkerRecords, Ranking
    <3> HIDE DEF q
    <3>2. QED
      BY <3>1
  <2>4. CASE Rank(k)
    <3> DEFINE left == Tail(r.corpora)
               label == IF left # <<>> THEN "rank"
                        ELSE IF r.todo # <<>> THEN "embed" ELSE "delete_flags"
    <3>1. PICK new : Become(k, [r EXCEPT !.flags = new, !.corpora = left, !.at = label])
      BY <1>1, <2>4 DEF Rank
    <3>2. label \in {"rank", "embed", "delete_flags"}
      OBVIOUS
    <3> HIDE DEF label, left
    <3> DEFINE q == [r EXCEPT !.flags = new, !.corpora = left, !.at = label]
    <3>3. Quiet(q)
      BY <3>2 DEF WorkerRecords, Ranking
    <3> HIDE DEF q
    <3>4. QED
      BY <3>1, <3>3 DEF q
  <2>5. CASE DeleteFlags(k)
    <3> DEFINE q == [r EXCEPT !.at = "insert_flags"]
    <3>1. Become(k, q) /\ Quiet(q)
      BY <1>1, <2>5 DEF DeleteFlags, MoveTo, WorkerRecords, Ranking
    <3> HIDE DEF q
    <3>2. QED
      BY <3>1
  <2>6. CASE InsertFlags(k)
    <3> DEFINE q == [r EXCEPT !.at = "write_topic_manifest"]
    <3>1. Become(k, q) /\ Quiet(q)
      BY <1>1, <2>6 DEF InsertFlags, MoveTo, WorkerRecords, Ranking
    <3> HIDE DEF q
    <3>2. QED
      BY <3>1
  <2>7. CASE WriteTopicManifest(k)
    BY <2>7 DEF WriteTopicManifest, End
  <2>8. QED
    BY <2>1, <2>2, <2>3, <2>4, <2>5, <2>6, <2>7
<1>4. PICK q : Become(k, q) /\ Quiet(q)
  BY <1>3
<1>5. QED
  BY <1>1, <1>2, <1>4, TopicStepIsQuiet

\* What is known of a survey before its step.
LEMMA OfSurvey ==
  ASSUME Inv, TypeInv, SurveyInv, NEW k \in Workers
  PROVE  /\ worker[k] \in WorkerRecords /\ Sound(worker[k])
         /\ OnTrack(worker[k]) /\ MissesNone(worker[k])
BY OfTypedRequest DEF SurveyInv

\* The next call; the works of an author that are there are not asked for.
LEMMA NextCallKeepsSurvey ==
  ASSUME Inv, TypeInv, SurveyInv, NEW k \in Workers, NextCall(k) PROVE SurveyInv'
<1>1. PICK r \in WorkerRecords :
        /\ r = worker[k] /\ Sound(r) /\ OnTrack(r) /\ MissesNone(r)
  BY OfSurvey
<1>2. r.at = "next" /\ r.calls # <<>> /\ UNCHANGED <<stored, caps_used, surveyed_alone>>
  BY <1>1 DEF NextCall, history
<1>3. PICK call, rest : call = Head(r.calls) /\ rest = Tail(r.calls)
  OBVIOUS
<1>4. \/ /\ call.kind = "works" /\ call.of \in DOMAIN works
         /\ Become(k, [r EXCEPT !.calls = rest])
      \/ /\ ~(call.kind = "works" /\ call.of \in DOMAIN works)
         /\ Become(k, [r EXCEPT !.at = "get", !.attempt = 0, !.page = 0])
  BY <1>1, <1>3 DEF NextCall
<1>5. /\ call \in Calls /\ rest \in Seq(Calls)
      /\ ToSet(r.calls) = {call} \union ToSet(rest)
  <2>1. r.calls \in Seq(Calls)
    BY DEF WorkerRecords
  <2>2. QED
    BY <1>2, <1>3, <2>1, RestOfSequence
<1>6. CASE /\ call.kind = "works" /\ call.of \in DOMAIN works
           /\ Become(k, [r EXCEPT !.calls = rest])
  <2> DEFINE q == [r EXCEPT !.calls = rest]
  <2>1. /\ q.at = "next" /\ q.calls = rest /\ q.located = r.located /\ q.at_work = r.at_work
        /\ q.rows = r.rows /\ q.cap = r.cap /\ q.alone = r.alone
    BY <1>2 DEF WorkerRecords
  <2>2. Become(k, q)
    BY <1>6
  <2> HIDE DEF q
  <2>3. OnTrack(q)
    BY <1>1, <1>2, <1>5, <2>1 DEF OnTrack, Fetching, Surveying
  <2>4. MissesNone(q)
    <3>1. SUFFICES ASSUME q.alone, NEW f \in Entities, NEW pi \in PIsOf[f],
                          NEW a \in AuthorsOf[pi], Leading(f, pi, a), a \notin DOMAIN works
                   PROVE  AheadOf(q, f, pi, a)
      BY DEF MissesNone
    <3>2. AheadOf(r, f, pi, a)
      BY <1>1, <1>2, <2>1, <3>1 DEF MissesNone, Surveying, Fetching
    <3>3. Institution(f) # call /\ AuthorSearch(pi) # call /\ AuthorWorks(a) # call
      BY <1>6, <3>1 DEF Institution, AuthorSearch, AuthorWorks
    <3>4. QED
      BY <1>5, <2>1, <3>2, <3>3 DEF AheadOf
  <2>5. ~ Refetching(q)
    BY <2>1 DEF Refetching
  <2>6. QED
    BY <1>1, <1>2, <2>1, <2>2, <2>3, <2>4, <2>5, QuietSurveyStep
<1>7. CASE /\ ~(call.kind = "works" /\ call.of \in DOMAIN works)
           /\ Become(k, [r EXCEPT !.at = "get", !.attempt = 0, !.page = 0])
  <2> DEFINE q == [r EXCEPT !.at = "get", !.attempt = 0, !.page = 0]
  <2>1. /\ q.at = "get" /\ q.calls = r.calls /\ q.located = r.located /\ q.at_work = r.at_work
        /\ q.rows = r.rows /\ q.cap = r.cap /\ q.alone = r.alone
    BY DEF WorkerRecords
  <2>2. Become(k, q)
    BY <1>7
  <2> HIDE DEF q
  <2>3. OnTrack(q)
    BY <1>1, <1>2, <2>1 DEF OnTrack, Fetching, Surveying
  <2>4. MissesNone(q)
    BY <1>1, <1>2, <2>1 DEF MissesNone, AheadOf, Surveying, Fetching
  <2>5. ReachedAuthors \subseteq DOMAIN works => ~ Refetching(q)
    <3>1. call.kind = "works" => call.of \in ReachedAuthors
      BY <1>1, <1>2, <1>5 DEF OnTrack, Fetching
    <3>2. QED
      BY <1>3, <1>7, <2>1, <3>1 DEF Refetching
  <2>6. QED
    BY <1>1, <1>2, <2>1, <2>2, <2>3, <2>4, <2>5, QuietSurveyStep
<1>8. QED
  BY <1>4, <1>6, <1>7

\* A retry, or the end.
LEMMA RetryKeepsSurvey ==
  ASSUME Inv, TypeInv, SurveyInv, NEW k \in Workers, RetryGet(k) \/ FailGet(k)
  PROVE  SurveyInv'
<1>1. PICK r \in WorkerRecords :
        /\ r = worker[k] /\ Sound(r) /\ OnTrack(r) /\ MissesNone(r)
  BY OfSurvey
<1>2. r.at = "get" /\ UNCHANGED <<stored, caps_used, surveyed_alone>>
  BY <1>1 DEF RetryGet, FailGet, history
<1>3. Become(k, [r EXCEPT !.attempt = @ + 1]) \/ Become(k, Idle)
  BY <1>1 DEF RetryGet, FailGet, End
<1>4. CASE Become(k, Idle)
  BY <1>1, <1>2, <1>4, IdleIsOnTrack, QuietSurveyStep
<1>5. CASE Become(k, [r EXCEPT !.attempt = @ + 1])
  <2> DEFINE q == [r EXCEPT !.attempt = @ + 1]
  <2>1. /\ q.at = "get" /\ q.calls = r.calls /\ q.located = r.located /\ q.at_work = r.at_work
        /\ q.rows = r.rows /\ q.cap = r.cap /\ q.alone = r.alone
    BY <1>2 DEF WorkerRecords
  <2>2. Become(k, q)
    BY <1>5
  <2> HIDE DEF q
  <2>3. OnTrack(q) /\ MissesNone(q) /\ (Refetching(q) => Refetching(r))
    BY <1>1, <1>2, <2>1 DEF OnTrack, MissesNone, AheadOf, Refetching, Surveying, Fetching
  <2>4. QED
    BY <1>1, <1>2, <2>1, <2>2, <2>3, QuietSurveyStep
<1>6. QED
  BY <1>3, <1>4, <1>5

\* An institution that is found is still ahead, as are the works of the authors
\* a name resolves to.
LEMMA AnsweredKeepsSurvey ==
  ASSUME Inv, TypeInv, SurveyInv, NEW k \in Workers, Answered(k) PROVE SurveyInv'
<1>1. PICK r \in WorkerRecords :
        /\ r = worker[k] /\ Sound(r) /\ OnTrack(r) /\ MissesNone(r)
  BY OfSurvey
<1>2. r.at = "get" /\ UNCHANGED <<stored, caps_used, surveyed_alone>>
  BY <1>1 DEF Answered, history
<1>3. PICK call, rest : call = Head(r.calls) /\ rest = Tail(r.calls)
  OBVIOUS
<1>4. r.calls \in Seq(Calls) /\ r.calls # <<>> /\ r.at_work \subseteq Entities
  BY <1>1, <1>2 DEF Sound, WorkerRecords
<1>5. /\ call \in Calls /\ rest \in Seq(Calls)
      /\ ToSet(r.calls) = {call} \union ToSet(rest)
  BY <1>3, <1>4, RestOfSequence
<1> DEFINE done == [r EXCEPT !.at = "next", !.calls = rest]
           S == {AuthorWorks(a) : a \in AuthorsOf[call.of]} \ ToSet(done.calls)
<1>6. /\ done.calls = rest /\ done.located = r.located /\ done.found = r.found
      /\ done.at = "next" /\ done.at_work = r.at_work
  BY DEF WorkerRecords
<1>7. PICK located :
        located = IF InstitutionOf[call.of] = NoInstitution
                  THEN r.located ELSE r.located \union {call.of}
  OBVIOUS
<1>8. PICK found, calls : found = r.found \union ({call.of} \X AuthorsOf[call.of])
                          /\ calls = rest \o SetToSeq(S)
  OBVIOUS
<1>9. \/ /\ call.kind = "institution"
         /\ Become(k, [r EXCEPT !.at = "next", !.calls = rest, !.located = located])
      \/ /\ call.kind = "authors"
         /\ Become(k, [r EXCEPT !.at = "next", !.calls = calls, !.found = found])
      \/ call.kind = "works" /\ Become(k, [r EXCEPT !.at = "delete_works"])
      \/ Become(k, [r EXCEPT !.page = @ + 1, !.attempt = 0])
  <2>1. CASE call.kind = "institution"
    <3>1. Become(k, [done EXCEPT !.located = located])
      BY <1>1, <1>3, <1>6, <1>7, <2>1 DEF Answered
    <3>2. [done EXCEPT !.located = located]
            = [r EXCEPT !.at = "next", !.calls = rest, !.located = located]
      BY DEF WorkerRecords
    <3>3. QED
      BY <2>1, <3>1, <3>2
  <2>2. CASE call.kind = "authors"
    <3>1. Become(k, [done EXCEPT !.found = found, !.calls = calls])
      BY <1>1, <1>3, <1>6, <1>8, <2>2 DEF Answered
    <3>2. [done EXCEPT !.found = found, !.calls = calls]
            = [r EXCEPT !.at = "next", !.calls = calls, !.found = found]
      BY DEF WorkerRecords
    <3>3. QED
      BY <2>2, <3>1, <3>2
  <2>3. CASE call.kind = "works" /\ IsLastPage(call.of, r.page, r.cap)
    BY <1>1, <1>3, <2>3 DEF Answered, MoveTo
  <2>4. CASE /\ call.kind # "institution" /\ call.kind # "authors"
             /\ ~(call.kind = "works" /\ IsLastPage(call.of, r.page, r.cap))
    BY <1>1, <1>3, <2>4 DEF Answered
  <2>5. QED
    BY <2>1, <2>2, <2>3, <2>4
<1>10. CASE /\ call.kind = "institution"
            /\ Become(k, [r EXCEPT !.at = "next", !.calls = rest, !.located = located])
  <2> DEFINE q == [r EXCEPT !.at = "next", !.calls = rest, !.located = located]
  <2>1. /\ q.at = "next" /\ q.calls = rest /\ q.located = located /\ q.at_work = r.at_work
        /\ q.rows = r.rows /\ q.cap = r.cap /\ q.alone = r.alone
    BY DEF WorkerRecords
  <2>2. Become(k, q)
    BY <1>10
  <2> HIDE DEF q, done, S
  <2>3. r.at_work = {}
    BY <1>1, <1>2, <1>5, <1>10 DEF OnTrack, Fetching
  <2>4. OnTrack(q)
    BY <1>1, <1>2, <1>5, <1>7, <2>1 DEF OnTrack, Fetching, Surveying
  <2>5. MissesNone(q)
    <3>1. SUFFICES ASSUME q.alone, NEW f \in Entities, NEW pi \in PIsOf[f],
                          NEW a \in AuthorsOf[pi], Leading(f, pi, a), a \notin DOMAIN works
                   PROVE  AheadOf(q, f, pi, a)
      BY DEF MissesNone
    <3>2. AheadOf(r, f, pi, a)
      BY <1>1, <1>2, <2>1, <3>1 DEF MissesNone, Surveying, Fetching
    <3>3. Institution(f) = call => f \in q.located \ q.at_work
      BY <1>7, <2>1, <2>3, <3>1 DEF Institution, Leading
    <3>4. AuthorSearch(pi) # call /\ AuthorWorks(a) # call
      BY <1>10 DEF AuthorSearch, AuthorWorks
    <3>5. f \in r.located => f \in q.located \ q.at_work
      BY <1>7, <2>1, <2>3
    <3>6. QED
      BY <1>5, <2>1, <3>2, <3>3, <3>4, <3>5 DEF AheadOf
  <2>6. ~ Refetching(q)
    BY <2>1 DEF Refetching
  <2>7. QED
    BY <1>1, <1>2, <2>1, <2>2, <2>4, <2>5, <2>6, QuietSurveyStep
<1>11. CASE /\ call.kind = "authors"
            /\ Become(k, [r EXCEPT !.at = "next", !.calls = calls, !.found = found])
  <2> DEFINE q == [r EXCEPT !.at = "next", !.calls = calls, !.found = found]
  <2>1. /\ q.at = "next" /\ q.calls = calls /\ q.located = r.located /\ q.at_work = r.at_work
        /\ q.rows = r.rows /\ q.cap = r.cap /\ q.alone = r.alone
    BY DEF WorkerRecords
  <2>2. Become(k, q)
    BY <1>11
  <2>3. call.of \in PIs
    BY <1>5, <1>11 DEF Calls
  <2>4. PICK g \in r.at_work : call.of \in PIsOf[g]
    BY <1>1, <1>2, <1>5, <1>11 DEF Sound, Grouped, Fetching
  <2>5. \A a \in AuthorsOf[call.of] : a \in ReachedAuthors
    <3>1. InstitutionOf[g] # NoInstitution /\ g \in Entities
      BY <1>1, <1>2, <1>4 DEF OnTrack, Fetching
    <3>2. AuthorsOf[call.of] \subseteq Authors
      BY <2>3, Inputs
    <3>3. QED
      BY <2>4, <3>1, <3>2 DEF ReachedAuthors, Leading
  <2>6. ToSet(calls) = ToSet(rest) \union S
    <3> DEFINE T == {AuthorWorks(a) : a \in AuthorsOf[call.of]}
    <3>1. AuthorsOf[call.of] \in SUBSET Authors
      BY <2>3, Inputs
    <3>2. IsFiniteSet(T) /\ T \subseteq Calls
      BY <3>1, CallsOf
    <3>3. S \subseteq T
      OBVIOUS
    <3> HIDE DEF T, S, done
    <3>4. IsFiniteSet(S) /\ S \subseteq Calls
      BY <3>2, <3>3, FS_Subset
    <3>5. SetToSeq(S) \in Seq(Calls) /\ ToSet(SetToSeq(S)) = S
      BY <3>4, CallsInOrder
    <3>6. QED
      BY <1>5, <1>8, <3>5, ConcatenatedSets
  <2>7. \A c \in S : c.kind = "works" /\ c.of \in ReachedAuthors
    BY <2>5 DEF AuthorWorks
  <2>8. \A a \in AuthorsOf[call.of] : AuthorWorks(a) \in ToSet(calls)
    BY <1>6, <2>6
  <2> HIDE DEF q, done, S
  <2>9. OnTrack(q)
    <3>1. \A c \in ToSet(rest) : c \in ToSet(r.calls)
      BY <1>5
    <3>2. \A c \in ToSet(q.calls) : /\ c.kind = "works" => c.of \in ReachedAuthors
                                    /\ c.kind = "institution" => q.at_work = {}
      <4>1. ASSUME NEW c \in ToSet(rest)
            PROVE  /\ c.kind = "works" => c.of \in ReachedAuthors
                   /\ c.kind = "institution" => q.at_work = {}
        BY <1>1, <1>2, <2>1, <3>1 DEF OnTrack, Fetching
      <4>2. QED
        BY <2>1, <2>6, <2>7, <4>1
    <3>3. QED
      BY <1>1, <1>2, <2>1, <3>2 DEF OnTrack, Fetching, Surveying
  <2>10. MissesNone(q)
    <3>1. SUFFICES ASSUME q.alone, NEW f \in Entities, NEW pi \in PIsOf[f],
                          NEW a \in AuthorsOf[pi], Leading(f, pi, a), a \notin DOMAIN works
                   PROVE  AheadOf(q, f, pi, a)
      BY DEF MissesNone
    <3>2. AheadOf(r, f, pi, a)
      BY <1>1, <1>2, <2>1, <3>1 DEF MissesNone, Surveying, Fetching
    <3>3. Institution(f) # call /\ AuthorWorks(a) # call
      BY <1>11 DEF Institution, AuthorWorks
    <3>4. AuthorSearch(pi) = call => AuthorWorks(a) \in ToSet(q.calls)
      BY <2>1, <2>8 DEF AuthorSearch
    <3>5. ToSet(rest) \subseteq ToSet(q.calls)
      BY <2>1, <2>6
    <3>6. QED
      BY <1>5, <2>1, <3>2, <3>3, <3>4, <3>5 DEF AheadOf
  <2>11. ~ Refetching(q)
    BY <2>1 DEF Refetching
  <2>12. QED
    BY <1>1, <1>2, <2>1, <2>2, <2>9, <2>10, <2>11, QuietSurveyStep
<1>12. CASE \/ call.kind = "works" /\ Become(k, [r EXCEPT !.at = "delete_works"])
            \/ Become(k, [r EXCEPT !.page = @ + 1, !.attempt = 0])
  <2> HIDE DEF done, S
  <2>1. PICK q : /\ Become(k, q)
                 /\ (q.at = "delete_works" /\ call.kind = "works") \/ q.at = "get"
                 /\ q.calls = r.calls /\ q.located = r.located /\ q.at_work = r.at_work
                 /\ q.rows = r.rows /\ q.cap = r.cap /\ q.alone = r.alone
    <3> DEFINE last == [r EXCEPT !.at = "delete_works"]
               more == [r EXCEPT !.page = @ + 1, !.attempt = 0]
    <3>1. /\ last.at = "delete_works"
          /\ last.calls = r.calls /\ last.located = r.located /\ last.at_work = r.at_work
          /\ last.rows = r.rows /\ last.cap = r.cap /\ last.alone = r.alone
      BY DEF WorkerRecords
    <3>2. /\ more.at = "get"
          /\ more.calls = r.calls /\ more.located = r.located /\ more.at_work = r.at_work
          /\ more.rows = r.rows /\ more.cap = r.cap /\ more.alone = r.alone
      BY <1>2 DEF WorkerRecords
    <3>3. (call.kind = "works" /\ Become(k, last)) \/ Become(k, more)
      BY <1>12
    <3> HIDE DEF last, more
    <3>4. QED
      BY <3>1, <3>2, <3>3
  <2>2. OnTrack(q) /\ MissesNone(q)
    BY <1>1, <1>2, <2>1 DEF OnTrack, MissesNone, AheadOf, Surveying, Fetching
  <2>3. Refetching(q) => Refetching(r)
    BY <1>2, <1>3, <2>1 DEF Refetching
  <2>4. q.at # "idle"
    BY <2>1
  <2>5. QED
    BY <1>1, <1>2, <2>1, <2>2, <2>3, <2>4, QuietSurveyStep
<1>13. QED
  BY <1>9, <1>10, <1>11, <1>12

\* The works of an author are replaced: only by a survey that found none, which
\* has them ahead until they are stored.
LEMMA WorksKeepSurvey ==
  ASSUME Inv, TypeInv, SurveyInv, NEW k \in Workers, DeleteWorks(k) \/ InsertWorks(k)
  PROVE  SurveyInv'
<1>1. PICK r \in WorkerRecords :
        /\ r = worker[k] /\ Sound(r) /\ OnTrack(r) /\ MissesNone(r)
  BY OfSurvey
<1>2. /\ r.at \in {"delete_works", "insert_works"}
      /\ matches' = matches /\ bib_manifest' = bib_manifest
      /\ caps_used' = caps_used /\ surveyed_alone' = surveyed_alone
  BY <1>1 DEF DeleteWorks, InsertWorks, history
<1>3. PICK call, rest : call = Head(r.calls) /\ rest = Tail(r.calls)
  OBVIOUS
<1>4. r.calls \in Seq(Calls) /\ r.calls # <<>> /\ call.kind = "works"
  BY <1>1, <1>2, <1>3 DEF Sound, WorkerRecords
<1>5. /\ call \in Calls /\ rest \in Seq(Calls)
      /\ ToSet(r.calls) = {call} \union ToSet(rest)
  BY <1>3, <1>4, RestOfSequence
<1>6. call = AuthorWorks(call.of)
  BY <1>4, <1>5 DEF Calls, AuthorWorks
<1>7. Refetching(r) /\ r.at # "idle" /\ r.at \in Surveying
  BY <1>2 DEF Refetching, Surveying, Fetching
<1>8. Surveyed'
  <2>1. ~(bib_manifest.written /\ surveyed_alone)
    BY <1>1, <1>7 DEF SurveyInv, Surveyed
  <2>2. QED
    BY <1>2, <2>1 DEF SurveyInv, Surveyed
<1>9. \/ Become(k, Idle)
      \/ /\ DOMAIN works' = DOMAIN works \ {call.of}
         /\ Become(k, [r EXCEPT !.at = "insert_works"])
      \/ /\ DOMAIN works' = DOMAIN works \union {call.of}
         /\ Become(k, [r EXCEPT !.at = "next", !.calls = rest])
  <2>1. CASE DeleteWorks(k)
    BY <1>1, <1>3, <2>1 DEF DeleteWorks, MoveTo
  <2>2. CASE InsertWorks(k)
    <3>1. CASE call.of \in DOMAIN works
      BY <1>1, <1>3, <2>2, <3>1 DEF InsertWorks, End
    <3>2. CASE call.of \notin DOMAIN works
      BY <1>1, <1>3, <2>2, <3>2 DEF InsertWorks
    <3>3. QED
      BY <3>1, <3>2
  <2>3. QED
    BY <2>1, <2>2
<1>10. CASE Become(k, Idle)
  <2>1. OnTrack(Idle)' /\ MissesNone(Idle)'
    <3>1. PICK q : q = Idle
      OBVIOUS
    <3>2. q.at = "idle" /\ q.located = {} /\ q.rows = NoMatches /\ ~ q.alone
      BY <3>1 DEF Idle
    <3>3. OnTrack(q)' /\ MissesNone(q)'
      BY <3>2 DEF OnTrack, MissesNone, Fetching, Surveying, NoMatches
    <3>4. QED
      BY <3>1, <3>3
  <2>2. QED
    BY <1>1, <1>2, <1>7, <1>8, <1>10, <2>1, IdleIsOnTrack, SurveyStep
<1>11. CASE /\ DOMAIN works' = DOMAIN works \ {call.of}
            /\ Become(k, [r EXCEPT !.at = "insert_works"])
  <2>1. PICK q : q = [r EXCEPT !.at = "insert_works"]
    OBVIOUS
  <2>2. /\ q.at = "insert_works" /\ q.calls = r.calls /\ q.located = r.located
        /\ q.at_work = r.at_work /\ q.rows = r.rows /\ q.cap = r.cap /\ q.alone = r.alone
    BY <2>1 DEF WorkerRecords
  <2>3. OnTrack(q)'
    BY <1>1, <1>2, <2>2 DEF OnTrack, Fetching, Surveying
  <2>4. MissesNone(q)'
    <3>1. SUFFICES ASSUME q.alone, NEW f \in Entities, NEW pi \in PIsOf[f],
                          NEW a \in AuthorsOf[pi], Leading(f, pi, a), a \notin DOMAIN works'
                   PROVE  AheadOf(q, f, pi, a)
      BY DEF MissesNone, AheadOf, Leading
    <3>2. a \in DOMAIN works \/ AheadOf(r, f, pi, a)
      BY <1>1, <1>7, <2>2, <3>1 DEF MissesNone
    <3>3. a \in DOMAIN works => a = call.of
      BY <1>11, <3>1
    <3>4. call \in ToSet(r.calls)
      BY <1>5
    <3>5. QED
      BY <1>6, <2>2, <3>2, <3>3, <3>4 DEF AheadOf
  <2>5. QED
    BY <1>1, <1>2, <1>7, <1>8, <1>11, <2>1, <2>2, <2>3, <2>4, SurveyStep
<1>12. CASE /\ DOMAIN works' = DOMAIN works \union {call.of}
            /\ Become(k, [r EXCEPT !.at = "next", !.calls = rest])
  <2>1. PICK q : q = [r EXCEPT !.at = "next", !.calls = rest]
    OBVIOUS
  <2>2. /\ q.at = "next" /\ q.calls = rest /\ q.located = r.located
        /\ q.at_work = r.at_work /\ q.rows = r.rows /\ q.cap = r.cap /\ q.alone = r.alone
    BY <2>1 DEF WorkerRecords
  <2>3. OnTrack(q)'
    BY <1>1, <1>2, <1>5, <2>2 DEF OnTrack, Fetching, Surveying
  <2>4. MissesNone(q)'
    <3>1. SUFFICES ASSUME q.alone, NEW f \in Entities, NEW pi \in PIsOf[f],
                          NEW a \in AuthorsOf[pi], Leading(f, pi, a), a \notin DOMAIN works'
                   PROVE  AheadOf(q, f, pi, a)
      BY DEF MissesNone, AheadOf, Leading
    <3>2. AheadOf(r, f, pi, a)
      BY <1>1, <1>7, <1>12, <2>2, <3>1 DEF MissesNone
    <3>3. a # call.of
      BY <1>12, <3>1
    <3>4. Institution(f) # call /\ AuthorSearch(pi) # call /\ AuthorWorks(a) # call
      BY <1>4, <3>3 DEF Institution, AuthorSearch, AuthorWorks
    <3>5. QED
      BY <1>5, <2>2, <3>2, <3>4 DEF AheadOf
  <2>5. QED
    BY <1>1, <1>2, <1>7, <1>8, <1>12, <2>1, <2>2, <2>3, <2>4, SurveyStep
<1>13. QED
  BY <1>9, <1>10, <1>11, <1>12

\* With no call left, what is ahead is in the entities not yet taken up: the
\* names of the next group are ahead, and of the last one all is done.
LEMMA NextGroupKeepsSurvey ==
  ASSUME Inv, TypeInv, SurveyInv, NEW k \in Workers, NextGroup(k) PROVE SurveyInv'
<1>1. PICK r \in WorkerRecords :
        /\ r = worker[k] /\ Sound(r) /\ OnTrack(r) /\ MissesNone(r)
        /\ r.cap \in caps_used
  <2>1. worker[k].at = "next"
    BY DEF NextGroup
  <2>2. QED
    BY <2>1, OfSurvey DEF OnTrack, Surveying, Fetching
<1>2. /\ r.at = "next" /\ r.calls = <<>> /\ UNCHANGED <<stored, caps_used, surveyed_alone>>
  BY <1>1 DEF NextGroup, history
<1>3. r.at_work \subseteq Entities /\ r.located \subseteq Entities /\ Grouped(r)
  BY <1>1, <1>2 DEF Sound, Fetching, Grouped, WorkerRecords
<1> DEFINE stamped(m) == IF m.entity \in r.at_work
                         THEN Cardinality({f \in r.found : f[2] = m.author}) ELSE 0
<1>4. PICK rows, rest : /\ rows = [m \in MatchRows |-> r.rows[m] + stamped(m)]
                        /\ rest = r.located \ r.at_work
  OBVIOUS
<1> DEFINE after == [r EXCEPT !.rows = rows, !.located = rest, !.at_work = {}, !.found = {}]
           group(i) == {e \in rest : InstitutionOf[e] = i}
           S(i) == {AuthorSearch(pi) : pi \in UNION {PIsOf[e] : e \in group(i)}}
<1>5. \/ rest = {} /\ Become(k, [after EXCEPT !.at = "delete_matches"])
      \/ \E i \in {InstitutionOf[e] : e \in rest} :
           Become(k, [after EXCEPT !.at_work = group(i), !.calls = SetToSeq(S(i))])
  <2>1. CASE rest = {}
    BY <1>1, <1>4, <2>1 DEF NextGroup
  <2>2. CASE rest # {}
    BY <1>1, <1>4, <2>2 DEF NextGroup
  <2>3. QED
    BY <2>1, <2>2
<1>6. \A m \in MatchRows : rows[m] # 0 => m.author \in ReachedAuthors
  <2>1. ASSUME NEW m \in MatchRows, stamped(m) # 0 PROVE m.author \in ReachedAuthors
    <3>1. m.entity \in r.at_work /\ {f \in r.found : f[2] = m.author} # {}
      BY <2>1, FS_EmptySet
    <3>2. PICK f \in r.found : f[2] = m.author
      BY <3>1
    <3>3. PICK g \in r.at_work : f[1] \in PIsOf[g] /\ f[2] \in AuthorsOf[f[1]]
      BY <1>3 DEF Grouped
    <3>4. g \in Entities /\ InstitutionOf[g] # NoInstitution
      BY <1>1, <1>2, <1>3 DEF OnTrack, Fetching
    <3>5. m.author \in Authors
      BY DEF MatchRows
    <3>6. QED
      BY <3>2, <3>3, <3>4, <3>5 DEF ReachedAuthors, Leading
  <2>2. ASSUME NEW m \in MatchRows, rows[m] # 0 PROVE r.rows[m] # 0 \/ stamped(m) # 0
    <3>1. rows[m] = r.rows[m] + stamped(m)
      BY <1>4
    <3> HIDE DEF stamped
    <3>2. QED
      BY <2>2, <3>1
  <2> HIDE DEF stamped
  <2>3. \A m \in MatchRows : r.rows[m] # 0 => m.author \in ReachedAuthors
    BY <1>1 DEF OnTrack
  <2>4. QED
    BY <2>1, <2>2, <2>3
<1> HIDE DEF stamped
<1>7. /\ after.at = "next" /\ after.calls = <<>> /\ after.located = rest /\ after.at_work = {}
      /\ after.rows = rows /\ after.cap = r.cap /\ after.alone = r.alone
  BY <1>2 DEF WorkerRecords
<1>8. \A c \in ToSet(r.calls) : FALSE
  BY <1>2 DEF ToSet
<1>9. CASE rest = {} /\ Become(k, [after EXCEPT !.at = "delete_matches"])
  <2> DEFINE q == [after EXCEPT !.at = "delete_matches"]
  <2>1. /\ q.at = "delete_matches" /\ q.calls = <<>> /\ q.located = rest /\ q.at_work = {}
        /\ q.rows = rows /\ q.cap = r.cap /\ q.alone = r.alone
    BY <1>2 DEF WorkerRecords
  <2>2. Become(k, q)
    BY <1>9
  <2> HIDE DEF q, after
  <2>3. OnTrack(q)
    BY <1>1, <1>6, <1>9, <2>1 DEF OnTrack, Fetching, Surveying
  <2>4. MissesNone(q)
    <3>1. SUFFICES ASSUME q.alone, NEW f \in Entities, NEW pi \in PIsOf[f],
                          NEW a \in AuthorsOf[pi], Leading(f, pi, a)
                   PROVE  a \in DOMAIN works
      BY DEF MissesNone
    <3>2. a \in DOMAIN works \/ AheadOf(r, f, pi, a)
      BY <1>1, <1>2, <2>1, <3>1 DEF MissesNone, Surveying, Fetching
    <3>3. QED
      BY <1>4, <1>8, <1>9, <3>2 DEF AheadOf
  <2>5. ~ Refetching(q)
    BY <2>1 DEF Refetching
  <2>6. QED
    BY <1>1, <1>2, <2>1, <2>2, <2>3, <2>4, <2>5, QuietSurveyStep
<1>10. ASSUME NEW i,
              Become(k, [after EXCEPT !.at_work = group(i), !.calls = SetToSeq(S(i))])
       PROVE  SurveyInv'
  <2> DEFINE q == [after EXCEPT !.at_work = group(i), !.calls = SetToSeq(S(i))]
  <2>1. /\ q.at = "next" /\ q.calls = SetToSeq(S(i)) /\ q.located = rest
        /\ q.at_work = group(i) /\ q.rows = rows /\ q.cap = r.cap /\ q.alone = r.alone
    BY <1>2 DEF WorkerRecords
  <2>2. Become(k, q)
    BY <1>10
  <2>3. ToSet(q.calls) = S(i)
    <3> DEFINE P == UNION {PIsOf[e] : e \in group(i)}
    <3>1. group(i) \subseteq Entities
      BY <1>3, <1>4
    <3>2. P \in SUBSET PIs
      BY <3>1, Inputs
    <3>3. IsFiniteSet({AuthorSearch(pi) : pi \in P}) /\ {AuthorSearch(pi) : pi \in P} \subseteq Calls
      BY <3>2, CallsOf
    <3>4. ToSet(SetToSeq(S(i))) = S(i)
      BY <3>3, CallsInOrder
    <3>5. QED
      BY <2>1, <3>4
  <2> HIDE DEF q, after
  <2>4. \A c \in S(i) : c.kind = "authors"
    BY DEF AuthorSearch
  <2>5. OnTrack(q)
    <3>1. \A f \in q.located : InstitutionOf[f] # NoInstitution
      BY <1>1, <1>4, <2>1 DEF OnTrack
    <3>2. group(i) \subseteq rest
      OBVIOUS
    <3> HIDE DEF S, group
    <3>3. QED
      BY <1>1, <1>6, <2>1, <2>3, <2>4, <3>1, <3>2 DEF OnTrack, Fetching, Surveying
  <2>6. MissesNone(q)
    <3>1. SUFFICES ASSUME q.alone, NEW f \in Entities, NEW pi \in PIsOf[f],
                          NEW a \in AuthorsOf[pi], Leading(f, pi, a), a \notin DOMAIN works
                   PROVE  AheadOf(q, f, pi, a)
      BY DEF MissesNone
    <3>2. AheadOf(r, f, pi, a)
      BY <1>1, <1>2, <2>1, <3>1 DEF MissesNone, Surveying, Fetching
    <3>3. f \in rest
      BY <1>4, <1>8, <3>2 DEF AheadOf
    <3>4. f \in group(i) => AuthorSearch(pi) \in S(i)
      OBVIOUS
    <3> HIDE DEF group, S
    <3>5. QED
      BY <2>1, <2>3, <3>3, <3>4 DEF AheadOf
  <2>7. ~ Refetching(q)
    BY <2>1 DEF Refetching
  <2>8. QED
    BY <1>1, <1>2, <2>1, <2>2, <2>5, <2>6, <2>7, QuietSurveyStep
<1> HIDE DEF after, group, S
<1>11. QED
  BY <1>5, <1>9, <1>10

\* The matches are replaced by those of the survey, of authors it reached.
LEMMA MatchesKeepSurvey ==
  ASSUME Inv, TypeInv, SurveyInv, NEW k \in Workers, DeleteMatches(k) \/ InsertMatches(k)
  PROVE  SurveyInv'
<1>1. PICK r \in WorkerRecords :
        /\ r = worker[k] /\ Sound(r) /\ OnTrack(r) /\ MissesNone(r)
  BY OfSurvey
<1>2. /\ r.at \in {"delete_matches", "insert_matches"}
      /\ works' = works /\ bib_manifest' = bib_manifest
      /\ caps_used' = caps_used /\ surveyed_alone' = surveyed_alone
      /\ \/ matches' = NoMatches
         \/ matches' = [m \in MatchRows |-> matches[m] + r.rows[m]]
  BY <1>1 DEF DeleteMatches, InsertMatches, history
<1>3. PICK label \in {"insert_matches", "write_manifest"} : Become(k, [r EXCEPT !.at = label])
  BY <1>1 DEF DeleteMatches, InsertMatches, MoveTo
<1>4. PICK q : q = [r EXCEPT !.at = label]
  OBVIOUS
<1>5. /\ q.at = label /\ q.calls = r.calls /\ q.located = r.located
      /\ q.at_work = r.at_work /\ q.rows = r.rows /\ q.cap = r.cap /\ q.alone = r.alone
  BY <1>4 DEF WorkerRecords
<1>6. OnTrack(q)'
  BY <1>1, <1>2, <1>5 DEF OnTrack, Fetching, Surveying
<1>7. MissesNone(q)'
  BY <1>1, <1>2, <1>5 DEF MissesNone, AheadOf, Fetching, Surveying
<1>8. \A m \in MatchRows : matches'[m] # 0 => m.author \in ReachedAuthors
  <2>1. CASE matches' = NoMatches
    BY <2>1 DEF NoMatches
  <2>2. ASSUME NEW m \in MatchRows, matches' = [n \in MatchRows |-> matches[n] + r.rows[n]],
               matches'[m] # 0
        PROVE  m.author \in ReachedAuthors
    <3>1. matches[m] # 0 \/ r.rows[m] # 0
      BY <2>2
    <3>2. QED
      BY <1>1, <3>1 DEF SurveyInv, Surveyed, OnTrack
  <2>3. QED
    BY <1>2, <2>1, <2>2
<1>9. ASSUME bib_manifest.written /\ surveyed_alone, NEW j \in Workers
      PROVE  ~ Refetching(worker'[j])
  <2>1. worker'[j] = IF j = k THEN q ELSE worker[j]
    BY <1>3, <1>4 DEF Become, Inv, Requests
  <2>2. ~ Refetching(q)
    BY <1>5 DEF Refetching
  <2>3. ~ Refetching(worker[j])
    BY <1>9 DEF SurveyInv, Surveyed
  <2>4. QED
    BY <2>1, <2>2, <2>3
<1>10. Surveyed'
  BY <1>2, <1>8, <1>9 DEF SurveyInv, Surveyed, Refetching
<1>11. worker[k].at # "idle"
  BY <1>1, <1>2
<1>12. QED
  BY <1>1, <1>2, <1>3, <1>4, <1>5, <1>6, <1>7, <1>10, <1>11, SurveyStep

\* A survey that nobody overlapped leaves the works of every author it reached,
\* and nobody who could be about to delete any.
LEMMA WriteManifestKeepsSurvey ==
  ASSUME Inv, TypeInv, SurveyInv, NEW k \in Workers, WriteManifest(k) PROVE SurveyInv'
<1>1. PICK r \in WorkerRecords :
        /\ r = worker[k] /\ Sound(r) /\ OnTrack(r) /\ MissesNone(r)
  BY OfSurvey
<1>2. /\ r.at = "write_manifest" /\ Become(k, Idle)
      /\ works' = works /\ matches' = matches /\ caps_used' = caps_used
      /\ bib_manifest' = [written |-> TRUE, number |-> r.cap] /\ surveyed_alone' = r.alone
  BY <1>1 DEF WriteManifest, End
<1>3. r.calls = <<>> /\ r.located = {} /\ r.cap \in caps_used
  BY <1>1, <1>2 DEF OnTrack, Surveying, Fetching
<1>4. PICK q : q = Idle
  OBVIOUS
<1>5. q.at = "idle" /\ q.located = {} /\ q.rows = NoMatches /\ ~ q.alone
  BY <1>4 DEF Idle
<1>6. OnTrack(q)' /\ MissesNone(q)'
  BY <1>5 DEF OnTrack, MissesNone, Fetching, Surveying, NoMatches
<1>7. ASSUME r.alone
      PROVE  /\ ReachedAuthors \subseteq DOMAIN works
             /\ \A j \in Workers : ~ Refetching(worker'[j])
  <2>1. ASSUME NEW a \in ReachedAuthors PROVE a \in DOMAIN works
    <3>1. PICK f \in Entities : \E pi \in PIsOf[f] : Leading(f, pi, a)
      BY DEF ReachedAuthors
    <3>2. PICK pi \in PIsOf[f] : Leading(f, pi, a)
      BY <3>1
    <3>3. a \in DOMAIN works \/ AheadOf(r, f, pi, a)
      BY <1>1, <1>2, <1>7, <3>2 DEF MissesNone, Surveying, Leading
    <3>4. \A c \in ToSet(r.calls) : FALSE
      BY <1>3 DEF ToSet
    <3>5. QED
      BY <1>3, <3>3, <3>4 DEF AheadOf
  <2>2. ASSUME NEW j \in Workers PROVE ~ Refetching(worker'[j])
    <3>1. worker'[j] = IF j = k THEN q ELSE worker[j]
      BY <1>2, <1>4 DEF Become, Inv, Requests
    <3>2. j # k => worker[j].at = "idle"
      BY <1>1, <1>7 DEF SurveyInv, Solo
    <3>3. QED
      BY <1>5, <3>1, <3>2 DEF Refetching
  <2>3. QED
    BY <2>1, <2>2
<1>8. Surveyed'
  <2>1. bib_manifest'.number = r.cap
    BY <1>2
  <2>2. QED
    BY <1>2, <1>3, <1>7, <2>1 DEF SurveyInv, Surveyed, Refetching
<1>9. worker[k].at # "idle"
  BY <1>1, <1>2
<1>10. QED
  BY <1>2, <1>4, <1>5, <1>6, <1>8, <1>9, SurveyStep

\* A stage starts: it has all entities ahead, or none; the others are no
\* longer alone.
LEMMA BeginKeepsSurvey ==
  ASSUME Inv, TypeInv, SurveyInv, NEW k \in Workers, NEW q \in WorkerRecords, Begin(k, q),
         works' = works, matches' = matches, bib_manifest' = bib_manifest,
         surveyed_alone' = surveyed_alone, caps_used \subseteq caps_used',
         IsFiniteSet(caps_used'),
         q.at = "next" \/ q.at = "embed", q.located = {}, q.at_work = {}, q.rows = NoMatches,
         q.at = "next" => q.cap \in caps_used',
         q.at = "next" => \A f \in Entities : Institution(f) \in ToSet(q.calls),
         q.at = "next" => \A call \in ToSet(q.calls) : call.kind = "institution"
  PROVE  SurveyInv'
<1>1. q.at # "idle"
  OBVIOUS
<1>2. /\ Solo' /\ worker'[k] = [q EXCEPT !.alone = (Others(k) = {})]
      /\ \A j \in Workers \ {k} :
           /\ ~ worker'[j].alone
           /\ worker'[j] = [worker[j] EXCEPT !.alone = FALSE] \/ worker'[j] = worker[j]
  BY <1>1, BeginStaysSolo DEF SurveyInv
<1>3. PICK p : p = worker'[k]
  OBVIOUS
<1>4. /\ p.at = q.at /\ p.calls = q.calls /\ p.located = q.located /\ p.at_work = q.at_work
      /\ p.rows = q.rows /\ p.cap = q.cap
  <2>1. PICK b \in BOOLEAN : p = [q EXCEPT !.alone = b]
    <3>1. (Others(k) = {}) \in BOOLEAN
      OBVIOUS
    <3>2. QED
      BY <1>2, <1>3, <3>1
  <2>2. QED
    BY <2>1 DEF WorkerRecords
<1>5. OnTrack(p)'
  BY <1>4 DEF OnTrack, Surveying, Fetching, NoMatches
<1>6. MissesNone(p)'
  BY <1>4 DEF MissesNone, AheadOf, Surveying, Fetching
<1>7. ~ Refetching(p)
  BY <1>4 DEF Refetching
<1>8. ASSUME NEW j \in Workers, j # k
      PROVE  /\ OnTrack(worker[j])' /\ MissesNone(worker[j])'
             /\ Refetching(worker'[j]) => Refetching(worker[j])
  <2>1. PICK r \in WorkerRecords : r = worker[j] /\ OnTrack(r)
    BY OfSurvey
  <2>2. PICK s : s = worker'[j]
    OBVIOUS
  <2>3. /\ s.at = r.at /\ s.calls = r.calls /\ s.located = r.located /\ s.at_work = r.at_work
        /\ s.rows = r.rows /\ s.cap = r.cap /\ ~ s.alone
    <3>1. ~ s.alone /\ (s = [r EXCEPT !.alone = FALSE] \/ s = r)
      BY <1>2, <1>8, <2>1, <2>2
    <3>2. CASE s = r
      BY <3>1, <3>2
    <3>3. CASE s = [r EXCEPT !.alone = FALSE]
      BY <3>3 DEF WorkerRecords
    <3>4. QED
      BY <3>1, <3>2, <3>3
  <2>4. OnTrack(s)'
    BY <2>1, <2>3 DEF OnTrack
  <2>5. MissesNone(s)'
    BY <2>3 DEF MissesNone
  <2>6. Refetching(s) => Refetching(r)
    BY <2>3 DEF Refetching
  <2>7. OnTrack(worker[j])' /\ MissesNone(worker[j])'
    BY <2>2, <2>4, <2>5 DEF OnTrack, MissesNone, AheadOf
  <2>8. QED
    BY <2>1, <2>2, <2>6, <2>7
<1>9. ASSUME NEW j \in Workers PROVE OnTrack(worker[j])' /\ MissesNone(worker[j])'
  <2>1. CASE j = k
    BY <1>3, <1>5, <1>6, <2>1 DEF OnTrack, MissesNone, AheadOf
  <2>2. QED
    BY <1>8, <2>1
<1>10. ASSUME bib_manifest.written /\ surveyed_alone, NEW j \in Workers
       PROVE  ~ Refetching(worker'[j])
  <2>1. ~ Refetching(worker[j])
    BY <1>10 DEF SurveyInv, Surveyed
  <2>2. QED
    BY <1>3, <1>7, <1>8, <2>1
<1>11. Surveyed'
  BY <1>10 DEF SurveyInv, Surveyed, Refetching
<1>12. QED
  BY <1>2, <1>9, <1>11 DEF SurveyInv

\* A survey starts with every entity ahead.
LEMMA EnrichBibliometricKeepsSurvey ==
  ASSUME Inv, TypeInv, SurveyInv, NEW k \in Workers, NEW cap \in Caps,
         EnrichBibliometric(k, cap)
  PROVE  SurveyInv'
<1> DEFINE S == {Institution(e) : e \in Entities}
<1>1. PICK calls : calls = SetToSeq(S)
  OBVIOUS
<1>2. calls \in Seq(Calls) /\ ToSet(calls) = S
  BY <1>1, CallsInOrder, CallsOf
<1>3. PICK q : q = [Idle EXCEPT !.at = "next", !.cap = cap, !.calls = calls]
  OBVIOUS
<1>4. /\ Begin(k, q) /\ caps_used' = caps_used \union {cap}
      /\ works' = works /\ matches' = matches /\ bib_manifest' = bib_manifest
      /\ surveyed_alone' = surveyed_alone
  BY <1>1, <1>3 DEF EnrichBibliometric, stored
<1>5. cap \in Nat
  BY Inputs
<1>6. /\ q \in WorkerRecords /\ q.at = "next" /\ q.calls = calls /\ q.cap = cap
      /\ q.located = Idle.located /\ q.at_work = Idle.at_work /\ q.rows = Idle.rows
  BY <1>2, <1>3, <1>5, IdleIsTyped DEF WorkerRecords
<1>7. Idle.located = {} /\ Idle.at_work = {} /\ Idle.rows = NoMatches
  BY DEF Idle
<1>8. IsFiniteSet(caps_used') /\ caps_used \subseteq caps_used' /\ cap \in caps_used'
  BY <1>4, FS_AddElement DEF SurveyInv, Surveyed
<1>9. /\ \A f \in Entities : Institution(f) \in S
      /\ \A call \in S : call.kind = "institution"
  BY DEF Institution
<1> HIDE DEF S
<1>10. QED
  BY <1>2, <1>4, <1>6, <1>7, <1>8, <1>9, BeginKeepsSurvey

\* Beginning a topic stage keeps the survey invariant.
LEMMA EnrichTopicSimilarityKeepsSurvey ==
  ASSUME Inv, TypeInv, SurveyInv, NEW k \in Workers, EnrichTopicSimilarity(k)
  PROVE  SurveyInv'
<1>1. PICK todo, before :
        /\ todo = SetToSeq({m.entity : m \in {n \in MatchRows : matches[n] > 0}})
        /\ before = [r \in PaperRows |-> PapersOf(r.match.entity, matches)[r]]
  OBVIOUS
<1>2. PICK q : q = [Idle EXCEPT !.at = "embed", !.loaded = matches, !.todo = todo,
                                !.before = before]
  OBVIOUS
<1>3. /\ Begin(k, q) /\ caps_used' = caps_used
      /\ works' = works /\ matches' = matches /\ bib_manifest' = bib_manifest
      /\ surveyed_alone' = surveyed_alone
  BY <1>1, <1>2 DEF EnrichTopicSimilarity, stored, history
<1>4. matches \in [MatchRows -> Nat]
  BY TypedTables
<1>5. todo \in Seq(Entities)
  <2> DEFINE E == {m.entity : m \in {n \in MatchRows : matches[n] > 0}}
  <2>1. E \subseteq Entities
    BY DEF MatchRows
  <2> HIDE DEF E
  <2>2. IsFiniteSet(E)
    BY <2>1, Inputs, FS_Subset
  <2>3. SetToSeq(E) \in Seq(E)
    BY <2>2, SetAsSequence
  <2>4. QED
    BY <1>1, <2>1, <2>3 DEF E
<1>6. before \in [PaperRows -> Nat]
  BY <1>1, <1>4, PapersAreCounted
<1>7. /\ q \in WorkerRecords /\ q.at = "embed"
      /\ q.located = Idle.located /\ q.at_work = Idle.at_work /\ q.rows = Idle.rows
  BY <1>2, <1>4, <1>5, <1>6, IdleIsTyped DEF WorkerRecords
<1>8. Idle.located = {} /\ Idle.at_work = {} /\ Idle.rows = NoMatches
  BY DEF Idle
<1>9. IsFiniteSet(caps_used') /\ caps_used \subseteq caps_used'
  BY <1>3 DEF SurveyInv, Surveyed
<1>10. QED
  BY <1>3, <1>7, <1>8, <1>9, BeginKeepsSurvey

\* The process dies: of an insert that is cut short, some matches are there, of
\* authors the survey reached.
LEMMA CrashKeepsSurvey ==
  ASSUME Inv, TypeInv, SurveyInv, Crash \/ \E k \in Workers : CrashAmidInsert(k)
  PROVE  SurveyInv'
<1>1. /\ worker' = [k \in Workers |-> Idle]
      /\ works' = works /\ bib_manifest' = bib_manifest
      /\ caps_used' = caps_used /\ surveyed_alone' = surveyed_alone
  BY DEF Crash, CrashAmidInsert, stored, history
<1>2. \A m \in MatchRows : matches'[m] # 0 => m.author \in ReachedAuthors
  <2>1. CASE matches' = matches
    BY <2>1 DEF SurveyInv, Surveyed
  <2>2. ASSUME NEW k \in Workers,
               NEW M \in FirstOf({m \in MatchRows : worker[k].rows[m] > 0}),
               matches' = [m \in MatchRows |-> IF m \in M THEN matches[m] + 1 ELSE matches[m]]
        PROVE  \A m \in MatchRows : matches'[m] # 0 => m.author \in ReachedAuthors
    <3> DEFINE matching == {m \in MatchRows : worker[k].rows[m] > 0}
    <3>1. matching \subseteq MatchRows
      OBVIOUS
    <3>2. OnTrack(worker[k])
      BY OfSurvey
    <3>3. \A m \in matching : m.author \in ReachedAuthors
      BY <3>2 DEF OnTrack
    <3> HIDE DEF matching
    <3>4. IsFiniteSet(matching)
      BY <3>1, RowsAreFinite, FS_Subset
    <3>5. M \subseteq matching
      BY <2>2, <3>4, FirstAreSome DEF matching
    <3>6. QED
      BY <2>2, <3>3, <3>5 DEF SurveyInv, Surveyed
  <2>3. matches' = matches \/ \E k \in Workers :
          \E M \in FirstOf({m \in MatchRows : worker[k].rows[m] > 0}) :
            matches' = [m \in MatchRows |-> IF m \in M THEN matches[m] + 1 ELSE matches[m]]
    <3>1. CASE Crash
      BY <3>1 DEF Crash, stored
    <3>2. CASE \E k \in Workers : CrashAmidInsert(k)
      BY <3>2 DEF CrashAmidInsert
    <3>3. QED
      BY <3>1, <3>2
  <2>4. QED
    BY <2>1, <2>2, <2>3
<1>3. \A k \in Workers : ~ Refetching(worker'[k]) /\ ~ worker'[k].alone
  BY <1>1, IdleIsOnTrack
<1>4. Surveyed'
  BY <1>1, <1>2, <1>3 DEF SurveyInv, Surveyed, Refetching
<1>5. \A k \in Workers : OnTrack(worker[k])' /\ MissesNone(worker[k])'
  <2>1. ASSUME NEW k \in Workers PROVE OnTrack(worker[k])' /\ MissesNone(worker[k])'
    <3>1. PICK q : q = worker'[k]
      OBVIOUS
    <3>2. q.at = "idle" /\ q.located = {} /\ q.rows = NoMatches /\ ~ q.alone
      BY <1>1, <3>1 DEF Idle
    <3>3. OnTrack(q)' /\ MissesNone(q)'
      BY <3>2 DEF OnTrack, MissesNone, Fetching, Surveying, NoMatches
    <3>4. QED
      BY <3>1, <3>3 DEF OnTrack, MissesNone, AheadOf
  <2>2. QED
    BY <2>1
<1>6. Solo'
  BY <1>3 DEF Solo
<1>7. QED
  BY <1>4, <1>5, <1>6 DEF SurveyInv

\* The first state keeps the survey invariant: no stage runs and there is no manifest.
LEMMA InitIsSurveyed == ASSUME Init PROVE SurveyInv
<1>1. \A k \in Workers : worker[k] = Idle
  BY DEF Init
<1>2. Solo /\ \A k \in Workers : OnTrack(worker[k]) /\ MissesNone(worker[k])
  BY <1>1, IdleIsOnTrack DEF Solo
<1>3. IsFiniteSet(caps_used)
  BY FS_EmptySet DEF Init
<1>4. Surveyed
  BY <1>3 DEF Init, Surveyed, NoMatches, NoManifest
<1>5. QED
  BY <1>2, <1>4 DEF SurveyInv

\* No step of a stage, no request and no crash breaks the survey invariant.
LEMMA StepKeepsSurvey == ASSUME Inv, TypeInv, SurveyInv, [Next]_vars PROVE SurveyInv'
<1>1. CASE UNCHANGED vars
  BY <1>1 DEF vars, stored, topic, history, bounds, SurveyInv, Solo, Surveyed, OnTrack,
     MissesNone, AheadOf, Refetching
<1>2. CASE \E k \in Workers, cap \in Caps : EnrichBibliometric(k, cap)
  BY <1>2, EnrichBibliometricKeepsSurvey
<1>3. CASE \E k \in Workers : EnrichTopicSimilarity(k)
  BY <1>3, EnrichTopicSimilarityKeepsSurvey
<1>4. ASSUME NEW k \in Workers, Step(k) PROVE SurveyInv'
  BY <1>4, NextCallKeepsSurvey, RetryKeepsSurvey, AnsweredKeepsSurvey, WorksKeepSurvey,
     NextGroupKeepsSurvey, MatchesKeepSurvey, WriteManifestKeepsSurvey, TopicKeepsSurvey DEF Step
<1>5. CASE Crash \/ \E k \in Workers : CrashAmidInsert(k)
  BY <1>5, CrashKeepsSurvey
<1>6. QED
  BY <1>1, <1>2, <1>3, <1>4, <1>5 DEF Next

\* What is matched was reached from an entity OpenAlex knows; a survey nobody
\* overlaps has the works of all it reaches, or has them ahead; once it wrote
\* the manifest nobody deletes them any more.
THEOREM AlwaysSurveyed == Spec => []SurveyInv
<1>1. Init => SurveyInv
  BY InitIsSurveyed
<1>2. Inv /\ TypeInv /\ SurveyInv /\ [Next]_vars => SurveyInv'
  BY StepKeepsSurvey
<1>3. QED
  BY <1>1, <1>2, AlwaysTyped, PTL DEF Spec

\* While the enrichments of a run pass one cap, the cap in the manifest of a
\* survey nobody overlapped is what the works of every matched author were cut
\* to, whatever starts, overlaps and dies after it, for any inputs
\* (BibliometricSnapshotManifest).
THEOREM ManifestAlwaysTellsTheCoverage == Spec => []ManifestTellsTheCoverage
<1>1. ASSUME Inv, TypeInv, SurveyInv PROVE ManifestTellsTheCoverage
  <2>1. SUFFICES ASSUME bib_manifest.written, surveyed_alone, Cardinality(caps_used) = 1,
                        NEW m \in MatchRows, matches[m] > 0
                 PROVE  /\ m.author \in DOMAIN works
                        /\ works[m.author] = Coverage(m.author, bib_manifest.number)
    BY DEF ManifestTellsTheCoverage
  <2>2. matches[m] # 0
    BY <2>1, TypedTables
  <2>3. m.author \in ReachedAuthors /\ ReachedAuthors \subseteq DOMAIN works
    BY <1>1, <2>1, <2>2 DEF SurveyInv, Surveyed
  <2>4. PICK cap \in caps_used : works[m.author] = Coverage(m.author, cap)
    BY <1>1, <2>3 DEF Inv, Stored, WorksAreWhole
  <2>5. bib_manifest.number \in caps_used /\ IsFiniteSet(caps_used)
    BY <1>1, <2>1 DEF SurveyInv, Surveyed
  <2>6. \E x : caps_used = {x}
    BY <2>1, <2>5, FS_Singleton
  <2>7. cap = bib_manifest.number
    BY <2>5, <2>6
  <2>8. QED
    BY <2>3, <2>4, <2>7
<1>2. QED
  BY <1>1, AlwaysTyped, AlwaysSurveyed, PTL

-----------------------------------------------------------------------------
(* Topic stages nobody overlaps *)

\* A stage that holds nothing, or surveys, has no papers in hand.
LEMMA NothingInHand ==
  ASSUME NEW q, ~ q.alone \/ q.at \notin Ranking
  PROVE  GoesByThePapers(q)'
BY DEF GoesByThePapers

\* The step of one request.
LEMMA TopicStep ==
  ASSUME Inv, TopicInv, NEW k \in Workers, worker[k].at # "idle", NEW q, Become(k, q),
         q.alone => worker[k].alone /\ q.at # "idle", GoesByThePapers(q)',
         FlagsFollowTheMargin', q.at = "insert_flags" => ~ flagged'.alone,
         flagged'.alone => flagged.alone \/ worker[k].alone
  PROVE  TopicInv'
<1>1. Solo'
  BY StepStaysSolo DEF TopicInv
<1>2. worker' = [worker EXCEPT ![k] = q] /\ DOMAIN worker = Workers
  BY DEF Become, Inv, Requests
<1>3. worker'[k] = q /\ \A j \in Workers \ {k} : worker'[j] = worker[j] /\ ~ worker[j].alone
  BY <1>2, NobodyElseIsAlone DEF TopicInv
<1>4. ASSUME NEW j \in Workers PROVE GoesByThePapers(worker[j])'
  <2>1. CASE j = k
    <3>1. GoesByThePapers(worker[j])' <=> GoesByThePapers(q)'
      BY <1>3, <2>1 DEF GoesByThePapers, PapersInHand, FlagsInHand, Settled
    <3>2. QED
      BY <3>1
  <2>2. CASE j # k
    BY <1>3, <2>2 DEF GoesByThePapers
  <2>3. QED
    BY <2>1, <2>2
<1>5. ASSUME NEW j \in Workers, worker'[j].at = "insert_flags" PROVE ~ flagged'.alone
  <2>1. CASE j = k
    BY <1>3, <1>5, <2>1
  <2>2. CASE j # k
    <3>1. worker[j].at = "insert_flags"
      BY <1>3, <1>5, <2>2
    <3>2. ~ flagged.alone
      BY <3>1 DEF TopicInv
    <3>3. ~ worker[k].alone
      BY <2>2, <3>1 DEF TopicInv, Solo
    <3>4. QED
      BY <3>2, <3>3
  <2>3. QED
    BY <2>1, <2>2
<1>6. QED
  BY <1>1, <1>4, <1>5 DEF TopicInv

\* Of one that leaves the flags alone.
LEMMA FlagsStay ==
  ASSUME TopicInv, flags' = flags, flagged' = flagged
  PROVE  FlagsFollowTheMargin'
<1>1. FlagsFollowTheMargin
  BY DEF TopicInv
<1>2. QED
  BY <1>1 DEF FlagsFollowTheMargin, Leads

\* Every step of a survey is one.
LEMMA SurveyKeepsTopic ==
  ASSUME Inv, TypeInv, TopicInv, NEW k \in Workers,
         \/ NextCall(k) \/ RetryGet(k) \/ FailGet(k) \/ Answered(k)
         \/ DeleteWorks(k) \/ InsertWorks(k) \/ NextGroup(k)
         \/ DeleteMatches(k) \/ InsertMatches(k) \/ WriteManifest(k)
  PROVE  TopicInv'
<1>1. PICK r \in WorkerRecords : r = worker[k]
  BY OfTypedRequest
<1>2. r.at \in Surveying /\ flags' = flags /\ flagged' = flagged
  BY <1>1 DEF NextCall, RetryGet, FailGet, Answered, DeleteWorks, InsertWorks, NextGroup,
     DeleteMatches, InsertMatches, WriteManifest, Surveying, Fetching, topic, history
<1> DEFINE Quiet(q) == q = Idle \/ (q.at \in Surveying /\ q.alone = r.alone)
<1>3. \E q : Become(k, q) /\ Quiet(q)
  <2>1. CASE NextCall(k)
    <3>1. PICK rest : \/ Become(k, [r EXCEPT !.calls = rest])
                      \/ Become(k, [r EXCEPT !.at = "get", !.attempt = 0, !.page = 0])
      BY <1>1, <2>1 DEF NextCall
    <3> DEFINE skip == [r EXCEPT !.calls = rest]
               get == [r EXCEPT !.at = "get", !.attempt = 0, !.page = 0]
    <3>2. Quiet(skip) /\ Quiet(get)
      BY <1>2 DEF WorkerRecords, Surveying, Fetching
    <3> HIDE DEF skip, get, Quiet
    <3>3. QED
      BY <3>1, <3>2 DEF skip, get
  <2>2. CASE RetryGet(k)
    <3> DEFINE q == [r EXCEPT !.attempt = @ + 1]
    <3>1. Become(k, q)
      BY <1>1, <2>2 DEF RetryGet
    <3>2. Quiet(q)
      BY <1>2 DEF WorkerRecords
    <3> HIDE DEF q, Quiet
    <3>3. QED
      BY <3>1, <3>2
  <2>3. CASE FailGet(k)
    <3>1. Become(k, Idle)
      BY <2>3 DEF FailGet, End
    <3>2. Quiet(Idle)
      BY Zenon
    <3> HIDE DEF Quiet
    <3>3. QED
      BY <3>1, <3>2
  <2>4. CASE Answered(k)
    <3>1. PICK rest, located, found, calls :
            \/ Become(k, [[r EXCEPT !.at = "next", !.calls = rest] EXCEPT !.located = located])
            \/ Become(k, [[r EXCEPT !.at = "next", !.calls = rest]
                            EXCEPT !.found = found, !.calls = calls])
            \/ Become(k, [r EXCEPT !.at = "delete_works"])
            \/ Become(k, [r EXCEPT !.page = @ + 1, !.attempt = 0])
      <4> DEFINE call == Head(r.calls)
                 rest == Tail(r.calls)
                 done == [r EXCEPT !.at = "next", !.calls = rest]
                 located == IF InstitutionOf[call.of] = NoInstitution
                            THEN done.located ELSE done.located \union {call.of}
                 S == {AuthorWorks(a) : a \in AuthorsOf[call.of]} \ ToSet(done.calls)
                 found == done.found \union ({call.of} \X AuthorsOf[call.of])
                 calls == done.calls \o SetToSeq(S)
      <4>1. \/ Become(k, [done EXCEPT !.located = located])
            \/ Become(k, [done EXCEPT !.found = found, !.calls = calls])
            \/ Become(k, [r EXCEPT !.at = "delete_works"])
            \/ Become(k, [r EXCEPT !.page = @ + 1, !.attempt = 0])
        <5>1. CASE call.kind = "institution"
          BY <1>1, <2>4, <5>1 DEF Answered
        <5>2. CASE call.kind = "authors"
          BY <1>1, <2>4, <5>2 DEF Answered
        <5>3. CASE call.kind = "works" /\ IsLastPage(call.of, r.page, r.cap)
          BY <1>1, <2>4, <5>3 DEF Answered, MoveTo
        <5>4. CASE /\ call.kind # "institution" /\ call.kind # "authors"
                   /\ ~(call.kind = "works" /\ IsLastPage(call.of, r.page, r.cap))
          BY <1>1, <2>4, <5>4 DEF Answered
        <5>5. QED
          BY <5>1, <5>2, <5>3, <5>4
      <4> HIDE DEF rest, located, found, calls
      <4>2. QED
        BY <4>1, Zenon
    <3> DEFINE done == [r EXCEPT !.at = "next", !.calls = rest]
               institution == [done EXCEPT !.located = located]
               authors == [done EXCEPT !.found = found, !.calls = calls]
               last == [r EXCEPT !.at = "delete_works"]
               more == [r EXCEPT !.page = @ + 1, !.attempt = 0]
    <3>2. Quiet(institution)
      BY DEF WorkerRecords, Surveying, Fetching
    <3>3. Quiet(authors)
      BY DEF WorkerRecords, Surveying, Fetching
    <3>4. Quiet(last) /\ Quiet(more)
      BY <1>2 DEF WorkerRecords, Surveying, Fetching
    <3> HIDE DEF institution, authors, last, more, Quiet
    <3>5. QED
      BY <3>1, <3>2, <3>3, <3>4 DEF institution, authors, last, more
  <2>5. CASE DeleteWorks(k) \/ DeleteMatches(k) \/ InsertMatches(k)
    <3>1. PICK label \in {"insert_works", "insert_matches", "write_manifest"} :
            Become(k, [r EXCEPT !.at = label])
      BY <1>1, <2>5 DEF DeleteWorks, DeleteMatches, InsertMatches, MoveTo
    <3> DEFINE q == [r EXCEPT !.at = label]
    <3>2. Quiet(q)
      BY DEF WorkerRecords, Surveying, Fetching
    <3> HIDE DEF q, Quiet
    <3>3. QED
      BY <3>1, <3>2 DEF q
  <2>6. CASE InsertWorks(k)
    <3>1. PICK rest : Become(k, Idle) \/ Become(k, [r EXCEPT !.at = "next", !.calls = rest])
      BY <1>1, <2>6 DEF InsertWorks, End
    <3> DEFINE q == [r EXCEPT !.at = "next", !.calls = rest]
    <3>2. Quiet(q)
      BY DEF WorkerRecords, Surveying, Fetching
    <3>3. Quiet(Idle)
      BY Zenon
    <3> HIDE DEF q, Quiet
    <3>4. QED
      BY <3>1, <3>2, <3>3 DEF q
  <2>7. CASE NextGroup(k)
    <3>1. PICK rows, rest :
            \/ Become(k, [[r EXCEPT !.rows = rows, !.located = rest, !.at_work = {}, !.found = {}]
                            EXCEPT !.at = "delete_matches"])
            \/ \E group, calls :
                 Become(k, [[r EXCEPT !.rows = rows, !.located = rest, !.at_work = {}, !.found = {}]
                              EXCEPT !.at_work = group, !.calls = calls])
      <4> DEFINE stamped(m) == IF m.entity \in r.at_work
                               THEN Cardinality({f \in r.found : f[2] = m.author}) ELSE 0
                 rows == [m \in MatchRows |-> r.rows[m] + stamped(m)]
                 rest == r.located \ r.at_work
                 after == [r EXCEPT !.rows = rows, !.located = rest, !.at_work = {}, !.found = {}]
                 group(i) == {e \in rest : InstitutionOf[e] = i}
                 S(i) == {AuthorSearch(pi) : pi \in UNION {PIsOf[e] : e \in group(i)}}
      <4>1. \/ Become(k, [after EXCEPT !.at = "delete_matches"])
            \/ \E i : Become(k, [after EXCEPT !.at_work = group(i), !.calls = SetToSeq(S(i))])
        <5>1. CASE rest = {}
          BY <1>1, <2>7, <5>1 DEF NextGroup
        <5>2. CASE rest # {}
          BY <1>1, <2>7, <5>2 DEF NextGroup
        <5>3. QED
          BY <5>1, <5>2
      <4> HIDE DEF rows, rest, group, S
      <4>2. QED
        BY <4>1, Zenon
    <3> DEFINE after == [r EXCEPT !.rows = rows, !.located = rest, !.at_work = {}, !.found = {}]
               last == [after EXCEPT !.at = "delete_matches"]
    <3>2. Quiet(last)
      BY DEF WorkerRecords, Surveying, Fetching
    <3>3. ASSUME NEW group, NEW calls
          PROVE  Quiet([after EXCEPT !.at_work = group, !.calls = calls])
      BY <1>2 DEF WorkerRecords, Surveying, Fetching
    <3> HIDE DEF last, Quiet, after
    <3>4. CASE Become(k, last)
      BY <3>2, <3>4
    <3>5. CASE \E group, calls : Become(k, [after EXCEPT !.at_work = group, !.calls = calls])
      BY <3>3, <3>5
    <3>6. Become(k, last) \/ \E group, calls :
                               Become(k, [after EXCEPT !.at_work = group, !.calls = calls])
      BY <3>1, Zenon DEF after, last
    <3>7. QED
      BY <3>4, <3>5, <3>6
  <2>8. CASE WriteManifest(k)
    <3>1. Become(k, Idle)
      BY <2>8 DEF WriteManifest, End
    <3>2. Quiet(Idle)
      BY Zenon
    <3> HIDE DEF Quiet
    <3>3. QED
      BY <3>1, <3>2
  <2>9. QED
    BY <2>1, <2>2, <2>3, <2>4, <2>5, <2>6, <2>7, <2>8
<1>4. PICK q : Become(k, q) /\ Quiet(q)
  BY <1>3
<1>5. ~ Idle.alone /\ Idle.at = "idle"
  BY IdleIsOnTrack
<1>6. /\ q.alone => r.alone /\ q.at # "idle"
      /\ ~ q.alone \/ q.at \notin Ranking
      /\ q.at # "insert_flags"
  BY <1>4, <1>5 DEF Surveying, Fetching, Ranking
<1>7. r.at # "idle"
  BY <1>2 DEF Surveying, Fetching
<1>8. GoesByThePapers(q)'
  BY <1>6, NothingInHand
<1>9. QED
  BY <1>1, <1>2, <1>4, <1>6, <1>7, <1>8, FlagsStay, TopicStep

\* What is known of a topic stage that nobody overlaps, before its step.
LEMMA OfTopicStage ==
  ASSUME Inv, TypeInv, TopicInv, NEW k \in Workers
  PROVE  /\ worker[k] \in WorkerRecords /\ EntityLeft(worker[k]) /\ Sound(worker[k])
         /\ GoesByThePapers(worker[k])
BY OfTypedRequest DEF TopicInv

\* The papers of the next entity, by the matches the stage started with; no
\* work was stored or deleted since.
LEMMA EmbedPapersKeepsTopic ==
  ASSUME Inv, TypeInv, TopicInv, NEW k \in Workers, EmbedPapers(k) PROVE TopicInv'
<1>1. PICK r \in WorkerRecords : r = worker[k] /\ EntityLeft(r) /\ GoesByThePapers(r)
  BY OfTopicStage
<1>2. PICK e, rest, embedded :
        e = Head(r.todo) /\ rest = Tail(r.todo) /\ embedded = PapersOf(e, r.loaded)
  OBVIOUS
<1>3. PICK q : q = [r EXCEPT !.at = "delete_papers", !.at_work = {e}, !.todo = rest,
                             !.embedded = embedded]
  OBVIOUS
<1>4. /\ r.at = "embed" /\ Become(k, q)
      /\ works' = works /\ papers' = papers /\ flags' = flags /\ flagged' = flagged
  BY <1>1, <1>2, <1>3 DEF EmbedPapers, stored, topic, history
<1>5. /\ q.at = "delete_papers" /\ q.at_work = {e} /\ q.todo = rest /\ q.embedded = embedded
      /\ q.before = r.before /\ q.loaded = r.loaded /\ q.flags = r.flags /\ q.alone = r.alone
  BY <1>3 DEF WorkerRecords
<1>6. ToSet(r.todo) = {e} \union ToSet(rest)
  <2>1. r.todo \in Seq(Entities) /\ r.todo # <<>>
    BY <1>1, <1>4 DEF WorkerRecords, EntityLeft
  <2>2. QED
    BY <1>2, <2>1, RestOfSequence
<1>7. ASSUME q.alone PROVE PapersInHand(q)' /\ FlagsInHand(q)'
  <2>1. PapersInHand(r) /\ FlagsInHand(r)
    BY <1>1, <1>4, <1>5, <1>7 DEF GoesByThePapers, Ranking
  <2>2. \A p \in PaperRows : PapersOf(p.match.entity, r.loaded)[p]
                               = PapersOf(p.match.entity, r.loaded)'[p]
    BY <1>4 DEF PapersOf, StoredPapers
  <2>3. \A p \in PaperRows : embedded[p] = IF p.match.entity = e THEN r.before[p] ELSE 0
    <3>1. ASSUME NEW p \in PaperRows
          PROVE  embedded[p] = IF p.match.entity = e THEN r.before[p] ELSE 0
      <4>1. r.before[p] = PapersOf(p.match.entity, r.loaded)[p]
        BY <2>1 DEF PapersInHand
      <4>2. QED
        BY <1>2, <4>1 DEF PapersOf
    <3>2. QED
      BY <3>1
  <2>4. PapersInHand(q)'
    <3>1. \A p \in PaperRows : q.before[p] = PapersOf(p.match.entity, q.loaded)'[p]
      BY <1>5, <2>1, <2>2 DEF PapersInHand
    <3>2. QED
      BY <1>5, <2>3, <3>1 DEF PapersInHand
  <2>5. ASSUME NEW f \in Entities, NEW c \in ToSet(Corpora), Settled(q, f, c)
        PROVE  Settled(r, f, c)
    BY <1>4, <1>5, <1>6, <2>5 DEF Settled
  <2>6. FlagsInHand(q)
    BY <1>5, <2>1, <2>5 DEF FlagsInHand
  <2>7. QED
    BY <2>4, <2>6 DEF FlagsInHand, Settled
<1>8. GoesByThePapers(q)'
  BY <1>7 DEF GoesByThePapers
<1>9. worker[k].at # "idle" /\ (q.alone => worker[k].alone /\ q.at # "idle")
  BY <1>1, <1>4, <1>5
<1>10. QED
  BY <1>4, <1>5, <1>8, <1>9, FlagsStay, TopicStep

\* The rows of the entity go.
LEMMA DeletePapersKeepsTopic ==
  ASSUME Inv, TypeInv, TopicInv, NEW k \in Workers, DeletePapers(k) PROVE TopicInv'
<1>1. PICK r \in WorkerRecords : r = worker[k] /\ GoesByThePapers(r)
  BY OfTopicStage
<1>2. PICK q : q = [r EXCEPT !.at = "insert_papers"]
  OBVIOUS
<1>3. /\ r.at = "delete_papers" /\ Become(k, q)
      /\ works' = works /\ flags' = flags /\ flagged' = flagged
      /\ papers' = [p \in PaperRows |-> IF p.match.entity \in r.at_work THEN 0 ELSE papers[p]]
  BY <1>1, <1>2 DEF DeletePapers, MoveTo, stored, history
<1>4. /\ q.at = "insert_papers" /\ q.at_work = r.at_work /\ q.todo = r.todo
      /\ q.embedded = r.embedded /\ q.before = r.before /\ q.loaded = r.loaded
      /\ q.flags = r.flags /\ q.alone = r.alone
  BY <1>2 DEF WorkerRecords
<1>5. ASSUME q.alone PROVE PapersInHand(q)' /\ FlagsInHand(q)'
  <2>1. PapersInHand(r) /\ FlagsInHand(r)
    BY <1>1, <1>3, <1>4, <1>5 DEF GoesByThePapers, Ranking
  <2>2. \A p \in PaperRows : PapersOf(p.match.entity, r.loaded)[p]
                               = PapersOf(p.match.entity, r.loaded)'[p]
    BY <1>3 DEF PapersOf, StoredPapers
  <2>3. \A p \in PaperRows : q.before[p] = PapersOf(p.match.entity, q.loaded)'[p]
    BY <1>4, <2>1, <2>2 DEF PapersInHand
  <2>4. \A p \in PaperRows : q.embedded[p] = IF p.match.entity \in q.at_work THEN q.before[p] ELSE 0
    BY <1>3, <1>4, <2>1 DEF PapersInHand
  <2>5. \A p \in PaperRows : p.match.entity \in q.at_work => papers'[p] = 0
    BY <1>3, <1>4
  <2>6. PapersInHand(q)'
    BY <1>4, <2>3, <2>4, <2>5 DEF PapersInHand
  <2>7. ASSUME NEW f \in Entities, NEW c \in ToSet(Corpora), Settled(q, f, c)
        PROVE  Settled(r, f, c)
    BY <1>3, <1>4, <2>7 DEF Settled
  <2>8. FlagsInHand(q)
    BY <1>4, <2>1, <2>7 DEF FlagsInHand
  <2>9. QED
    BY <2>6, <2>8 DEF FlagsInHand, Settled
<1>6. GoesByThePapers(q)'
  BY <1>5 DEF GoesByThePapers
<1>7. worker[k].at # "idle" /\ (q.alone => worker[k].alone /\ q.at # "idle")
  BY <1>1, <1>3, <1>4
<1>8. QED
  BY <1>3, <1>4, <1>6, <1>7, FlagsStay, TopicStep

\* Those the stage found are stored in their place.
LEMMA InsertPapersKeepsTopic ==
  ASSUME Inv, TypeInv, TopicInv, NEW k \in Workers, InsertPapers(k) PROVE TopicInv'
<1>1. PICK r \in WorkerRecords : r = worker[k] /\ GoesByThePapers(r)
  BY OfTopicStage
<1>2. PICK q : q = [r EXCEPT !.at = "rank", !.corpora = Corpora]
  OBVIOUS
<1>3. /\ r.at = "insert_papers" /\ Become(k, q)
      /\ works' = works /\ flags' = flags /\ flagged' = flagged
      /\ papers' = [p \in PaperRows |-> papers[p] + r.embedded[p]]
  BY <1>1, <1>2 DEF InsertPapers, stored, history
<1>4. /\ q.at = "rank" /\ q.at_work = r.at_work /\ q.todo = r.todo /\ q.corpora = Corpora
      /\ q.before = r.before /\ q.loaded = r.loaded
      /\ q.flags = r.flags /\ q.alone = r.alone
  BY <1>2 DEF WorkerRecords
<1>5. ASSUME q.alone PROVE PapersInHand(q)' /\ FlagsInHand(q)'
  <2>1. PapersInHand(r) /\ FlagsInHand(r)
    BY <1>1, <1>3, <1>4, <1>5 DEF GoesByThePapers, Ranking
  <2>2. \A p \in PaperRows : PapersOf(p.match.entity, r.loaded)[p]
                               = PapersOf(p.match.entity, r.loaded)'[p]
    BY <1>3 DEF PapersOf, StoredPapers
  <2>3. \A p \in PaperRows : q.before[p] = PapersOf(p.match.entity, q.loaded)'[p]
    BY <1>4, <2>1, <2>2 DEF PapersInHand
  <2>4. ASSUME NEW p \in PaperRows, p.match.entity \in q.at_work
        PROVE  papers'[p] = q.before[p]
    <3>1. papers[p] = 0 /\ r.embedded[p] = r.before[p]
      BY <1>3, <1>4, <2>1, <2>4 DEF PapersInHand
    <3>2. r.before[p] \in Nat
      BY DEF WorkerRecords
    <3>3. papers'[p] = papers[p] + r.embedded[p]
      BY <1>3
    <3>4. QED
      BY <1>4, <3>1, <3>2, <3>3
  <2>5. PapersInHand(q)'
    BY <1>4, <2>3, <2>4 DEF PapersInHand
  <2>6. ASSUME NEW f \in Entities, NEW c \in ToSet(Corpora), Settled(q, f, c)
        PROVE  Settled(r, f, c)
    BY <1>3, <1>4, <2>6 DEF Settled
  <2>7. FlagsInHand(q)
    BY <1>4, <2>1, <2>6 DEF FlagsInHand
  <2>8. QED
    BY <2>5, <2>7 DEF FlagsInHand, Settled
<1>6. GoesByThePapers(q)'
  BY <1>5 DEF GoesByThePapers
<1>7. worker[k].at # "idle" /\ (q.alone => worker[k].alone /\ q.at # "idle")
  BY <1>1, <1>3, <1>4
<1>8. QED
  BY <1>3, <1>4, <1>6, <1>7, FlagsStay, TopicStep

\* The ranking of the entity against a corpus flags what leads by the margin
\* among the papers stored of it: those the stage found.
LEMMA RankKeepsTopic ==
  ASSUME Inv, TypeInv, TopicInv, NEW k \in Workers, Rank(k) PROVE TopicInv'
<1>1. PICK r \in WorkerRecords : r = worker[k] /\ Sound(r) /\ GoesByThePapers(r)
  BY OfTopicStage
<1>2. PICK c, left : c = Head(r.corpora) /\ left = Tail(r.corpora)
  OBVIOUS
<1> DEFINE leaders(e) == {w \in Works : /\ RowsOfPaper(papers, e, w) # {}
                                        /\ RankedLead(c, e, w) >= Margin}
<1>3. PICK earned : earned = UNION {{<<e, w, c>> : w \in leaders(e)} : e \in r.at_work}
  OBVIOUS
<1>4. PICK new, label :
        /\ new = r.flags \union earned
        /\ label = IF left # <<>> THEN "rank" ELSE IF r.todo # <<>> THEN "embed" ELSE "delete_flags"
  OBVIOUS
<1>5. PICK q : q = [r EXCEPT !.flags = new, !.corpora = left, !.at = label]
  OBVIOUS
<1>6. /\ r.at = "rank" /\ Become(k, q)
      /\ works' = works /\ papers' = papers /\ flags' = flags /\ flagged' = flagged
  <2>1. r.at = "rank" /\ UNCHANGED <<stored, topic, history>>
    BY <1>1 DEF Rank
  <2>2. Become(k, q)
    BY <1>1, <1>2, <1>3, <1>4, <1>5 DEF Rank
  <2>3. QED
    BY <2>1, <2>2 DEF stored, topic, history
<1>7. /\ q.at = label /\ q.at_work = r.at_work /\ q.todo = r.todo /\ q.corpora = left
      /\ q.before = r.before /\ q.loaded = r.loaded
      /\ q.flags = new /\ q.alone = r.alone
  BY <1>5 DEF WorkerRecords
<1>8. label \in {"rank", "embed", "delete_flags"} /\ (label # "rank" => left = <<>>)
      /\ (label = "delete_flags" => r.todo = <<>>)
  BY <1>4
<1>9. ToSet(r.corpora) = {c} \union ToSet(left)
  <2>1. r.corpora \in Seq(ToSet(Corpora)) /\ r.corpora # <<>>
    BY <1>1, <1>6 DEF Sound, WorkerRecords
  <2>2. QED
    BY <1>2, <2>1, RestOfSequence
<1>10. ASSUME q.alone PROVE PapersInHand(q)' /\ FlagsInHand(q)'
  <2>1. PapersInHand(r) /\ FlagsInHand(r)
    BY <1>1, <1>6, <1>7, <1>10 DEF GoesByThePapers, Ranking
  <2>2. \A p \in PaperRows : p.match.entity \in r.at_work => papers[p] = r.before[p]
    BY <1>6, <2>1 DEF PapersInHand
  <2>3. \A p \in PaperRows : PapersOf(p.match.entity, r.loaded)[p]
                               = PapersOf(p.match.entity, r.loaded)'[p]
    BY <1>6 DEF PapersOf, StoredPapers
  <2>4. PapersInHand(q)'
    <3>1. \A p \in PaperRows : q.before[p] = PapersOf(p.match.entity, q.loaded)'[p]
      BY <1>7, <2>1, <2>3 DEF PapersInHand
    <3>2. QED
      BY <1>6, <1>7, <1>8, <2>2, <3>1 DEF PapersInHand
  <2>5. ASSUME NEW e \in r.at_work, NEW w
        PROVE  /\ RowsOfPaper(papers, e, w) = RowsOfPaper(r.before, e, w)
               /\ OneRow(papers, e, w) <=> OneRow(r.before, e, w)
    <3>1. RowsOfPaper(papers, e, w) = RowsOfPaper(r.before, e, w)
      BY <2>2 DEF RowsOfPaper
    <3>2. \A p \in RowsOfPaper(papers, e, w) : papers[p] = r.before[p]
      BY <2>2 DEF RowsOfPaper
    <3>3. OneRow(papers, e, w) <=> OneRow(r.before, e, w)
      <4> DEFINE R == RowsOfPaper(papers, e, w)
                 B == RowsOfPaper(r.before, e, w)
      <4>1. R = B /\ \A p \in R : papers[p] = r.before[p]
        BY <3>1, <3>2
      <4>2. /\ OneRow(papers, e, w) <=> \E p \in R : R = {p} /\ papers[p] = 1
            /\ OneRow(r.before, e, w) <=> \E p \in B : B = {p} /\ r.before[p] = 1
        BY DEF OneRow
      <4> HIDE DEF R, B
      <4>3. QED
        BY <4>1, <4>2
    <3>4. QED
      BY <3>1, <3>3
  <2>6. ASSUME NEW e \in r.at_work, NEW w \in Works, Unshared(r.before, e, w)
        PROVE  w \in leaders(e) <=> Best(r.before, e, w, c)
    <3>1. CASE RowsOfPaper(r.before, e, w) = {}
      BY <2>5, <3>1 DEF Best
    <3>2. CASE OneRow(r.before, e, w)
      <4>1. RankedLead(c, e, w) = Lead[c][w]
        BY <2>5, <3>2 DEF RankedLead
      <4>2. QED
        BY <2>5, <4>1 DEF Best
    <3>3. QED
      BY <2>6, <3>1, <3>2 DEF Unshared
  <2>7. ASSUME NEW e \in Entities, NEW w \in Works, NEW d \in ToSet(Corpora),
               Unshared(r.before, e, w)
        PROVE  /\ <<e, w, d>> \in new => Best(r.before, e, w, d)
               /\ Settled(q, e, d) /\ Best(r.before, e, w, d) => <<e, w, d>> \in new
    <3>1. <<e, w, d>> \in earned <=> e \in r.at_work /\ d = c /\ w \in leaders(e)
      <4> HIDE DEF leaders
      <4>1. QED
        BY <1>3
    <3>2. /\ <<e, w, d>> \in r.flags => Best(r.before, e, w, d)
          /\ Settled(r, e, d) /\ Best(r.before, e, w, d) => <<e, w, d>> \in r.flags
      BY <2>1, <2>7 DEF FlagsInHand
    <3>3. e \in r.at_work => (w \in leaders(e) <=> Best(r.before, e, w, c))
      BY <2>6, <2>7
    <3>4. Settled(q, e, d) => Settled(r, e, d) \/ (e \in r.at_work /\ d = c)
      <4>1. left = <<>> => ToSet(left) = {}
        BY DEF ToSet
      <4>2. QED
        BY <1>6, <1>7, <1>8, <1>9, <4>1 DEF Settled
    <3> HIDE DEF leaders
    <3>5. QED
      BY <1>4, <3>1, <3>2, <3>3, <3>4
  <2>8. FlagsInHand(q)
    <3> HIDE DEF leaders
    <3>1. q.at \in {"delete_flags", "insert_flags", "write_topic_manifest"} => q.todo = <<>>
      BY <1>7, <1>8
    <3>2. QED
      BY <1>7, <2>7, <3>1 DEF FlagsInHand
  <2>9. QED
    BY <2>4, <2>8 DEF FlagsInHand, Settled
<1>11. GoesByThePapers(q)'
  BY <1>10 DEF GoesByThePapers
<1>12. worker[k].at # "idle" /\ q.at # "insert_flags" /\ (q.alone => worker[k].alone /\ q.at # "idle")
  BY <1>1, <1>6, <1>7, <1>8
<1>13. QED
  BY <1>6, <1>11, <1>12, FlagsStay, TopicStep

\* The flags of an earlier stage go, and what they went by with them.
LEMMA DeleteFlagsKeepsTopic ==
  ASSUME Inv, TypeInv, TopicInv, NEW k \in Workers, DeleteFlags(k) PROVE TopicInv'
<1>1. PICK r \in WorkerRecords : r = worker[k] /\ GoesByThePapers(r)
  BY OfTopicStage
<1>2. PICK q : q = [r EXCEPT !.at = "insert_flags"]
  OBVIOUS
<1>3. /\ r.at = "delete_flags" /\ Become(k, q)
      /\ works' = works /\ papers' = papers
      /\ flags' = [t \in FlagRows |-> 0] /\ flagged' = NoFlags
  BY <1>1, <1>2 DEF DeleteFlags, MoveTo, stored
<1>4. /\ q.at = "insert_flags" /\ q.at_work = r.at_work /\ q.todo = r.todo
      /\ q.before = r.before /\ q.loaded = r.loaded
      /\ q.flags = r.flags /\ q.alone = r.alone
  BY <1>2 DEF WorkerRecords
<1>5. ~ flagged'.alone
  BY <1>3 DEF NoFlags
<1>6. FlagsFollowTheMargin'
  BY <1>5 DEF FlagsFollowTheMargin
<1>7. ASSUME q.alone PROVE PapersInHand(q)' /\ FlagsInHand(q)'
  <2>1. PapersInHand(r) /\ FlagsInHand(r)
    BY <1>1, <1>3, <1>4, <1>7 DEF GoesByThePapers, Ranking
  <2>2. \A p \in PaperRows : PapersOf(p.match.entity, r.loaded)[p]
                               = PapersOf(p.match.entity, r.loaded)'[p]
    BY <1>3 DEF PapersOf, StoredPapers
  <2>3. \A p \in PaperRows : q.before[p] = PapersOf(p.match.entity, q.loaded)'[p]
    BY <1>4, <2>1, <2>2 DEF PapersInHand
  <2>4. PapersInHand(q)'
    BY <1>3, <1>4, <2>3 DEF PapersInHand
  <2>5. ASSUME NEW f \in Entities, NEW c \in ToSet(Corpora), Settled(q, f, c)
        PROVE  Settled(r, f, c)
    BY <1>3, <1>4, <2>5 DEF Settled
  <2>6. FlagsInHand(q)
    BY <1>3, <1>4, <2>1, <2>5 DEF FlagsInHand
  <2>7. QED
    BY <2>4, <2>6 DEF FlagsInHand, Settled
<1>8. GoesByThePapers(q)'
  BY <1>7 DEF GoesByThePapers
<1>9. worker[k].at # "idle" /\ (q.alone => worker[k].alone /\ q.at # "idle")
  BY <1>1, <1>3, <1>4
<1>10. QED
  BY <1>3, <1>5, <1>6, <1>8, <1>9, TopicStep

\* Those of this one are added: to none, if nobody overlapped it.
LEMMA InsertFlagsKeepsTopic ==
  ASSUME Inv, TypeInv, TopicInv, NEW k \in Workers, InsertFlags(k) PROVE TopicInv'
<1>1. PICK r \in WorkerRecords : r = worker[k] /\ GoesByThePapers(r)
  BY OfTopicStage
<1>2. PICK q : q = [r EXCEPT !.at = "write_topic_manifest"]
  OBVIOUS
<1>3. /\ r.at = "insert_flags" /\ Become(k, q)
      /\ works' = works /\ papers' = papers
      /\ flags' = [t \in FlagRows |-> IF t \in r.flags THEN flags[t] + 1 ELSE flags[t]]
      /\ flagged' = [papers |-> r.before, alone |-> r.alone]
  BY <1>1, <1>2 DEF InsertFlags, MoveTo, stored
<1>4. /\ q.at = "write_topic_manifest" /\ q.at_work = r.at_work /\ q.todo = r.todo
      /\ q.before = r.before /\ q.loaded = r.loaded
      /\ q.flags = r.flags /\ q.alone = r.alone
  BY <1>2 DEF WorkerRecords
<1>5. flagged'.papers = r.before /\ flagged'.alone = r.alone
  BY <1>3
<1>6. ASSUME r.alone PROVE PapersInHand(r) /\ FlagsInHand(r)
  BY <1>1, <1>3, <1>6 DEF GoesByThePapers, Ranking
<1>7. FlagsFollowTheMargin'
  <2>1. SUFFICES ASSUME r.alone, NEW e \in Entities, NEW w \in Works, NEW c \in ToSet(Corpora),
                        Unshared(r.before, e, w)
                 PROVE  flags'[<<e, w, c>>] = IF Best(r.before, e, w, c) THEN 1 ELSE 0
    BY <1>5 DEF FlagsFollowTheMargin, Leads, Unshared, Best
  <2>2. <<e, w, c>> \in FlagRows
    BY DEF FlagRows
  <2>3. flags[<<e, w, c>>] = 0
    BY <1>3, <1>6, <2>1, <2>2 DEF PapersInHand
  <2>4. Settled(r, e, c)
    <3>1. r.todo = <<>>
      BY <1>3, <1>6, <2>1 DEF FlagsInHand
    <3>2. e \notin ToSet(r.todo)
      BY <3>1 DEF ToSet
    <3>3. QED
      BY <1>3, <3>2 DEF Settled
  <2>5. <<e, w, c>> \in r.flags <=> Best(r.before, e, w, c)
    BY <1>6, <2>1, <2>4 DEF FlagsInHand
  <2>6. flags'[<<e, w, c>>] = IF <<e, w, c>> \in r.flags THEN 1 ELSE 0
    BY <1>3, <2>2, <2>3
  <2>7. QED
    BY <2>5, <2>6
<1>8. ASSUME q.alone PROVE PapersInHand(q)' /\ FlagsInHand(q)'
  <2>1. PapersInHand(r) /\ FlagsInHand(r)
    BY <1>4, <1>6, <1>8
  <2>2. \A p \in PaperRows : PapersOf(p.match.entity, r.loaded)[p]
                               = PapersOf(p.match.entity, r.loaded)'[p]
    BY <1>3 DEF PapersOf, StoredPapers
  <2>3. \A p \in PaperRows : q.before[p] = PapersOf(p.match.entity, q.loaded)'[p]
    BY <1>4, <2>1, <2>2 DEF PapersInHand
  <2>4. PapersInHand(q)'
    BY <1>4, <2>3 DEF PapersInHand
  <2>5. ASSUME NEW f \in Entities, NEW c \in ToSet(Corpora), Settled(q, f, c)
        PROVE  Settled(r, f, c)
    BY <1>3, <1>4, <2>5 DEF Settled
  <2>6. FlagsInHand(q)
    BY <1>3, <1>4, <2>1, <2>5 DEF FlagsInHand
  <2>7. QED
    BY <2>4, <2>6 DEF FlagsInHand, Settled
<1>9. GoesByThePapers(q)'
  BY <1>8 DEF GoesByThePapers
<1>10. worker[k].at # "idle" /\ (q.alone => worker[k].alone /\ q.at # "idle")
  BY <1>1, <1>3, <1>4
<1>11. flagged'.alone => flagged.alone \/ worker[k].alone
  BY <1>1, <1>5
<1>12. q.at # "insert_flags"
  BY <1>4
<1>13. QED
  BY <1>3, <1>7, <1>9, <1>10, <1>11, <1>12, TopicStep

\* The count is recorded, and the stage is over.
LEMMA WriteTopicManifestKeepsTopic ==
  ASSUME Inv, TypeInv, TopicInv, NEW k \in Workers, WriteTopicManifest(k) PROVE TopicInv'
<1>1. worker[k].at # "idle" /\ Become(k, Idle) /\ flags' = flags /\ flagged' = flagged
  BY DEF WriteTopicManifest, End, history
<1>2. PICK q : q = Idle
  OBVIOUS
<1>3. ~ q.alone /\ q.at # "insert_flags"
  BY <1>2 DEF Idle
<1>4. GoesByThePapers(q)'
  BY <1>3, NothingInHand
<1>5. QED
  BY <1>1, <1>2, <1>3, <1>4, FlagsStay, TopicStep

\* A stage starts: what it has in hand goes by the papers it finds, and the
\* others are no longer alone.
LEMMA BeginKeepsTopic ==
  ASSUME Inv, TypeInv, TopicInv, NEW k \in Workers, NEW q \in WorkerRecords, Begin(k, q),
         works' = works, papers' = papers, flags' = flags, flagged' = flagged,
         q.at = "next" \/ q.at = "embed",
         q.at = "embed" => PapersInHand(q) /\ FlagsInHand(q)
  PROVE  TopicInv'
<1>1. q.at # "idle"
  OBVIOUS
<1>2. /\ Solo' /\ worker'[k] = [q EXCEPT !.alone = (Others(k) = {})]
      /\ \A j \in Workers \ {k} :
           /\ ~ worker'[j].alone
           /\ worker'[j] = [worker[j] EXCEPT !.alone = FALSE] \/ worker'[j] = worker[j]
  BY <1>1, BeginStaysSolo DEF TopicInv
<1>3. PICK p : p = worker'[k]
  OBVIOUS
<1>4. /\ p.at = q.at /\ p.at_work = q.at_work /\ p.todo = q.todo /\ p.corpora = q.corpora
      /\ p.before = q.before /\ p.loaded = q.loaded /\ p.flags = q.flags
  <2>1. PICK b \in BOOLEAN : p = [q EXCEPT !.alone = b]
    <3>1. (Others(k) = {}) \in BOOLEAN
      OBVIOUS
    <3>2. QED
      BY <1>2, <1>3, <3>1
  <2>2. QED
    BY <2>1 DEF WorkerRecords
<1>5. GoesByThePapers(p)'
  <2>1. ASSUME q.at = "embed" PROVE PapersInHand(p)' /\ FlagsInHand(p)'
    <3>1. PapersInHand(q) /\ FlagsInHand(q)
      BY <2>1
    <3>2. \A r \in PaperRows : PapersOf(r.match.entity, q.loaded)[r]
                                 = PapersOf(r.match.entity, q.loaded)'[r]
      BY DEF PapersOf, StoredPapers
    <3>3. \A r \in PaperRows : p.before[r] = PapersOf(r.match.entity, p.loaded)'[r]
      BY <1>4, <3>1, <3>2 DEF PapersInHand
    <3>4. PapersInHand(p)'
      BY <1>4, <2>1, <3>3 DEF PapersInHand
    <3>5. FlagsInHand(p)
      BY <1>4, <2>1, <3>1 DEF FlagsInHand, Settled
    <3>6. QED
      BY <3>4, <3>5 DEF FlagsInHand, Settled
  <2>2. CASE q.at = "embed"
    BY <2>1, <2>2 DEF GoesByThePapers
  <2>3. CASE q.at = "next"
    BY <1>4, <2>3 DEF GoesByThePapers, Ranking
  <2>4. QED
    BY <2>2, <2>3
<1>6. ASSUME NEW j \in Workers
      PROVE  /\ GoesByThePapers(worker[j])'
             /\ worker'[j].at = "insert_flags" => ~ flagged'.alone
  <2>1. CASE j = k
    <3>1. GoesByThePapers(worker[j])' <=> GoesByThePapers(p)'
      BY <1>3, <2>1 DEF GoesByThePapers, PapersInHand, FlagsInHand, Settled
    <3>2. worker'[j].at # "insert_flags"
      BY <1>3, <1>4, <2>1
    <3>3. QED
      BY <1>5, <3>1, <3>2
  <2>2. CASE j # k
    <3>1. ~ worker'[j].alone
      BY <1>2, <2>2
    <3>2. worker'[j].at = worker[j].at
      <4>1. worker[j] \in WorkerRecords
        BY OfTypedRequest
      <4>2. worker'[j] = [worker[j] EXCEPT !.alone = FALSE] \/ worker'[j] = worker[j]
        BY <1>2, <2>2
      <4>3. QED
        BY <4>1, <4>2 DEF WorkerRecords
    <3>3. GoesByThePapers(worker[j])'
      BY <3>1 DEF GoesByThePapers
    <3>4. QED
      BY <3>2, <3>3 DEF TopicInv
  <2>3. QED
    BY <2>1, <2>2
<1>7. QED
  BY <1>2, <1>6, FlagsStay DEF TopicInv

\* Beginning a bibliometric stage keeps the topic invariant.
LEMMA EnrichBibliometricKeepsTopic ==
  ASSUME Inv, TypeInv, TopicInv, NEW k \in Workers, NEW cap \in Caps,
         EnrichBibliometric(k, cap)
  PROVE  TopicInv'
<1>1. PICK calls : calls = SetToSeq({Institution(e) : e \in Entities})
  OBVIOUS
<1>2. calls \in Seq(Calls)
  BY <1>1, CallsInOrder, CallsOf
<1>3. PICK q : q = [Idle EXCEPT !.at = "next", !.cap = cap, !.calls = calls]
  OBVIOUS
<1>4. /\ Begin(k, q)
      /\ works' = works /\ papers' = papers /\ flags' = flags /\ flagged' = flagged
  BY <1>1, <1>3 DEF EnrichBibliometric, stored, topic
<1>5. cap \in Nat
  BY Inputs
<1>6. q \in WorkerRecords /\ q.at = "next"
  BY <1>2, <1>3, <1>5, IdleIsTyped DEF WorkerRecords
<1>7. QED
  BY <1>4, <1>6, BeginKeepsTopic

\* The papers a stage finds are those of entities that are still to do.
LEMMA EnrichTopicSimilarityKeepsTopic ==
  ASSUME Inv, TypeInv, TopicInv, NEW k \in Workers, EnrichTopicSimilarity(k)
  PROVE  TopicInv'
<1> DEFINE E == {m.entity : m \in {n \in MatchRows : matches[n] > 0}}
<1>1. PICK todo, before, loaded :
        /\ todo = SetToSeq(E) /\ loaded = matches
        /\ before = [r \in PaperRows |-> PapersOf(r.match.entity, matches)[r]]
  OBVIOUS
<1>2. PICK q : q = [Idle EXCEPT !.at = "embed", !.loaded = loaded, !.todo = todo,
                                !.before = before]
  OBVIOUS
<1>3. /\ Begin(k, q)
      /\ works' = works /\ papers' = papers /\ flags' = flags /\ flagged' = flagged
  BY <1>1, <1>2 DEF EnrichTopicSimilarity, stored, topic, history
<1>4. loaded \in [MatchRows -> Nat]
  BY <1>1, TypedTables
<1>5. todo \in Seq(Entities) /\ ToSet(todo) = E
  <2>1. E \subseteq Entities
    BY DEF MatchRows
  <2> HIDE DEF E
  <2>2. IsFiniteSet(E)
    BY <2>1, Inputs, FS_Subset
  <2>3. SetToSeq(E) \in Seq(E) /\ ToSet(SetToSeq(E)) = E
    BY <2>2, SetAsSequence
  <2>4. QED
    BY <1>1, <2>1, <2>3
<1>6. before \in [PaperRows -> Nat]
  BY <1>1, <1>4, PapersAreCounted
<1>7. /\ q \in WorkerRecords /\ q.at = "embed" /\ q.loaded = loaded /\ q.todo = todo
      /\ q.before = before /\ q.flags = Idle.flags /\ q.at_work = Idle.at_work
  BY <1>2, <1>4, <1>5, <1>6, IdleIsTyped DEF WorkerRecords
<1>8. q.flags = {} /\ q.at_work = {}
  BY <1>7 DEF Idle
<1>9. PapersInHand(q)
  <2>1. \A r \in PaperRows : before[r] = PapersOf(r.match.entity, loaded)[r]
    BY <1>1
  <2>2. QED
    BY <1>7, <2>1 DEF PapersInHand
<1>10. ASSUME NEW e \in Entities, NEW w \in Works, RowsOfPaper(before, e, w) # {}
       PROVE  e \in E
  <2>1. PICK r \in PaperRows : r.match.entity = e /\ before[r] > 0
    BY <1>10 DEF RowsOfPaper
  <2>2. r.match \in MatchRows
    BY DEF PaperRows
  <2>3. before[r] \in {loaded[r.match], 0}
    BY <1>1 DEF PapersOf
  <2>4. matches[r.match] > 0
    BY <1>1, <1>4, <2>1, <2>2, <2>3
  <2>5. QED
    BY <2>1, <2>2, <2>4
<1> HIDE DEF E
<1>11. FlagsInHand(q)
  BY <1>5, <1>7, <1>8, <1>10 DEF FlagsInHand, Settled, Best
<1>12. QED
  BY <1>3, <1>7, <1>9, <1>11, BeginKeepsTopic

\* The process dies: amid an insert of flags, what they went by is gone already.
LEMMA CrashKeepsTopic ==
  ASSUME Inv, TypeInv, TopicInv, Crash \/ \E k \in Workers : CrashAmidInsert(k)
  PROVE  TopicInv'
<1>1. worker' = [k \in Workers |-> Idle] /\ flagged' = flagged
  BY DEF Crash, CrashAmidInsert, history
<1>2. flags' = flags \/ \E k \in Workers : worker[k].at = "insert_flags"
  BY DEF Crash, CrashAmidInsert, topic
<1>3. FlagsFollowTheMargin'
  <2>1. CASE flags' = flags
    BY <1>1, <2>1, FlagsStay
  <2>2. CASE \E k \in Workers : worker[k].at = "insert_flags"
    <3>1. ~ flagged'.alone
      BY <1>1, <2>2 DEF TopicInv
    <3>2. QED
      BY <3>1 DEF FlagsFollowTheMargin
  <2>3. QED
    BY <1>2, <2>1, <2>2
<1>4. \A k \in Workers : ~ worker'[k].alone /\ worker'[k].at = "idle"
  BY <1>1, IdleIsOnTrack
<1>5. \A k \in Workers : GoesByThePapers(worker[k])'
  BY <1>4 DEF GoesByThePapers
<1>6. Solo'
  BY <1>4 DEF Solo
<1>7. QED
  BY <1>3, <1>4, <1>5, <1>6 DEF TopicInv

\* The first state keeps the topic invariant: no stage runs and none has flagged alone.
LEMMA InitFollowsTheMargin == ASSUME Init PROVE TopicInv
<1>1. \A k \in Workers : ~ worker[k].alone /\ worker[k].at = "idle"
  BY IdleIsOnTrack DEF Init
<1>2. ~ flagged.alone
  BY DEF Init, NoFlags
<1>3. QED
  BY <1>1, <1>2 DEF TopicInv, Solo, FlagsFollowTheMargin, GoesByThePapers

\* No step of a stage, no request and no crash breaks the topic invariant.
LEMMA StepKeepsTopic == ASSUME Inv, TypeInv, TopicInv, [Next]_vars PROVE TopicInv'
<1>1. CASE UNCHANGED vars
  <2>1. /\ works' = works /\ papers' = papers /\ flags' = flags /\ worker' = worker
        /\ flagged' = flagged
    BY <1>1 DEF vars, stored, topic, history
  <2>2. FlagsFollowTheMargin'
    BY <2>1, FlagsStay
  <2>3. ASSUME NEW k \in Workers PROVE GoesByThePapers(worker[k])'
    <3>1. GoesByThePapers(worker[k])
      BY DEF TopicInv
    <3>2. QED
      BY <2>1, <3>1 DEF GoesByThePapers, PapersInHand, FlagsInHand, Settled, PapersOf, StoredPapers
  <2>4. QED
    BY <2>1, <2>2, <2>3 DEF TopicInv, Solo
<1>2. CASE \E k \in Workers, cap \in Caps : EnrichBibliometric(k, cap)
  BY <1>2, EnrichBibliometricKeepsTopic
<1>3. CASE \E k \in Workers : EnrichTopicSimilarity(k)
  BY <1>3, EnrichTopicSimilarityKeepsTopic
<1>4. ASSUME NEW k \in Workers, Step(k) PROVE TopicInv'
  BY <1>4, SurveyKeepsTopic, EmbedPapersKeepsTopic, DeletePapersKeepsTopic,
     InsertPapersKeepsTopic, RankKeepsTopic, DeleteFlagsKeepsTopic, InsertFlagsKeepsTopic,
     WriteTopicManifestKeepsTopic DEF Step
<1>5. CASE Crash \/ \E k \in Workers : CrashAmidInsert(k)
  BY <1>5, CrashKeepsTopic
<1>6. QED
  BY <1>1, <1>2, <1>3, <1>4, <1>5 DEF Next

\* A topic stage nobody overlaps ranks the papers it found when it began, and
\* has in hand the flags they give of what it ranked.
THEOREM AlwaysByThePapers == Spec => []TopicInv
<1>1. Init => TopicInv
  BY InitFollowsTheMargin
<1>2. Inv /\ TypeInv /\ TopicInv /\ [Next]_vars => TopicInv'
  BY StepKeepsTopic
<1>3. QED
  BY <1>1, <1>2, AlwaysTyped, PTL DEF Spec

\* A stage nobody overlapped has flagged each paper that leads by the margin
\* once and no other, whatever ran or died before it, for any papers, margins
\* and corpora, as long as one author row of the entity has the paper
\* (enrich_topic_similarity, _rank_against_corpus).
THEOREM FlagsAlwaysFollowTheMargin == Spec => []FlagsFollowTheMargin
<1>1. TopicInv => FlagsFollowTheMargin
  BY DEF TopicInv
<1>2. QED
  BY <1>1, AlwaysByThePapers, PTL
=============================================================================
