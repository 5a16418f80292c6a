------------------------- MODULE ScreeningRunProofs -------------------------
(***************************************************************************)
(* What holds of a run however the requests that build and enrich it       *)
(* overlap, for any number of requests, entities, hits and authors.        *)
(***************************************************************************)
EXTENDS ScreeningRun, TLAPS

(***************************************************************************)
(* A request stands at a statement of its stage, and has only hits of that *)
(* stage to insert.                                                        *)
(***************************************************************************)
Standing(q) ==
  /\ q.at \in ScreeningLabels => q.stage = "screening"
  /\ q.at \in OwnershipLabels \union {"load_lei"} => q.stage = "ownership"
  /\ q.at \in BibliometricLabels => q.stage = "bibliometric"
  /\ q.at \in {"delete_hits", "insert_hits"} => q.stage \in {"screening", "bibliometric"}
  /\ q.at = "idle" => q.stage = "none"
  /\ q.then # "screening"
  /\ q.at = "load_lei" => q.matches = {} /\ q.flags = {}
  /\ q.stage = "bibliometric" => q.hits \subseteq {"bibliometric"} \X Entities
  /\ q.stage = "screening" =>
       /\ q.hits \subseteq ScreeningHits
       /\ q.at \in {"insert_raw", "insert_entities", "delete_hits"} => q.hits = ScreeningHits
       /\ q.at \in {"insert_raw", "delete_hits", "insert_hits"} => q.next = 1

\* Past the raw tables, they have their rows.
Loaded(q) == q.stage = "screening" /\ q.at # "insert_raw" => raw # 0

Placed == \A r \in Requests : Standing(request[r]) /\ Loaded(request[r])

\* The rows of the screening itself: none yet, some, or all of them.
HitsAre(S) ==
  \A h \in HitRows : h[1] # "bibliometric" => hits[h] = IF h \in S THEN 1 ELSE 0

ScoresBefore(n) == \A e \in Entities : scored[e] = IF e < n THEN 1 ELSE 0

\* A request that is past the entities of the run it builds.
Past(q) == q.stage = "screening" /\ q.at \notin {"insert_raw", "insert_entities"}

\* One that has inserted the first entity, so that no other will.
Ahead(q) == Past(q) \/ (q.at = "insert_entities" /\ q.next # 1)

\* The tables hold what it has inserted so far.
Progress(q) ==
  /\ q.at = "insert_entities" =>
       resolved = 1..(q.next - 1) /\ HitsAre({}) /\ ScoresBefore(1)
  /\ Past(q) =>
       /\ resolved = Entities
       /\ q.at = "delete_hits" => HitsAre({}) /\ ScoresBefore(1)
       /\ q.at = "insert_hits" => HitsAre(ScreeningHits \ q.hits) /\ ScoresBefore(1)
       /\ q.at = "insert_scored" => HitsAre(ScreeningHits) /\ ScoresBefore(q.next)
       /\ q.at = "write_manifest" => HitsAre(ScreeningHits) /\ ScoresBefore(NumEntities + 1)

(***************************************************************************)
(* At most one builder is past the first entity: the key of                *)
(* resolved_entities ends the others. What it builds is no run yet.        *)
(***************************************************************************)
Built ==
  /\ \A r, s \in Requests : Ahead(request[r]) /\ Ahead(request[s]) => r = s
  /\ 1 \notin resolved => resolved = {} /\ HitsAre({}) /\ ScoresBefore(1) /\ ~manifest
  /\ \A r \in Requests : Ahead(request[r]) =>
       ~manifest /\ 1 \in resolved /\ Progress(request[r])

(***************************************************************************)
(* The works of an author are stored, or about to be.                      *)
(***************************************************************************)
Covered(a) ==
  \/ a \in works
  \/ \E r \in Requests : At(r, "insert_works") /\ a \in request[r].author

\* A request has looked at the works of the authors it is done with.
Looked(q) ==
  /\ q.at \in {"load_works", "delete_works", "insert_works"} =>
       \A a \in q.found \ q.todo : Covered(a)
  /\ q.at \in {"delete_authors", "insert_authors"} => \A a \in q.found : Covered(a)
  /\ q.at = "insert_authors" => q.todo \subseteq q.found

WorksKept ==
  crashes = 0 =>
    /\ \A a \in authors : Covered(a)
    /\ \A r \in Requests : Looked(request[r])

\* Numbers of enrichments are fresh, and the manifest has one of the past.
Numbered ==
  /\ gleif_manifest <= enrichments /\ latest <= enrichments
  /\ \A r \in Requests :
       /\ request[r].number <= enrichments
       /\ request[r].number # 0 => request[r].number # gleif_manifest
       /\ request[r].stage = "ownership" \/ request[r].then = "ownership" =>
            request[r].number # 0
  /\ \A r, s \in Requests :
       request[r].number # 0 /\ request[r].number = request[s].number => r = s

\* Rows of the latest enrichment, from its own loads.
Own(rows) == \A row \in rows : row.by = latest /\ row.loads = {latest}

\* A request that no other load met works on its own data alone.
Alone(q) ==
  /\ q.number = latest
  /\ gleif_lei = latest
  /\ q.at # "load_relationships" => gleif_relationships = latest
  /\ Own(q.matches) /\ Own(q.flags)
  /\ q.at \in {"insert_matches", "delete_flags", "insert_flags",
               "write_gleif_manifest"} => Own(lei_matches)
  /\ q.at \in {"insert_flags", "write_gleif_manifest"} => Own(ownership_flags)

(***************************************************************************)
(* While no other load meets the latest enrichment, it is the only one,    *)
(* and what it read and wrote is its own.                                  *)
(***************************************************************************)
OwnedAlone ==
  ~overlapped =>
    /\ \A r, s \in Requests : Owning(r) /\ Owning(s) => r = s
    /\ \A r \in Requests : Owning(r) => Alone(request[r])
    /\ gleif_manifest = latest => Own(lei_matches \union ownership_flags)

IInv ==
  /\ RunTypeOK /\ Placed /\ Built /\ ManifestMeansWhole
  /\ WorksKept /\ Numbered /\ OwnedAlone
-----------------------------------------------------------------------------
(***************************************************************************)
(* There is a first entity.                                                *)
(***************************************************************************)
LEMMA FirstEntity == NumEntities \in Nat /\ 1 \in Entities
BY InputAssumption DEF Entities

\* Request r becomes q, and the others stay where they are.
Moves(r, q) ==
  /\ q \in RequestRecords
  /\ request' = [request EXCEPT ![r] = q]

(***************************************************************************)
(* What the move of one request leaves of the others.                      *)
(***************************************************************************)
LEMMA Stepping ==
  ASSUME RunTypeOK, NEW r \in Requests, NEW q, Moves(r, q)
  PROVE  /\ request' \in [Requests -> RequestRecords]
         /\ request'[r] = q
         /\ \A s \in Requests : s # r => request'[s] = request[s]
BY DEF Moves, RunTypeOK

(***************************************************************************)
(* A request at rest is a record, and so is each in progress.              *)
(***************************************************************************)
LEMMA Records ==
  ASSUME RunTypeOK
  PROVE  Idle \in RequestRecords /\ \A r \in Requests : request[r] \in RequestRecords
BY InputAssumption DEF RunTypeOK, Idle, RequestRecords, Labels, ScreeningLabels,
  OwnershipLabels, BibliometricLabels, Stages, Entities

(***************************************************************************)
(* A response or an exception ends the request.                            *)
(***************************************************************************)
LEMMA EndsMoves ==
  ASSUME RunTypeOK, NEW r \in Requests, Ends(r)
  PROVE  Moves(r, Idle)
BY Records DEF Ends, Moves

\* The request a Visit starts.
Visitor(stage) ==
  [Idle EXCEPT !.at = "insert_raw", !.stage = "screening", !.then = stage,
               !.hits = ScreeningHits,
               !.number = IF stage = "none" THEN 0 ELSE enrichments + 1]

(***************************************************************************)
(* A route finds no manifest and starts the screening (run_screening).     *)
(***************************************************************************)
LEMMA VisitMoves ==
  ASSUME RunTypeOK, NEW r \in Requests,
         NEW stage \in {"none", "ownership", "bibliometric"}, Visit(r, stage)
  PROVE  Moves(r, Visitor(stage))
<1>1. ScreeningHits \in SUBSET HitRows
  BY InputAssumption DEF HitRows, Producers
<1>2. (IF stage = "none" THEN 0 ELSE enrichments + 1) \in Nat
  BY DEF RunTypeOK
<1>3. Visitor(stage) \in RequestRecords
  BY <1>1, <1>2, Records DEF Visitor, RequestRecords, Idle, Labels, ScreeningLabels, Stages
<1>4. request' = [request EXCEPT ![r] = Visitor(stage)]
  BY DEF Visit, Visitor
<1> QED
  BY <1>3, <1>4 DEF Moves

\* The request that an enrichment, or a screening that goes on to it, becomes.
Enricher(stage, number) ==
  [Idle EXCEPT !.at = FirstOf(stage), !.stage = stage, !.number = number]

(***************************************************************************)
(* An enrichment begins with the first statement of its stage.             *)
(***************************************************************************)
LEMMA EnricherIsARecord ==
  ASSUME RunTypeOK, NEW stage \in Stages, NEW number \in Nat
  PROVE  Enricher(stage, number) \in RequestRecords
BY Records DEF Enricher, RequestRecords, Idle, Labels, BibliometricLabels, FirstOf

(***************************************************************************)
(* A route finds the manifest and starts its stage.                        *)
(***************************************************************************)
LEMMA EnrichMoves ==
  ASSUME RunTypeOK, NEW r \in Requests, NEW stage \in {"ownership", "bibliometric"},
         Enrich(r, stage)
  PROVE  Moves(r, Enricher(stage, enrichments + 1))
<1>1. Enricher(stage, enrichments + 1) \in RequestRecords
  BY EnricherIsARecord DEF RunTypeOK, Stages
<1> QED
  BY <1>1 DEF Enrich, Enricher, Moves

\* Request r at another label.
To(r, label) == [request[r] EXCEPT !.at = label]

(***************************************************************************)
(* A statement that changes no variable of the thread.                     *)
(***************************************************************************)
LEMMA GoesToMoves ==
  ASSUME RunTypeOK, NEW r \in Requests, NEW label \in Labels, GoesTo(r, label)
  PROVE  Moves(r, To(r, label))
<1>1. To(r, label) \in RequestRecords
  BY Records DEF To, RequestRecords
<1> QED
  BY <1>1 DEF GoesTo, To, Moves

\* Request r at the next entity, or past the last one at label.
Onward(r, label) ==
  IF request[r].next = NumEntities
  THEN [request[r] EXCEPT !.at = label, !.next = 1]
  ELSE [request[r] EXCEPT !.next = @ + 1]

(***************************************************************************)
(* The loop over the entities.                                             *)
(***************************************************************************)
LEMMA NextEntityMoves ==
  ASSUME RunTypeOK, NEW r \in Requests, NEW label \in Labels, NextEntity(r, label)
  PROVE  Moves(r, Onward(r, label))
<1>1. CASE request[r].next = NumEntities
  <2>1. Onward(r, label) \in RequestRecords
    BY <1>1, Records, FirstEntity DEF Onward, RequestRecords
  <2>2. request' = [request EXCEPT ![r] = Onward(r, label)]
    BY <1>1 DEF NextEntity, Onward
  <2> QED
    BY <2>1, <2>2 DEF Moves
<1>2. CASE request[r].next # NumEntities
  <2>1. request[r].next \in Entities /\ request[r].next + 1 \in Entities
    BY <1>2, Records, FirstEntity DEF RequestRecords, Entities
  <2>2. Onward(r, label) \in RequestRecords
    BY <1>2, <2>1, Records DEF Onward, RequestRecords
  <2>3. request' = [request EXCEPT ![r] = Onward(r, label)]
    BY <1>2 DEF NextEntity, Onward
  <2> QED
    BY <2>2, <2>3 DEF Moves
<1> QED
  BY <1>1, <1>2

\* Request r with hit h inserted.
HitDone(r, h) ==
  [request[r] EXCEPT !.hits = @ \ {h},
                     !.at = IF request[r].hits = {h} THEN AfterHits(r) ELSE @]

(***************************************************************************)
(* A hit is inserted, and after the last the stage goes on.                *)
(***************************************************************************)
LEMMA InsertHitMoves ==
  ASSUME RunTypeOK, NEW r \in Requests, NEW h \in request[r].hits, InsertHit(r, h)
  PROVE  Moves(r, HitDone(r, h))
<1>1. request[r].hits \ {h} \in SUBSET HitRows
  BY Records DEF RequestRecords
<1>2. AfterHits(r) \in Labels
  BY DEF AfterHits, Labels, ScreeningLabels, BibliometricLabels
<1>3. HitDone(r, h) \in RequestRecords
  BY <1>1, <1>2, Records DEF HitDone, RequestRecords
<1>4. request' = [request EXCEPT ![r] = HitDone(r, h)]
  BY DEF InsertHit, HitDone
<1> QED
  BY <1>3, <1>4 DEF Moves

\* The request a builder becomes once the manifest is written.
Onto(r) ==
  IF request[r].then = "none" THEN Idle
  ELSE Enricher(request[r].then, request[r].number)

(***************************************************************************)
(* After the manifest, the stage the route is for.                         *)
(***************************************************************************)
LEMMA WriteManifestMoves ==
  ASSUME RunTypeOK, NEW r \in Requests, WriteManifest(r)
  PROVE  Moves(r, Onto(r))
<1>1. request[r].then \in Stages /\ request[r].number \in Nat
  BY Records DEF RequestRecords
<1>2. Onto(r) \in RequestRecords
  BY <1>1, Records, EnricherIsARecord DEF Onto
<1>3. request' = [request EXCEPT ![r] = Onto(r)]
  BY DEF WriteManifest, Onto, Enricher
<1> QED
  BY <1>2, <1>3 DEF Moves
-----------------------------------------------------------------------------
\* A match that loads of the shared table gave to request r.
MatchOf(r) ==
  [entity |-> request[r].next, by |-> request[r].number, loads |-> {gleif_lei}]

\* Request r with its next entity matched.
Matched(r) ==
  [request[r] EXCEPT !.at = "climb", !.matches = @ \union {MatchOf(r)}]

\* The flag that a match gives.
FlagOf(m) == [m EXCEPT !.loads = @ \union {gleif_lei, gleif_relationships}]

\* Request r with the parents of match m looked up.
Climbed(r, m, find) ==
  [request[r] EXCEPT
     !.at = IF m.entity = NumEntities THEN "delete_matches" ELSE "match",
     !.next = IF m.entity = NumEntities THEN 1 ELSE @ + 1,
     !.flags = IF find = "flagged" THEN @ \union {FlagOf(m)} ELSE @]

(***************************************************************************)
(* An entity has no record in the shared table, or is matched.             *)
(***************************************************************************)
LEMMA MatchEntityMoves ==
  ASSUME RunTypeOK, NEW r \in Requests, MatchEntity(r)
  PROVE  Moves(r, Onward(r, "delete_matches")) \/ Moves(r, Matched(r))
<1>1. CASE NextEntity(r, "delete_matches")
  BY <1>1, NextEntityMoves DEF Labels, OwnershipLabels
<1>2. CASE request' = [request EXCEPT ![r].at = "climb",
             ![r].matches = @ \union {[entity |-> request[r].next,
                                       by |-> request[r].number, loads |-> {gleif_lei}]}]
  <2>1. MatchOf(r) \in [entity : Entities, by : Nat, loads : SUBSET Nat]
    BY Records DEF MatchOf, RequestRecords, RunTypeOK
  <2>2. request[r].matches \union {MatchOf(r)} \in SUBSET OwnershipRows
    BY <2>1, Records DEF OwnershipRows, RequestRecords
  <2>3. "climb" \in Labels
    BY DEF Labels, OwnershipLabels
  <2>4. Matched(r) \in RequestRecords
    BY <2>2, <2>3, Records DEF Matched, RequestRecords
  <2>5. request' = [request EXCEPT ![r] = Matched(r)]
    BY <1>2 DEF Matched, MatchOf
  <2> QED
    BY <2>4, <2>5 DEF Moves
<1> QED
  BY <1>1, <1>2 DEF MatchEntity

(***************************************************************************)
(* A match is climbed to its parents, which give a flag or none.           *)
(***************************************************************************)
LEMMA ClimbMoves ==
  ASSUME RunTypeOK, NEW r \in Requests, ClimbToParents(r)
  PROVE  \E m \in request[r].matches, find \in {"no_foreign_parent", "flagged"} :
           Moves(r, Climbed(r, m, find))
<1>1. PICK m \in request[r].matches, find \in {"no_foreign_parent", "flagged"} :
        /\ m.entity = request[r].next
        /\ request' = [request EXCEPT
             ![r].at = IF m.entity = NumEntities THEN "delete_matches" ELSE "match",
             ![r].next = IF m.entity = NumEntities THEN 1 ELSE @ + 1,
             ![r].flags = IF find = "flagged"
                          THEN @ \union {[m EXCEPT !.loads = @ \union
                                            {gleif_lei, gleif_relationships}]}
                          ELSE @]
  BY DEF ClimbToParents
<1>2. FlagOf(m) \in OwnershipRows
  <2>1. m \in OwnershipRows
    BY Records DEF RequestRecords
  <2>2. m.loads \union {gleif_lei, gleif_relationships} \in SUBSET Nat
    BY <2>1 DEF OwnershipRows, RunTypeOK
  <2> QED
    BY <2>1, <2>2 DEF OwnershipRows, FlagOf
<1>3. (IF find = "flagged" THEN request[r].flags \union {FlagOf(m)} ELSE request[r].flags)
        \in SUBSET OwnershipRows
  BY <1>2, Records DEF RequestRecords
<1>4. (IF m.entity = NumEntities THEN 1 ELSE request[r].next + 1) \in Entities
  BY <1>1, Records, FirstEntity DEF RequestRecords, Entities
<1>5. (IF m.entity = NumEntities THEN "delete_matches" ELSE "match") \in Labels
  BY DEF Labels, OwnershipLabels
<1>6. Climbed(r, m, find) \in RequestRecords
  BY <1>3, <1>4, <1>5, Records DEF Climbed, RequestRecords
<1>7. request' = [request EXCEPT ![r] = Climbed(r, m, find)]
  BY <1>1 DEF Climbed, FlagOf
<1> QED
  BY <1>6, <1>7 DEF Moves

\* Request r with match m, and with flag f, inserted.
MatchDone(r, m) ==
  [request[r] EXCEPT !.matches = @ \ {m},
                     !.at = IF request[r].matches = {m} THEN "delete_flags" ELSE @]

FlagDone(r, f) ==
  [request[r] EXCEPT !.flags = @ \ {f},
                     !.at = IF request[r].flags = {f} THEN "write_gleif_manifest" ELSE @]

(***************************************************************************)
(* A match is inserted, unless another request has one for the entity.     *)
(***************************************************************************)
LEMMA InsertMatchMoves ==
  ASSUME RunTypeOK, NEW r \in Requests, NEW m \in request[r].matches, InsertMatch(r, m)
  PROVE  \/ Moves(r, Idle) /\ lei_matches' = lei_matches
         \/ /\ Moves(r, MatchDone(r, m))
            /\ lei_matches' = lei_matches \union {m}
            /\ ~\E n \in lei_matches : n.entity = m.entity
<1>1. CASE Ends(r) /\ UNCHANGED lei_matches
  BY <1>1, EndsMoves
<1>2. CASE /\ lei_matches' = lei_matches \union {m}
           /\ ~\E n \in lei_matches : n.entity = m.entity
           /\ request' = [request EXCEPT ![r].matches = @ \ {m},
                ![r].at = IF request[r].matches = {m} THEN "delete_flags" ELSE @]
  <2>1. request[r].matches \ {m} \in SUBSET OwnershipRows /\ "delete_flags" \in Labels
    BY Records DEF RequestRecords, Labels, OwnershipLabels
  <2>2. MatchDone(r, m) \in RequestRecords
    BY <2>1, Records DEF MatchDone, RequestRecords
  <2>3. request' = [request EXCEPT ![r] = MatchDone(r, m)]
    BY <1>2 DEF MatchDone
  <2> QED
    BY <1>2, <2>2, <2>3 DEF Moves
<1> QED
  BY <1>1, <1>2 DEF InsertMatch

(***************************************************************************)
(* A flag is inserted.                                                     *)
(***************************************************************************)
LEMMA InsertFlagMoves ==
  ASSUME RunTypeOK, NEW r \in Requests, NEW f \in request[r].flags, InsertFlag(r, f)
  PROVE  Moves(r, FlagDone(r, f))
<1>1. request[r].flags \ {f} \in SUBSET OwnershipRows /\ "write_gleif_manifest" \in Labels
  BY Records DEF RequestRecords, Labels, OwnershipLabels
<1>2. FlagDone(r, f) \in RequestRecords
  BY <1>1, Records DEF FlagDone, RequestRecords
<1>3. request' = [request EXCEPT ![r] = FlagDone(r, f)]
  BY DEF InsertFlag, FlagDone
<1> QED
  BY <1>2, <1>3 DEF Moves
-----------------------------------------------------------------------------
\* Request r with the authors OpenAlex resolved for it.
Resolved(r, found, bibHits) ==
  [request[r] EXCEPT !.at = IF found = {} THEN "delete_authors" ELSE "load_works",
                     !.found = found, !.todo = found, !.hits = bibHits]

(***************************************************************************)
(* Authors are resolved.                                                   *)
(***************************************************************************)
LEMMA ResolveAuthorsMoves ==
  ASSUME RunTypeOK, NEW r \in Requests, NEW found \in SUBSET Authors,
         NEW bibHits \in OfferedHits, ResolveAuthors(r, found, bibHits)
  PROVE  Moves(r, Resolved(r, found, bibHits))
<1>1. bibHits \in SUBSET HitRows
  BY InputAssumption DEF HitRows, Producers
<1>2. (IF found = {} THEN "delete_authors" ELSE "load_works") \in Labels
  BY DEF Labels, BibliometricLabels
<1>3. Resolved(r, found, bibHits) \in RequestRecords
  BY <1>1, <1>2, Records DEF Resolved, RequestRecords
<1>4. request' = [request EXCEPT ![r] = Resolved(r, found, bibHits)]
  BY DEF ResolveAuthors, Resolved
<1> QED
  BY <1>3, <1>4 DEF Moves

\* Request r with the works of the authors in done.
WorksDone(r, done) ==
  [request[r] EXCEPT !.todo = @ \ done, !.author = {},
                     !.at = IF request[r].todo \subseteq done THEN "delete_authors"
                            ELSE "load_works"]

(***************************************************************************)
(* Authors are done with.                                                  *)
(***************************************************************************)
LEMMA HasWorksMoves ==
  ASSUME RunTypeOK, NEW r \in Requests, NEW done, HasWorks(r, done)
  PROVE  Moves(r, WorksDone(r, done))
<1>1. request[r].todo \ done \in SUBSET Authors /\ {} \in SUBSET Authors
  BY Records DEF RequestRecords
<1>2. (IF request[r].todo \subseteq done THEN "delete_authors" ELSE "load_works") \in Labels
  BY DEF Labels, BibliometricLabels
<1>3. WorksDone(r, done) \in RequestRecords
  BY <1>1, <1>2, Records DEF WorksDone, RequestRecords
<1>4. request' = [request EXCEPT ![r] = WorksDone(r, done)]
  BY DEF HasWorks, WorksDone
<1> QED
  BY <1>3, <1>4 DEF Moves

\* Request r at the DELETE of the works of author a.
Fetched(r, a) == [request[r] EXCEPT !.at = "delete_works", !.author = {a}]

(***************************************************************************)
(* The works of an author are there, are fetched, or cannot be.            *)
(***************************************************************************)
LEMMA LoadWorksMoves ==
  ASSUME RunTypeOK, NEW r \in Requests, NEW a \in request[r].todo, LoadWorks(r, a)
  PROVE  \/ a \in works /\ Moves(r, WorksDone(r, {a}))
         \/ Moves(r, Fetched(r, a))
         \/ Moves(r, Idle)
<1>1. CASE a \in works /\ HasWorks(r, {a})
  BY <1>1, HasWorksMoves
<1>2. CASE request' = [request EXCEPT ![r].at = "delete_works", ![r].author = {a}]
  <2>1. {a} \in SUBSET Authors /\ "delete_works" \in Labels
    BY Records DEF RequestRecords, Labels, BibliometricLabels
  <2>2. Fetched(r, a) \in RequestRecords
    BY <2>1, Records DEF Fetched, RequestRecords
  <2>3. request' = [request EXCEPT ![r] = Fetched(r, a)]
    BY <1>2 DEF Fetched
  <2> QED
    BY <2>2, <2>3 DEF Moves
<1>3. CASE Ends(r)
  BY <1>3, EndsMoves
<1> QED
  BY <1>1, <1>2, <1>3 DEF LoadWorks

\* Request r once the old matches are deleted, and with author a inserted.
AuthorsDeleted(r) ==
  [request[r] EXCEPT !.todo = request[r].found,
                     !.at = IF request[r].found = {} THEN HitsLabel(r) ELSE "insert_authors"]

AuthorDone(r, a) ==
  [request[r] EXCEPT !.todo = @ \ {a},
                     !.at = IF request[r].todo = {a} THEN HitsLabel(r) ELSE @]

(***************************************************************************)
(* The authors of the investigators are replaced.                          *)
(***************************************************************************)
LEMMA AuthorsMove ==
  ASSUME RunTypeOK, NEW r \in Requests
  PROVE  /\ DeleteAuthors(r) => Moves(r, AuthorsDeleted(r))
         /\ \A a \in request[r].todo : InsertAuthor(r, a) => Moves(r, AuthorDone(r, a))
<1>1. HitsLabel(r) \in Labels /\ "insert_authors" \in Labels
  BY DEF HitsLabel, Labels, BibliometricLabels
<1>2. ASSUME DeleteAuthors(r) PROVE Moves(r, AuthorsDeleted(r))
  <2>1. AuthorsDeleted(r) \in RequestRecords
    BY <1>1, Records DEF AuthorsDeleted, RequestRecords
  <2>2. request' = [request EXCEPT ![r] = AuthorsDeleted(r)]
    BY <1>2 DEF DeleteAuthors, AuthorsDeleted
  <2> QED
    BY <2>1, <2>2 DEF Moves
<1>3. ASSUME NEW a \in request[r].todo, InsertAuthor(r, a) PROVE Moves(r, AuthorDone(r, a))
  <2>1. request[r].todo \ {a} \in SUBSET Authors
    BY Records DEF RequestRecords
  <2>2. AuthorDone(r, a) \in RequestRecords
    BY <1>1, <2>1, Records DEF AuthorDone, RequestRecords
  <2>3. request' = [request EXCEPT ![r] = AuthorDone(r, a)]
    BY <1>3 DEF InsertAuthor, AuthorDone
  <2> QED
    BY <2>2, <2>3 DEF Moves
<1> QED
  BY <1>2, <1>3
-----------------------------------------------------------------------------
\* The statements of enrich_ownership, and those of enrich_bibliometric.
OwnershipStep(r) ==
  \/ LoadLei(r) \/ LoadRelationships(r) \/ MatchEntity(r) \/ ClimbToParents(r)
  \/ DeleteMatches(r) \/ \E m \in request[r].matches : InsertMatch(r, m)
  \/ DeleteFlags(r) \/ \E f \in request[r].flags : InsertFlag(r, f)
  \/ WriteGleifManifest(r)

BibliometricStep(r) ==
  \/ \E found \in SUBSET Authors, bibHits \in OfferedHits :
       ResolveAuthors(r, found, bibHits)
  \/ \E a \in request[r].todo : LoadWorks(r, a) \/ InsertAuthor(r, a)
  \/ DeleteWorks(r) \/ InsertWorks(r) \/ DeleteAuthors(r) \/ WriteBibManifest(r)
  \/ request[r].stage = "bibliometric" /\ DeleteHits(r)
  \/ request[r].stage = "bibliometric" /\ \E h \in request[r].hits : InsertHit(r, h)

\* A request that is still in the stage, for the same enrichment.
StillIn(r, q, stage) ==
  /\ q.stage = stage /\ request[r].stage = stage
  /\ q.number = request[r].number /\ q.then = request[r].then

(***************************************************************************)
(* A statement of enrich_ownership changes the GLEIF tables, its manifest  *)
(* and the rows of its run, and stays in its stage or ends the request.    *)
(***************************************************************************)
LEMMA OwnershipStays ==
  ASSUME RunTypeOK, Placed, NEW r \in Requests, OwnershipStep(r)
  PROVE  /\ UNCHANGED <<screening, hits, bibliometric, enrichments, crashes>>
         /\ request[r].stage = "ownership"
         /\ \E q : /\ Moves(r, q)
                   /\ q = Idle \/ (StillIn(r, q, "ownership") /\ q.at \in OwnershipLabels)
<1> DEFINE Stays == \E q : /\ Moves(r, q)
                           /\ \/ q = Idle
                              \/ StillIn(r, q, "ownership") /\ q.at \in OwnershipLabels
<1>1. request[r] \in RequestRecords /\ OwnershipLabels \subseteq Labels
  BY Records DEF Labels
<1>2. ASSUME request[r].at \in OwnershipLabels \union {"load_lei"}
      PROVE  request[r].stage = "ownership"
  BY <1>2 DEF Placed, Standing
<1>3. ASSUME NEW label \in OwnershipLabels, GoesTo(r, label), request[r].stage = "ownership"
      PROVE  Stays
  <2>1. Moves(r, To(r, label))
    BY <1>1, <1>3, GoesToMoves
  <2>2. StillIn(r, To(r, label), "ownership") /\ To(r, label).at = label
    BY <1>1, <1>3 DEF StillIn, To, RequestRecords
  <2> QED
    BY <2>1, <2>2
<1>4. CASE LoadLei(r)
  BY <1>2, <1>3, <1>4 DEF LoadLei, At, OwnershipLabels, screening, bibliometric, ownership
<1>5. CASE LoadRelationships(r)
  BY <1>2, <1>3, <1>5 DEF LoadRelationships, At, OwnershipLabels, screening, bibliometric, ownership
<1>6. CASE MatchEntity(r)
  <2>1. request[r].stage = "ownership" /\ request[r].at = "match"
    BY <1>2, <1>6 DEF MatchEntity, At, OwnershipLabels
  <2>2. /\ StillIn(r, Onward(r, "delete_matches"), "ownership")
        /\ Onward(r, "delete_matches").at \in OwnershipLabels
    BY <1>1, <2>1 DEF StillIn, Onward, RequestRecords, OwnershipLabels
  <2>3. StillIn(r, Matched(r), "ownership") /\ Matched(r).at \in OwnershipLabels
    BY <1>1, <2>1 DEF StillIn, Matched, RequestRecords, OwnershipLabels
  <2>4. Stays
    BY <1>6, <2>2, <2>3, MatchEntityMoves
  <2> QED
    BY <1>6, <2>1, <2>4 DEF MatchEntity
<1>7. CASE ClimbToParents(r)
  <2>1. request[r].stage = "ownership"
    BY <1>2, <1>7 DEF ClimbToParents, At, OwnershipLabels
  <2>2. PICK m \in request[r].matches, find \in {"no_foreign_parent", "flagged"} :
          Moves(r, Climbed(r, m, find))
    BY <1>7, ClimbMoves
  <2>3. /\ StillIn(r, Climbed(r, m, find), "ownership")
        /\ Climbed(r, m, find).at \in OwnershipLabels
    BY <1>1, <2>1 DEF StillIn, Climbed, RequestRecords, OwnershipLabels
  <2>4. Stays
    BY <2>2, <2>3
  <2> QED
    BY <1>7, <2>1, <2>4 DEF ClimbToParents
<1>8. CASE DeleteMatches(r)
  BY <1>2, <1>3, <1>8 DEF DeleteMatches, At, OwnershipLabels
<1>9. CASE \E m \in request[r].matches : InsertMatch(r, m)
  <2>1. PICK m \in request[r].matches : InsertMatch(r, m)
    BY <1>9
  <2>2. request[r].stage = "ownership" /\ request[r].at = "insert_matches"
    BY <1>2, <2>1 DEF InsertMatch, At, OwnershipLabels
  <2>3. StillIn(r, MatchDone(r, m), "ownership") /\ MatchDone(r, m).at \in OwnershipLabels
    BY <1>1, <2>2 DEF StillIn, MatchDone, RequestRecords, OwnershipLabels
  <2>4. Stays
    BY <2>1, <2>3, InsertMatchMoves
  <2> QED
    BY <2>1, <2>2, <2>4 DEF InsertMatch
<1>10. CASE DeleteFlags(r)
  BY <1>2, <1>3, <1>10 DEF DeleteFlags, At, OwnershipLabels
<1>11. CASE \E f \in request[r].flags : InsertFlag(r, f)
  <2>1. PICK f \in request[r].flags : InsertFlag(r, f)
    BY <1>11
  <2>2. request[r].stage = "ownership" /\ request[r].at = "insert_flags"
    BY <1>2, <2>1 DEF InsertFlag, At, OwnershipLabels
  <2>3. StillIn(r, FlagDone(r, f), "ownership") /\ FlagDone(r, f).at \in OwnershipLabels
    BY <1>1, <2>2 DEF StillIn, FlagDone, RequestRecords, OwnershipLabels
  <2>4. Stays
    BY <2>1, <2>3, InsertFlagMoves
  <2> QED
    BY <2>1, <2>2, <2>4 DEF InsertFlag
<1>12. CASE WriteGleifManifest(r)
  <2>1. Stays
    BY <1>12, EndsMoves DEF WriteGleifManifest
  <2> QED
    BY <1>2, <1>12, <2>1 DEF WriteGleifManifest, At, OwnershipLabels
<1> QED
  BY <1>4, <1>5, <1>6, <1>7, <1>8, <1>9, <1>10, <1>11, <1>12 DEF OwnershipStep

(***************************************************************************)
(* A statement of enrich_bibliometric changes the OpenAlex tables, its     *)
(* manifest and the bibliometric hits, and stays in its stage or ends the  *)
(* request.                                                                *)
(***************************************************************************)
LEMMA BibliometricStays ==
  ASSUME RunTypeOK, Placed, NEW r \in Requests, BibliometricStep(r)
  PROVE  /\ UNCHANGED <<screening, gleif, ownership, history, enrichments, crashes>>
         /\ request[r].stage = "bibliometric"
         /\ hits' \in [HitRows -> Nat]
         /\ \A h \in HitRows : h[1] # "bibliometric" => hits'[h] = hits[h]
         /\ \E q : /\ Moves(r, q)
                   /\ \/ q = Idle
                      \/ /\ StillIn(r, q, "bibliometric")
                         /\ q.at \in BibliometricLabels \union {"delete_hits", "insert_hits"}
                         /\ q.hits \subseteq {"bibliometric"} \X Entities
<1> DEFINE Stays == \E q : /\ Moves(r, q)
                           /\ \/ q = Idle
                              \/ /\ StillIn(r, q, "bibliometric")
                                 /\ q.at \in BibliometricLabels \union
                                               {"delete_hits", "insert_hits"}
                                 /\ q.hits \subseteq {"bibliometric"} \X Entities
           SameHits == /\ hits' \in [HitRows -> Nat]
                       /\ \A h \in HitRows : h[1] # "bibliometric" => hits'[h] = hits[h]
<1>1. request[r] \in RequestRecords
  BY Records
<1>2. ASSUME request[r].at \in BibliometricLabels
      PROVE  request[r].stage = "bibliometric"
  BY <1>2 DEF Placed, Standing
<1>3. ASSUME request[r].stage = "bibliometric"
      PROVE  request[r].hits \subseteq {"bibliometric"} \X Entities
  BY <1>3 DEF Placed, Standing
<1>4. ASSUME UNCHANGED hits
      PROVE  SameHits
  BY <1>4 DEF RunTypeOK
<1>5. HitsLabel(r) \in BibliometricLabels \union {"delete_hits"}
  BY DEF HitsLabel, BibliometricLabels
<1>6. CASE \E found \in SUBSET Authors, bibHits \in OfferedHits :
             ResolveAuthors(r, found, bibHits)
  <2>1. PICK found \in SUBSET Authors, bibHits \in OfferedHits :
               ResolveAuthors(r, found, bibHits)
    BY <1>6
  <2>2. request[r].stage = "bibliometric"
    BY <1>2, <2>1 DEF ResolveAuthors, At, BibliometricLabels
  <2>3. bibHits \subseteq {"bibliometric"} \X Entities
    BY InputAssumption
  <2>4. /\ StillIn(r, Resolved(r, found, bibHits), "bibliometric")
        /\ Resolved(r, found, bibHits).at \in BibliometricLabels
        /\ Resolved(r, found, bibHits).hits = bibHits
    BY <1>1, <2>2 DEF StillIn, Resolved, RequestRecords, BibliometricLabels
  <2>5. Stays
    BY <2>1, <2>3, <2>4, ResolveAuthorsMoves
  <2> QED
    BY <1>4, <2>1, <2>2, <2>5 DEF ResolveAuthors
<1>7. ASSUME NEW done, request[r].stage = "bibliometric"
      PROVE  /\ StillIn(r, WorksDone(r, done), "bibliometric")
             /\ WorksDone(r, done).at \in BibliometricLabels
             /\ WorksDone(r, done).hits = request[r].hits
  BY <1>1, <1>7 DEF StillIn, WorksDone, RequestRecords, BibliometricLabels
<1>8. CASE \E a \in request[r].todo : LoadWorks(r, a)
  <2>1. PICK a \in request[r].todo : LoadWorks(r, a)
    BY <1>8
  <2>2. request[r].stage = "bibliometric"
    BY <1>2, <2>1 DEF LoadWorks, At, BibliometricLabels
  <2>3. /\ StillIn(r, Fetched(r, a), "bibliometric")
        /\ Fetched(r, a).at \in BibliometricLabels
        /\ Fetched(r, a).hits = request[r].hits
    BY <1>1, <2>2 DEF StillIn, Fetched, RequestRecords, BibliometricLabels
  <2>4. Stays
    BY <1>3, <1>7, <2>1, <2>2, <2>3, LoadWorksMoves
  <2> QED
    BY <1>4, <2>1, <2>2, <2>4 DEF LoadWorks
<1>9. CASE \E a \in request[r].todo : InsertAuthor(r, a)
  <2>1. PICK a \in request[r].todo : InsertAuthor(r, a)
    BY <1>9
  <2>2. request[r].stage = "bibliometric" /\ request[r].at = "insert_authors"
    BY <1>2, <2>1 DEF InsertAuthor, At, BibliometricLabels
  <2>3. /\ StillIn(r, AuthorDone(r, a), "bibliometric")
        /\ AuthorDone(r, a).at \in BibliometricLabels \union {"delete_hits"}
        /\ AuthorDone(r, a).hits = request[r].hits
    BY <1>1, <1>5, <2>2 DEF StillIn, AuthorDone, RequestRecords, BibliometricLabels
  <2>4. Stays
    BY <1>3, <2>1, <2>2, <2>3, AuthorsMove
  <2> QED
    BY <1>4, <2>1, <2>2, <2>4 DEF InsertAuthor
<1>10. ASSUME NEW label \in BibliometricLabels \union {"insert_hits"}, GoesTo(r, label),
              request[r].stage = "bibliometric"
       PROVE  Stays
  <2>1. Moves(r, To(r, label))
    BY <1>10, GoesToMoves DEF Labels
  <2>2. /\ StillIn(r, To(r, label), "bibliometric") /\ To(r, label).at = label
        /\ To(r, label).hits = request[r].hits
    BY <1>1, <1>10 DEF StillIn, To, RequestRecords
  <2> QED
    BY <1>3, <1>10, <2>1, <2>2
<1>11. CASE DeleteWorks(r)
  BY <1>2, <1>4, <1>10, <1>11 DEF DeleteWorks, At, BibliometricLabels
<1>12. CASE InsertWorks(r)
  <2>1. request[r].stage = "bibliometric"
    BY <1>2, <1>12 DEF InsertWorks, At, BibliometricLabels
  <2>2. Ends(r) \/ HasWorks(r, request[r].author)
    BY <1>12 DEF InsertWorks
  <2>3. Stays
    BY <1>3, <1>7, <2>1, <2>2, EndsMoves, HasWorksMoves
  <2> QED
    BY <1>4, <1>12, <2>1, <2>3 DEF InsertWorks
<1>13. CASE DeleteAuthors(r)
  <2>1. request[r].stage = "bibliometric"
    BY <1>2, <1>13 DEF DeleteAuthors, At, BibliometricLabels
  <2>2. /\ StillIn(r, AuthorsDeleted(r), "bibliometric")
        /\ AuthorsDeleted(r).at \in BibliometricLabels \union {"delete_hits"}
        /\ AuthorsDeleted(r).hits = request[r].hits
    BY <1>1, <1>5, <2>1 DEF StillIn, AuthorsDeleted, RequestRecords, BibliometricLabels
  <2>3. Stays
    BY <1>3, <1>13, <2>1, <2>2, AuthorsMove
  <2> QED
    BY <1>4, <1>13, <2>1, <2>3 DEF DeleteAuthors
<1>14. CASE WriteBibManifest(r)
  <2>1. Stays
    BY <1>14, EndsMoves DEF WriteBibManifest
  <2> QED
    BY <1>2, <1>4, <1>14, <2>1 DEF WriteBibManifest, At, BibliometricLabels
<1>15. CASE request[r].stage = "bibliometric" /\ DeleteHits(r)
  <2>1. Stays
    BY <1>10, <1>15 DEF DeleteHits
  <2>2. \A g \in request[r].hits : g[1] = "bibliometric"
    BY <1>3, <1>15
  <2>3. SameHits
    BY <1>15, <2>2 DEF DeleteHits, RunTypeOK
  <2> QED
    BY <1>15, <2>1, <2>3 DEF DeleteHits, screening, bibliometric
<1>16. CASE request[r].stage = "bibliometric" /\ \E h \in request[r].hits : InsertHit(r, h)
  <2>1. PICK h \in request[r].hits : InsertHit(r, h)
    BY <1>16
  <2>2. request[r].at = "insert_hits" /\ AfterHits(r) = "write_bib_manifest"
    BY <1>16, <2>1 DEF InsertHit, At, AfterHits
  <2>3. /\ StillIn(r, HitDone(r, h), "bibliometric")
        /\ HitDone(r, h).at \in BibliometricLabels \union {"insert_hits"}
        /\ HitDone(r, h).hits = request[r].hits \ {h}
    BY <1>1, <1>16, <2>2 DEF StillIn, HitDone, RequestRecords, BibliometricLabels
  <2>4. Stays
    BY <1>3, <1>16, <2>1, <2>3, InsertHitMoves
  <2>5. h[1] = "bibliometric" /\ h \in HitRows
    BY <1>1, <1>3, <1>16 DEF RequestRecords
  <2>6. SameHits
    BY <2>1, <2>5 DEF InsertHit, RunTypeOK
  <2> QED
    BY <1>16, <2>1, <2>4, <2>6 DEF InsertHit
<1> QED
  BY <1>6, <1>8, <1>9, <1>11, <1>12, <1>13, <1>14, <1>15, <1>16 DEF BibliometricStep
-----------------------------------------------------------------------------
\* The statements of run_screening.
ScreeningStep(r) ==
  \/ InsertRaw(r) \/ InsertEntity(r) \/ InsertScored(r) \/ WriteManifest(r)
  \/ request[r].stage = "screening" /\ DeleteHits(r)
  \/ request[r].stage = "screening" /\ \E h \in request[r].hits : InsertHit(r, h)

ScreeningTypes ==
  /\ raw \in 0..2
  /\ resolved \subseteq Entities
  /\ hits \in [HitRows -> Nat]
  /\ scored \in [Entities -> Nat]
  /\ manifest \in BOOLEAN

(***************************************************************************)
(* A statement of run_screening changes the tables of the screening, and   *)
(* stays in it, ends the request or goes on to what the route is for.      *)
(***************************************************************************)
LEMMA ScreeningStays ==
  ASSUME RunTypeOK, Placed, NEW r \in Requests, ScreeningStep(r)
  PROVE  /\ UNCHANGED <<gleif, ownership, bibliometric, history, enrichments, crashes>>
         /\ request[r].stage = "screening"
         /\ raw' # 0
         /\ ScreeningTypes'
         /\ \E q : /\ Moves(r, q)
                   /\ \/ q = Idle
                      \/ /\ StillIn(r, q, "screening")
                         /\ q.at \in ScreeningLabels \union {"delete_hits", "insert_hits"}
                         /\ Standing(q)
                      \/ /\ request[r].then \in {"ownership", "bibliometric"}
                         /\ q = Enricher(request[r].then, request[r].number)
<1> DEFINE Stays == \E q : /\ Moves(r, q)
                           /\ \/ q = Idle
                              \/ /\ StillIn(r, q, "screening")
                                 /\ q.at \in ScreeningLabels \union
                                               {"delete_hits", "insert_hits"}
                                 /\ Standing(q)
                              \/ /\ request[r].then \in {"ownership", "bibliometric"}
                                 /\ q = Enricher(request[r].then, request[r].number)
<1>1. request[r] \in RequestRecords /\ ScreeningLabels \subseteq Labels
  BY Records DEF Labels
<1>2. ASSUME request[r].at \in ScreeningLabels
      PROVE  request[r].stage = "screening"
  BY <1>2 DEF Placed, Standing
<1>3. Standing(request[r]) /\ Loaded(request[r])
  BY DEF Placed
<1>4. ScreeningTypes
  BY DEF ScreeningTypes, RunTypeOK
<1>5. ASSUME NEW q \in RequestRecords, StillIn(r, q, "screening"),
             q.at \in ScreeningLabels \union {"delete_hits", "insert_hits"},
             q.at # "insert_raw", q.hits \subseteq ScreeningHits,
             q.at \in {"insert_entities", "delete_hits"} => q.hits = ScreeningHits,
             q.at \in {"delete_hits", "insert_hits"} => q.next = 1
      PROVE  Standing(q)
  BY <1>3, <1>5 DEF Standing, StillIn, ScreeningLabels, OwnershipLabels, BibliometricLabels
<1>6. CASE InsertRaw(r)
  <2> DEFINE q == To(r, "insert_entities")
  <2>1. request[r].stage = "screening" /\ request[r].hits = ScreeningHits
    BY <1>2, <1>3, <1>6 DEF InsertRaw, At, ScreeningLabels, Standing
  <2>2. Moves(r, q)
    BY <1>6, GoesToMoves DEF InsertRaw, Labels, ScreeningLabels
  <2>3. raw' # 0 /\ ScreeningTypes'
    BY <1>4, <1>6 DEF InsertRaw, ScreeningTypes
  <2>4. /\ StillIn(r, q, "screening") /\ q.at = "insert_entities"
        /\ q.hits = ScreeningHits /\ q \in RequestRecords
    BY <1>1, <2>1, <2>2 DEF StillIn, To, RequestRecords, Moves
  <2>5. Standing(q) /\ q.at \in ScreeningLabels
    BY <1>5, <2>3, <2>4 DEF ScreeningLabels
  <2>6. Stays
    BY <2>2, <2>4, <2>5
  <2> QED
    BY <1>6, <2>1, <2>3, <2>6 DEF InsertRaw
<1>7. ASSUME NEW label \in ScreeningLabels \union {"delete_hits"}, NextEntity(r, label),
             request[r].at \in {"insert_entities", "insert_scored"}, UNCHANGED raw,
             label # "insert_raw", label # "insert_entities",
             label = "delete_hits" => request[r].hits = ScreeningHits
      PROVE  Stays
  <2> DEFINE q == Onward(r, label)
  <2>1. request[r].stage = "screening" /\ raw' # 0
    BY <1>2, <1>3, <1>7 DEF Loaded, ScreeningLabels
  <2>2. Moves(r, q) /\ q \in RequestRecords
    BY <1>1, <1>7, NextEntityMoves DEF Labels, Moves
  <2>3. /\ StillIn(r, q, "screening")
        /\ q.hits = request[r].hits
        /\ (q.at = label /\ q.next = 1) \/ q.at = request[r].at
    BY <1>1, <2>1 DEF StillIn, Onward, RequestRecords
  <2>4. q.at \in ScreeningLabels \union {"delete_hits"}
    BY <1>7, <2>3 DEF ScreeningLabels
  <2>5. /\ q.hits \subseteq ScreeningHits
        /\ q.at \in {"insert_entities", "delete_hits"} => q.hits = ScreeningHits
        /\ q.at \in {"delete_hits", "insert_hits"} => q.next = 1
        /\ q.at # "insert_raw"
    BY <1>3, <1>7, <2>1, <2>3, <2>4 DEF Standing, ScreeningLabels
  <2> HIDE DEF q
  <2>6. Standing(q)
    BY <1>5, <2>1, <2>2, <2>3, <2>4, <2>5
  <2> QED
    BY <2>2, <2>3, <2>4, <2>6
<1>8. CASE InsertEntity(r)
  <2>1. request[r].stage = "screening" /\ request[r].hits = ScreeningHits /\ raw # 0
    BY <1>2, <1>3, <1>8 DEF InsertEntity, At, ScreeningLabels, Standing, Loaded
  <2>2. UNCHANGED <<raw, scored, manifest, hits>> /\ resolved' \subseteq Entities
    BY <1>1, <1>4, <1>8 DEF InsertEntity, ScreeningTypes, RequestRecords
  <2>3. CASE Ends(r)
    <3>1. Stays
      BY <2>3, EndsMoves
    <3> QED
      BY <1>4, <1>8, <2>1, <2>2, <3>1 DEF InsertEntity, ScreeningTypes
  <2>4. CASE NextEntity(r, IF request[r].hits = {} THEN "insert_scored" ELSE "delete_hits")
    <3>1. Stays
      BY <1>7, <1>8, <2>1, <2>2, <2>4 DEF InsertEntity, At, ScreeningLabels
    <3> QED
      BY <1>4, <1>8, <2>1, <2>2, <3>1 DEF InsertEntity, ScreeningTypes
  <2> QED
    BY <1>8, <2>3, <2>4 DEF InsertEntity
<1>9. CASE InsertScored(r)
  <2>1. request[r].stage = "screening" /\ raw # 0
    BY <1>2, <1>3, <1>9 DEF InsertScored, At, ScreeningLabels, Loaded
  <2>2. Stays
    BY <1>7, <1>9 DEF InsertScored, At, ScreeningLabels
  <2>3. scored' \in [Entities -> Nat]
    BY <1>1, <1>4, <1>9 DEF InsertScored, ScreeningTypes, RequestRecords
  <2> QED
    BY <1>4, <1>9, <2>1, <2>2, <2>3 DEF InsertScored, ScreeningTypes
<1>10. CASE WriteManifest(r)
  <2>1. request[r].stage = "screening" /\ raw # 0
    BY <1>2, <1>3, <1>10 DEF WriteManifest, At, ScreeningLabels, Loaded
  <2>2. request[r].then # "none" => request[r].then \in {"ownership", "bibliometric"}
    BY <1>1, <1>3 DEF Standing, RequestRecords, Stages
  <2>3. Stays
    BY <1>10, <2>2, WriteManifestMoves DEF Onto
  <2> QED
    BY <1>4, <1>10, <2>1, <2>3 DEF WriteManifest, ScreeningTypes
<1>11. ASSUME request[r].at \in {"delete_hits", "insert_hits"}, request[r].stage = "screening"
       PROVE  raw # 0 /\ request[r].next = 1 /\ request[r].hits \subseteq ScreeningHits
  BY <1>3, <1>11 DEF Standing, Loaded
<1>12. CASE request[r].stage = "screening" /\ DeleteHits(r)
  <2> DEFINE q == To(r, "insert_hits")
  <2>1. Moves(r, q) /\ raw' # 0
    BY <1>11, <1>12, GoesToMoves DEF DeleteHits, At, Labels, screening
  <2>2. /\ q \in RequestRecords /\ StillIn(r, q, "screening") /\ q.at = "insert_hits"
        /\ q.next = 1 /\ q.hits \subseteq ScreeningHits
    BY <1>1, <1>11, <1>12, <2>1 DEF StillIn, To, RequestRecords, Moves, DeleteHits, At
  <2> HIDE DEF q
  <2>3. Standing(q)
    BY <1>5, <2>1, <2>2
  <2>4. Stays
    BY <2>1, <2>2, <2>3
  <2>5. hits' \in [HitRows -> Nat]
    BY <1>4, <1>12 DEF DeleteHits, ScreeningTypes
  <2> QED
    BY <1>4, <1>12, <2>1, <2>4, <2>5 DEF DeleteHits, ScreeningTypes, screening
<1>13. CASE request[r].stage = "screening" /\ \E h \in request[r].hits : InsertHit(r, h)
  <2>1. PICK h \in request[r].hits : InsertHit(r, h)
    BY <1>13
  <2> DEFINE q == HitDone(r, h)
  <2>2. /\ Moves(r, q) /\ raw' # 0 /\ AfterHits(r) = "insert_scored"
        /\ request[r].at = "insert_hits"
    BY <1>11, <1>13, <2>1, InsertHitMoves DEF InsertHit, At, AfterHits, screening
  <2>3. /\ q \in RequestRecords /\ StillIn(r, q, "screening")
        /\ q.at \in {"insert_hits", "insert_scored"}
        /\ q.next = request[r].next /\ q.hits = request[r].hits \ {h}
    BY <1>1, <1>13, <2>2 DEF StillIn, HitDone, RequestRecords, Moves
  <2>4. q.next = 1 /\ q.hits \subseteq ScreeningHits
    BY <1>11, <1>13, <2>2, <2>3
  <2> HIDE DEF q
  <2>5. Standing(q) /\ q.at \in ScreeningLabels \union {"insert_hits"}
    BY <1>5, <2>2, <2>3, <2>4 DEF ScreeningLabels
  <2>6. Stays
    BY <2>2, <2>3, <2>5
  <2>7. hits' \in [HitRows -> Nat]
    BY <1>1, <1>4, <2>1 DEF InsertHit, ScreeningTypes, RequestRecords
  <2> QED
    BY <1>4, <1>13, <2>1, <2>2, <2>6, <2>7 DEF InsertHit, ScreeningTypes, screening
<1> QED
  BY <1>6, <1>8, <1>9, <1>10, <1>12, <1>13 DEF ScreeningStep

(***************************************************************************)
(* A new request is at the first statement of its stage, with a fresh      *)
(* number if it is for an enrichment.                                      *)
(***************************************************************************)
LEMMA BeginStays ==
  ASSUME RunTypeOK, Placed, NEW r \in Requests, Begin(r)
  PROVE  /\ UNCHANGED <<screening, hits, gleif, ownership, bibliometric, history, crashes>>
         /\ request[r].at = "idle"
         /\ \E q : /\ Moves(r, q)
                   /\ q.at \in {"insert_raw", "load_lei", "resolve_authors"}
                   /\ Standing(q)
                   /\ \/ /\ q.number = 0 /\ q.stage = "screening" /\ q.then = "none"
                         /\ enrichments' = enrichments
                      \/ q.number = enrichments + 1 /\ enrichments' = enrichments + 1
<1>1. CASE \E stage \in {"none", "ownership", "bibliometric"} : Visit(r, stage)
  <2>1. PICK stage \in {"none", "ownership", "bibliometric"} : Visit(r, stage)
    BY <1>1
  <2> DEFINE q == Visitor(stage)
  <2>2. /\ q.at = "insert_raw" /\ q.stage = "screening" /\ q.then = stage /\ q.next = 1
        /\ q.hits = ScreeningHits
        /\ q.number = IF stage = "none" THEN 0 ELSE enrichments + 1
    BY DEF Visitor, Idle
  <2>3. Moves(r, q)
    BY <2>1, VisitMoves
  <2> HIDE DEF q
  <2>4. Standing(q)
    BY <2>2 DEF Standing, ScreeningLabels, OwnershipLabels, BibliometricLabels
  <2> QED
    BY <2>1, <2>2, <2>3, <2>4 DEF Visit, At
<1>2. CASE \E stage \in {"ownership", "bibliometric"} : Enrich(r, stage)
  <2>1. PICK stage \in {"ownership", "bibliometric"} : Enrich(r, stage)
    BY <1>2
  <2> DEFINE q == Enricher(stage, enrichments + 1)
  <2>2. /\ q.at = FirstOf(stage) /\ q.stage = stage /\ q.then = "none"
        /\ q.hits = {} /\ q.matches = {} /\ q.flags = {} /\ q.number = enrichments + 1
    BY DEF Enricher, Idle
  <2>3. Moves(r, q)
    BY <2>1, EnrichMoves
  <2> HIDE DEF q
  <2>4. Standing(q) /\ q.at \in {"load_lei", "resolve_authors"}
    BY <2>2 DEF Standing, FirstOf, ScreeningLabels, OwnershipLabels, BibliometricLabels
  <2> QED
    BY <2>1, <2>2, <2>3, <2>4 DEF Enrich, At
<1> QED
  BY <1>1, <1>2 DEF Begin

(***************************************************************************)
(* What a request in progress does is a statement of one of the stages.    *)
(***************************************************************************)
LEMMA ContinueIsAStep ==
  ASSUME RunTypeOK, Placed, NEW r \in Requests, Continue(r)
  PROVE  ScreeningStep(r) \/ OwnershipStep(r) \/ BibliometricStep(r)
<1>1. ASSUME request[r].at \in {"delete_hits", "insert_hits"}
      PROVE  request[r].stage \in {"screening", "bibliometric"}
  BY <1>1 DEF Placed, Standing
<1>2. CASE DeleteHits(r)
  BY <1>1, <1>2 DEF DeleteHits, At, ScreeningStep, BibliometricStep
<1>3. CASE \E h \in request[r].hits : InsertHit(r, h)
  <2>1. request[r].stage \in {"screening", "bibliometric"}
    BY <1>1, <1>3 DEF InsertHit, At
  <2> QED
    BY <1>3, <2>1 DEF ScreeningStep, BibliometricStep
<1> QED
  BY <1>2, <1>3 DEF Continue, ScreeningStep, OwnershipStep, BibliometricStep
-----------------------------------------------------------------------------
\* The types of what enrich_ownership, and enrich_bibliometric, write.
OwnershipTypes ==
  /\ gleif_lei \in Nat /\ gleif_relationships \in Nat
  /\ lei_matches \subseteq OwnershipRows /\ OneMatchEach
  /\ ownership_flags \subseteq OwnershipRows
  /\ gleif_manifest \in Nat
  /\ latest \in Nat /\ overlapped \in BOOLEAN

BibliometricTypes ==
  works \subseteq Authors /\ authors \subseteq Authors /\ bib_manifest \in Nat

(***************************************************************************)
(* What enrich_ownership writes has its type, and lei_matches its key.     *)
(***************************************************************************)
LEMMA OwnershipTyped ==
  ASSUME RunTypeOK, NEW r \in Requests, OwnershipStep(r)
  PROVE  OwnershipTypes'
<1>1. OwnershipTypes /\ request[r] \in RequestRecords
  BY Records DEF OwnershipTypes, RunTypeOK
<1>2. CASE LoadLei(r)
  <2>1. request[r].number \in Nat /\ (\E q \in Requests : q # r /\ Owning(q)) \in BOOLEAN
    BY <1>1 DEF RequestRecords
  <2> QED
    BY <1>1, <1>2, <2>1 DEF LoadLei, OwnershipTypes, OneMatchEach, ownership
<1>3. CASE LoadRelationships(r)
  <2>1. request[r].number \in Nat
    BY <1>1 DEF RequestRecords
  <2> QED
    BY <1>1, <1>3, <2>1 DEF LoadRelationships, OwnershipTypes, OneMatchEach, ownership, history
<1>4. CASE MatchEntity(r) \/ ClimbToParents(r)
  BY <1>1, <1>4 DEF MatchEntity, ClimbToParents, OwnershipTypes, OneMatchEach, ownership,
    gleif, history
<1>5. CASE DeleteMatches(r)
  BY <1>1, <1>5 DEF DeleteMatches, OwnershipTypes, OneMatchEach, gleif, history
<1>6. CASE \E m \in request[r].matches : InsertMatch(r, m)
  <2>1. PICK m \in request[r].matches : InsertMatch(r, m)
    BY <1>6
  <2>2. \/ lei_matches' = lei_matches
        \/ /\ lei_matches' = lei_matches \union {m}
           /\ ~\E n \in lei_matches : n.entity = m.entity
    BY <2>1, InsertMatchMoves
  <2>3. m \in OwnershipRows
    BY <1>1 DEF RequestRecords
  <2>4. lei_matches' \subseteq OwnershipRows
    BY <1>1, <2>2, <2>3 DEF OwnershipTypes
  <2>5. OneMatchEach'
    BY <1>1, <2>2 DEF OwnershipTypes, OneMatchEach
  <2> QED
    BY <1>1, <2>1, <2>4, <2>5 DEF InsertMatch, OwnershipTypes, gleif, history
<1>7. CASE DeleteFlags(r)
  BY <1>1, <1>7 DEF DeleteFlags, OwnershipTypes, OneMatchEach, gleif, history
<1>8. CASE \E f \in request[r].flags : InsertFlag(r, f)
  <2>1. PICK f \in request[r].flags : InsertFlag(r, f)
    BY <1>8
  <2>2. f \in OwnershipRows
    BY <1>1 DEF RequestRecords
  <2> QED
    BY <1>1, <2>1, <2>2 DEF InsertFlag, OwnershipTypes, OneMatchEach, gleif, history
<1>9. CASE WriteGleifManifest(r)
  <2>1. request[r].number \in Nat
    BY <1>1 DEF RequestRecords
  <2> QED
    BY <1>1, <1>9, <2>1 DEF WriteGleifManifest, OwnershipTypes, OneMatchEach, gleif, history
<1> QED
  BY <1>2, <1>3, <1>4, <1>5, <1>6, <1>7, <1>8, <1>9 DEF OwnershipStep

(***************************************************************************)
(* What enrich_bibliometric writes has its type.                           *)
(***************************************************************************)
LEMMA BibliometricTyped ==
  ASSUME RunTypeOK, NEW r \in Requests, BibliometricStep(r)
  PROVE  BibliometricTypes'
<1>1. BibliometricTypes /\ request[r] \in RequestRecords
  BY Records DEF BibliometricTypes, RunTypeOK
<1>2. /\ request[r].number \in Nat /\ request[r].author \subseteq Authors
      /\ request[r].todo \subseteq Authors
  BY <1>1 DEF RequestRecords
<1> QED
  BY <1>1, <1>2 DEF BibliometricStep, BibliometricTypes, bibliometric, ResolveAuthors,
    LoadWorks, InsertAuthor, DeleteWorks, InsertWorks, DeleteAuthors, WriteBibManifest,
    DeleteHits, InsertHit

(***************************************************************************)
(* A request that moves to where it may stand leaves all of them so.       *)
(***************************************************************************)
LEMMA MovesPlaced ==
  ASSUME RunTypeOK, Placed, NEW r \in Requests, NEW q, Moves(r, q), Standing(q),
         raw # 0 => raw' # 0,
         q.stage = "screening" /\ q.at # "insert_raw" => raw' # 0
  PROVE  Placed' /\ request' \in [Requests -> RequestRecords]
BY Stepping DEF Placed, Loaded

(***************************************************************************)
(* A request at rest stands nowhere, and one that goes on to its stage at  *)
(* the first statement of it.                                              *)
(***************************************************************************)
LEMMA AtRest ==
  /\ Standing(Idle) /\ Idle.stage = "none" /\ Idle.at = "idle"
  /\ Idle.number = 0 /\ Idle.then = "none"
BY DEF Standing, Idle, ScreeningLabels, OwnershipLabels, BibliometricLabels

\* An enrichment that was just asked for stands at the first label of its stage.
LEMMA AtFirst ==
  ASSUME NEW stage \in {"ownership", "bibliometric"}, NEW number
  PROVE  LET q == Enricher(stage, number)
         IN /\ Standing(q) /\ q.stage = stage /\ q.number = number /\ q.then = "none"
            /\ q.at \in {"load_lei", "resolve_authors"}
<1> DEFINE q == Enricher(stage, number)
<1>1. /\ q.at = FirstOf(stage) /\ q.stage = stage /\ q.then = "none"
      /\ q.hits = {} /\ q.matches = {} /\ q.flags = {} /\ q.number = number
  BY DEF Enricher, Idle
<1> HIDE DEF q
<1>2. Standing(q) /\ q.at \in {"load_lei", "resolve_authors"}
  BY <1>1 DEF Standing, FirstOf, ScreeningLabels, OwnershipLabels, BibliometricLabels
<1> QED
  BY <1>1, <1>2 DEF q

(***************************************************************************)
(* Every step keeps the types, and each request at a statement of its      *)
(* stage.                                                                  *)
(***************************************************************************)
LEMMA TypesAreKept ==
  ASSUME RunTypeOK, Placed, [Next]_vars
  PROVE  RunTypeOK' /\ Placed'
<1>1. ScreeningTypes /\ OwnershipTypes /\ BibliometricTypes
  BY DEF RunTypeOK, ScreeningTypes, OwnershipTypes, BibliometricTypes
<1>2. ASSUME ScreeningTypes', OwnershipTypes', BibliometricTypes',
             request' \in [Requests -> RequestRecords], enrichments' \in Nat, crashes' \in Nat
      PROVE  RunTypeOK'
  BY <1>2 DEF RunTypeOK, ScreeningTypes, OwnershipTypes, BibliometricTypes
<1>3. ASSUME UNCHANGED <<screening, hits>> PROVE ScreeningTypes'
  BY <1>1, <1>3 DEF ScreeningTypes, screening
<1>4. ASSUME UNCHANGED <<gleif, ownership, history>> PROVE OwnershipTypes'
  BY <1>1, <1>4 DEF OwnershipTypes, OneMatchEach, gleif, ownership, history
<1>5. ASSUME UNCHANGED bibliometric PROVE BibliometricTypes'
  BY <1>1, <1>5 DEF BibliometricTypes, bibliometric
<1>6. ASSUME UNCHANGED <<enrichments, crashes>> PROVE enrichments' \in Nat /\ crashes' \in Nat
  BY <1>6 DEF RunTypeOK
<1>7. CASE \E r \in Requests : Begin(r)
  <2>1. PICK r \in Requests : Begin(r)
    BY <1>7
  <2>2. PICK q : /\ Moves(r, q) /\ Standing(q)
                 /\ q.at \in {"insert_raw", "load_lei", "resolve_authors"}
                 /\ enrichments' \in {enrichments, enrichments + 1}
    BY <2>1, BeginStays
  <2>3. UNCHANGED <<screening, hits, gleif, ownership, bibliometric, history, crashes>>
    BY <2>1, BeginStays
  <2>4. q.stage = "screening" => q.at = "insert_raw"
    BY <2>2 DEF Standing, BibliometricLabels
  <2>5. Placed' /\ request' \in [Requests -> RequestRecords]
    BY <2>2, <2>3, <2>4, MovesPlaced DEF screening
  <2>6. enrichments' \in Nat /\ crashes' \in Nat
    BY <2>2, <2>3 DEF RunTypeOK
  <2> QED
    BY <1>2, <1>3, <1>4, <1>5, <2>3, <2>5, <2>6
<1>8. CASE \E r \in Requests : ScreeningStep(r)
  <2>1. PICK r \in Requests : ScreeningStep(r)
    BY <1>8
  <2>2. PICK q : /\ Moves(r, q)
                 /\ \/ q = Idle
                    \/ Standing(q)
                    \/ /\ request[r].then \in {"ownership", "bibliometric"}
                       /\ q = Enricher(request[r].then, request[r].number)
    BY <2>1, ScreeningStays
  <2>3. Standing(q)
    BY <2>2, AtRest, AtFirst
  <2>4. Placed' /\ request' \in [Requests -> RequestRecords]
    BY <2>1, <2>2, <2>3, MovesPlaced, ScreeningStays
  <2> QED
    BY <1>2, <1>4, <1>5, <1>6, <2>1, <2>4, ScreeningStays
<1>9. CASE \E r \in Requests : OwnershipStep(r)
  <2>1. PICK r \in Requests : OwnershipStep(r)
    BY <1>9
  <2>2. PICK q : /\ Moves(r, q)
                 /\ q = Idle \/ (StillIn(r, q, "ownership") /\ q.at \in OwnershipLabels)
    BY <2>1, OwnershipStays
  <2>3. request[r].then # "screening"
    BY DEF Placed, Standing
  <2>4. Standing(q) /\ q.stage # "screening"
    BY <2>2, <2>3, AtRest
    DEF Standing, StillIn, ScreeningLabels, OwnershipLabels, BibliometricLabels
  <2>5. UNCHANGED <<screening, hits, bibliometric, enrichments, crashes>>
    BY <2>1, OwnershipStays
  <2>6. Placed' /\ request' \in [Requests -> RequestRecords]
    BY <2>2, <2>4, <2>5, MovesPlaced DEF screening
  <2> QED
    BY <1>2, <1>3, <1>5, <1>6, <2>1, <2>5, <2>6, OwnershipTyped
<1>10. CASE \E r \in Requests : BibliometricStep(r)
  <2>1. PICK r \in Requests : BibliometricStep(r)
    BY <1>10
  <2>2. PICK q : /\ Moves(r, q)
                 /\ \/ q = Idle
                    \/ /\ StillIn(r, q, "bibliometric")
                       /\ q.at \in BibliometricLabels \union {"delete_hits", "insert_hits"}
                       /\ q.hits \subseteq {"bibliometric"} \X Entities
    BY <2>1, BibliometricStays
  <2>3. request[r].then # "screening"
    BY DEF Placed, Standing
  <2>4. Standing(q) /\ q.stage # "screening"
    BY <2>2, <2>3, AtRest
    DEF Standing, StillIn, ScreeningLabels, OwnershipLabels, BibliometricLabels
  <2>5. /\ UNCHANGED <<screening, gleif, ownership, history, enrichments, crashes>>
        /\ hits' \in [HitRows -> Nat]
    BY <2>1, BibliometricStays
  <2>6. Placed' /\ request' \in [Requests -> RequestRecords]
    BY <2>2, <2>4, <2>5, MovesPlaced DEF screening
  <2>7. ScreeningTypes'
    BY <1>1, <2>5 DEF ScreeningTypes, screening
  <2> QED
    BY <1>2, <1>4, <1>6, <2>1, <2>5, <2>6, <2>7, BibliometricTyped
<1>11. CASE OtherRunLoadsLei \/ OtherRunLoadsRelationships
  <2>1. UNCHANGED <<screening, hits, ownership, bibliometric, request, enrichments, crashes>>
    BY <1>11 DEF OtherRunLoadsLei, OtherRunLoadsRelationships
  <2>2. /\ UNCHANGED <<ownership, latest>> /\ overlapped' = TRUE
        /\ gleif_lei' \in {gleif_lei, 0}
        /\ gleif_relationships' \in {gleif_relationships, 0}
    BY <1>11 DEF OtherRunLoadsLei, OtherRunLoadsRelationships
  <2>3. OwnershipTypes'
    BY <1>1, <2>2 DEF OwnershipTypes, OneMatchEach, ownership
  <2>4. Placed' /\ request' \in [Requests -> RequestRecords]
    BY <2>1 DEF Placed, Loaded, screening, RunTypeOK
  <2> QED
    BY <1>2, <1>3, <1>5, <1>6, <2>1, <2>3, <2>4
<1>12. CASE Crash
  <2>1. request' \in [Requests -> RequestRecords] /\ \A r \in Requests : request'[r] = Idle
    BY <1>12, Records DEF Crash
  <2>2. Placed'
    BY <2>1, AtRest DEF Placed, Loaded
  <2>3. enrichments' \in Nat /\ crashes' \in Nat
    BY <1>12 DEF Crash, RunTypeOK
  <2> QED
    BY <1>2, <1>3, <1>4, <1>5, <1>12, <2>1, <2>2, <2>3 DEF Crash
<1>13. CASE UNCHANGED vars
  <2>1. Placed'
    BY <1>13 DEF vars, Placed, Loaded, screening
  <2> QED
    BY <1>2, <1>3, <1>4, <1>5, <1>6, <1>13, <2>1 DEF vars, RunTypeOK
<1> QED
  BY <1>7, <1>8, <1>9, <1>10, <1>11, <1>12, <1>13, ContinueIsAStep DEF Next

-----------------------------------------------------------------------------
\* The rows of the screening itself stay as they are.
SameHits == \A h \in HitRows : h[1] # "bibliometric" => hits'[h] = hits[h]

(***************************************************************************)
(* Requests elsewhere leave the run as it is built.                        *)
(***************************************************************************)
LEMMA BuiltElsewhere ==
  ASSUME RunTypeOK, Built, ManifestMeansWhole, NEW r \in Requests, NEW q, Moves(r, q),
         ~Ahead(q), UNCHANGED <<resolved, scored, manifest>>, SameHits, raw # 0 => raw' # 0
  PROVE  Built' /\ ManifestMeansWhole'
<1>1. \A S : HitsAre(S) => HitsAre(S)'
  BY DEF HitsAre, SameHits
<1>2. \A n : ScoresBefore(n) => ScoresBefore(n)'
  BY DEF ScoresBefore
<1>3. \A p : Progress(p) => Progress(p)'
  BY <1>1, <1>2 DEF Progress
<1>4. \A s \in Requests : Ahead(request'[s]) => request'[s] = request[s]
  BY Stepping
<1>5. Built'
  BY <1>1, <1>2, <1>3, <1>4 DEF Built
<1>6. ManifestMeansWhole'
  BY DEF ManifestMeansWhole, SameHits
<1> QED
  BY <1>5, <1>6

(***************************************************************************)
(* The one builder takes its next step.                                    *)
(***************************************************************************)
LEMMA BuilderGoesOn ==
  ASSUME RunTypeOK, NEW r \in Requests, NEW q, Moves(r, q),
         \A s \in Requests : Ahead(request[s]) => s = r,
         Progress(q)', ~manifest', 1 \in resolved'
  PROVE  Built' /\ ManifestMeansWhole'
<1>1. \A s \in Requests : Ahead(request'[s]) => s = r /\ request'[s] = q
  BY Stepping
<1>2. Built'
  BY <1>1 DEF Built
<1> QED
  BY <1>2 DEF ManifestMeansWhole

(***************************************************************************)
(* Every statement of run_screening keeps what is built: the key of        *)
(* resolved_entities lets one builder past the first entity, and its loops *)
(* insert each entity, hit and score once.                                 *)
(***************************************************************************)
LEMMA ScreeningBuilds ==
  ASSUME RunTypeOK, Placed, Built, ManifestMeansWhole, NEW r \in Requests, ScreeningStep(r)
  PROVE  Built' /\ ManifestMeansWhole'
<1>1. request[r] \in RequestRecords /\ Standing(request[r]) /\ Loaded(request[r])
  BY Records DEF Placed
<1>2. \A s \in Requests : Ahead(request[r]) /\ Ahead(request[s]) => s = r
  BY DEF Built
<1>3. Ahead(request[r]) => ~manifest /\ 1 \in resolved /\ Progress(request[r])
  BY DEF Built
<1>4. CASE InsertRaw(r)
  <2>1. PICK q : q = To(r, "insert_entities") /\ Moves(r, q)
    BY <1>4, GoesToMoves DEF InsertRaw, Labels, ScreeningLabels
  <2>2. q.at = "insert_entities" /\ q.next = 1
    BY <1>1, <1>4, <2>1 DEF To, RequestRecords, Standing, InsertRaw, At, ScreeningLabels
  <2>3. ~Ahead(q)
    BY <2>2 DEF Ahead, Past
  <2> QED
    BY <1>4, <2>1, <2>3, BuiltElsewhere DEF InsertRaw, SameHits, RunTypeOK
<1>5. CASE InsertEntity(r) /\ Ends(r) /\ UNCHANGED resolved
  <2>1. ~Ahead(Idle)
    BY AtRest DEF Ahead, Past
  <2> QED
    BY <1>5, <2>1, EndsMoves, BuiltElsewhere DEF InsertEntity, SameHits
<1>6. CASE InsertEntity(r) /\ request[r].next \notin resolved
  <2> DEFINE n == request[r].next
             label == IF request[r].hits = {} THEN "insert_scored" ELSE "delete_hits"
  <2>1. /\ request[r].at = "insert_entities" /\ request[r].stage = "screening"
        /\ request[r].hits = ScreeningHits /\ n \in Entities /\ NumEntities \in Nat
        /\ resolved' = resolved \union {n} /\ UNCHANGED <<scored, manifest, hits>>
        /\ NextEntity(r, label)
    BY <1>1, <1>6, FirstEntity
    DEF InsertEntity, At, Standing, ScreeningLabels, RequestRecords
  <2>2. /\ resolved = 1..(n - 1) /\ HitsAre({}) /\ ScoresBefore(1) /\ ~manifest
        /\ \A s \in Requests : Ahead(request[s]) => s = r
    <3>1. CASE n = 1
      <4>1. resolved = {} /\ HitsAre({}) /\ ScoresBefore(1) /\ ~manifest
        BY <1>6, <3>1 DEF Built
      <4>2. \A s \in Requests : ~Ahead(request[s])
        BY <4>1 DEF Built
      <4> QED
        BY <3>1, <4>1, <4>2
    <3>2. CASE n # 1
      <4>1. Ahead(request[r])
        BY <2>1, <3>2 DEF Ahead
      <4> QED
        BY <1>2, <1>3, <2>1, <4>1 DEF Progress
    <3> QED
      BY <3>1, <3>2
  <2>3. resolved' = 1..n /\ 1 \in resolved'
    BY <2>1, <2>2 DEF Entities
  <2>4. HitsAre({})' /\ ScoresBefore(1)'
    BY <2>1, <2>2 DEF HitsAre, ScoresBefore
  <2>5. label \in Labels
    BY DEF Labels, ScreeningLabels
  <2>6. PICK q : q = Onward(r, label) /\ Moves(r, q)
    BY <2>1, <2>5, NextEntityMoves
  <2>7. Progress(q)'
    <3>1. CASE n = NumEntities
      <4>1. q.at = label /\ q.next = 1 /\ q.hits = ScreeningHits
        BY <1>1, <2>1, <2>6, <3>1 DEF Onward, RequestRecords
      <4>2. resolved' = Entities
        BY <2>3, <3>1 DEF Entities
      <4> QED
        BY <2>1, <2>4, <4>1, <4>2 DEF Progress, Past
    <3>2. CASE n # NumEntities
      <4>1. q.at = "insert_entities" /\ q.next = n + 1 /\ q.next - 1 = n
        BY <1>1, <2>1, <2>6, <3>2 DEF Onward, RequestRecords, Entities
      <4>2. resolved' = 1..(q.next - 1)
        BY <2>3, <4>1
      <4> QED
        BY <2>4, <4>1, <4>2 DEF Progress, Past
    <3> QED
      BY <3>1, <3>2
  <2> QED
    BY <2>1, <2>2, <2>3, <2>6, <2>7, BuilderGoesOn
<1>7. ASSUME request[r].at \in {"delete_hits", "insert_hits", "insert_scored", "write_manifest"},
             request[r].stage = "screening"
      PROVE  /\ Past(request[r]) /\ resolved = Entities /\ ~manifest
             /\ \A s \in Requests : Ahead(request[s]) => s = r
             /\ Progress(request[r]) /\ 1 \in resolved
  BY <1>2, <1>3, <1>7 DEF Ahead, Past, Progress
<1>8. CASE request[r].stage = "screening" /\ DeleteHits(r)
  <2>1. /\ request[r].at = "delete_hits" /\ request[r].hits = ScreeningHits
        /\ UNCHANGED <<resolved, scored, manifest>>
    BY <1>1, <1>8 DEF DeleteHits, At, Standing, screening
  <2>2. /\ resolved = Entities /\ ~manifest /\ 1 \in resolved
        /\ \A s \in Requests : Ahead(request[s]) => s = r
        /\ HitsAre({}) /\ ScoresBefore(1)
    BY <1>7, <1>8, <2>1 DEF Progress
  <2>3. PICK q : q = To(r, "insert_hits") /\ Moves(r, q)
    BY <1>8, GoesToMoves DEF DeleteHits, Labels
  <2>4. q.at = "insert_hits" /\ q.hits = ScreeningHits
    BY <1>1, <2>1, <2>3 DEF To, RequestRecords
  <2>5. HitsAre({})' /\ ScoresBefore(1)'
    BY <1>8, <2>1, <2>2 DEF DeleteHits, HitsAre, ScoresBefore, RunTypeOK
  <2>6. Progress(q)'
    BY <2>1, <2>2, <2>4, <2>5 DEF Progress, Past
  <2> QED
    BY <2>1, <2>2, <2>3, <2>6, BuilderGoesOn
<1>9. CASE request[r].stage = "screening" /\ \E h \in request[r].hits : InsertHit(r, h)
  <2>1. PICK h \in request[r].hits : InsertHit(r, h)
    BY <1>9
  <2>2. /\ request[r].at = "insert_hits" /\ request[r].hits \subseteq ScreeningHits
        /\ request[r].next = 1 /\ AfterHits(r) = "insert_scored"
        /\ UNCHANGED <<resolved, scored, manifest>>
    BY <1>1, <1>9, <2>1 DEF InsertHit, At, Standing, AfterHits, screening
  <2>3. /\ resolved = Entities /\ ~manifest /\ 1 \in resolved
        /\ \A s \in Requests : Ahead(request[s]) => s = r
        /\ HitsAre(ScreeningHits \ request[r].hits) /\ ScoresBefore(1)
    BY <1>7, <1>9, <2>2 DEF Progress
  <2>4. PICK q : q = HitDone(r, h) /\ Moves(r, q)
    BY <2>1, InsertHitMoves
  <2>5. /\ q.hits = request[r].hits \ {h} /\ q.next = 1
        /\ q.at = IF request[r].hits = {h} THEN "insert_scored" ELSE "insert_hits"
    BY <1>1, <2>2, <2>4 DEF HitDone, RequestRecords
  <2>6. h \in HitRows /\ h \in ScreeningHits /\ h[1] # "bibliometric"
    BY <1>1, <2>2, InputAssumption DEF RequestRecords
  <2>7. HitsAre(ScreeningHits \ q.hits)'
    <3>1. hits[h] = 0
      BY <2>3, <2>6 DEF HitsAre
    <3>2. hits' = [hits EXCEPT ![h] = 1]
      BY <2>1, <3>1 DEF InsertHit
    <3>3. ASSUME NEW g \in HitRows, g[1] # "bibliometric"
          PROVE  hits'[g] = IF g \in ScreeningHits \ q.hits THEN 1 ELSE 0
      BY <2>3, <2>5, <2>6, <3>2, <3>3 DEF HitsAre, RunTypeOK
    <3> QED
      BY <3>3 DEF HitsAre
  <2>8. q.at = "insert_scored" => HitsAre(ScreeningHits)'
    BY <2>5, <2>7 DEF HitsAre
  <2>9. ScoresBefore(1)'
    BY <2>2, <2>3 DEF ScoresBefore
  <2>10. Progress(q)'
    BY <2>2, <2>3, <2>5, <2>7, <2>8, <2>9 DEF Progress, Past
  <2> QED
    BY <2>2, <2>3, <2>4, <2>10, BuilderGoesOn
<1>10. CASE InsertScored(r)
  <2> DEFINE n == request[r].next
  <2>1. /\ request[r].at = "insert_scored" /\ request[r].stage = "screening"
        /\ UNCHANGED <<resolved, hits, manifest>> /\ n \in Entities
        /\ scored' = [scored EXCEPT ![n] = @ + 1]
        /\ NextEntity(r, "write_manifest")
    BY <1>1, <1>10 DEF InsertScored, At, Standing, ScreeningLabels, RequestRecords
  <2>2. /\ resolved = Entities /\ ~manifest /\ 1 \in resolved
        /\ \A s \in Requests : Ahead(request[s]) => s = r
        /\ HitsAre(ScreeningHits) /\ ScoresBefore(n)
    BY <1>7, <2>1 DEF Progress
  <2>3. HitsAre(ScreeningHits)'
    BY <2>1, <2>2 DEF HitsAre
  <2>4. \A e \in Entities : scored'[e] = IF e < n + 1 THEN 1 ELSE 0
    <3>1. scored[n] = 0
      BY <2>1, <2>2 DEF ScoresBefore, Entities
    <3>2. scored' = [scored EXCEPT ![n] = 1]
      BY <2>1, <3>1
    <3> QED
      BY <2>1, <2>2, <3>2 DEF ScoresBefore, Entities, RunTypeOK
  <2>5. PICK q : q = Onward(r, "write_manifest") /\ Moves(r, q)
    BY <2>1, NextEntityMoves DEF Labels, ScreeningLabels
  <2>6. \/ n = NumEntities /\ q.at = "write_manifest"
        \/ q.at = "insert_scored" /\ q.next = n + 1
    BY <1>1, <2>1, <2>5 DEF Onward, RequestRecords
  <2>7. \/ q.at = "write_manifest" /\ ScoresBefore(NumEntities + 1)'
        \/ q.at = "insert_scored" /\ ScoresBefore(q.next)'
    BY <2>4, <2>6 DEF ScoresBefore
  <2>8. Progress(q)'
    BY <2>1, <2>2, <2>3, <2>7 DEF Progress, Past
  <2> QED
    BY <2>1, <2>2, <2>5, <2>8, BuilderGoesOn
<1>11. CASE WriteManifest(r)
  <2>1. /\ request[r].at = "write_manifest" /\ request[r].stage = "screening" /\ raw # 0
        /\ UNCHANGED <<raw, resolved, scored, hits>>
    BY <1>1, <1>11 DEF WriteManifest, At, Standing, Loaded, ScreeningLabels
  <2>2. /\ resolved = Entities /\ 1 \in resolved
        /\ \A s \in Requests : Ahead(request[s]) => s = r
        /\ HitsAre(ScreeningHits) /\ ScoresBefore(NumEntities + 1)
    BY <1>7, <2>1 DEF Progress
  <2>3. ManifestMeansWhole'
    <3>1. \A e \in Entities : scored[e] = 1
      BY <2>2, FirstEntity DEF ScoresBefore, Entities
    <3> QED
      BY <2>1, <2>2, <3>1 DEF ManifestMeansWhole, HitsAre
  <2>4. PICK q : q = Onto(r) /\ Moves(r, q)
    BY <1>11, WriteManifestMoves
  <2>5. request[r].then # "none" => request[r].then \in {"ownership", "bibliometric"}
    BY <1>1 DEF Standing, RequestRecords, Stages
  <2>6. ~Ahead(q)
    <3>1. CASE request[r].then = "none"
      BY <2>4, <3>1, AtRest DEF Onto, Ahead, Past
    <3>2. CASE request[r].then # "none"
      BY <2>4, <2>5, <3>2, AtFirst DEF Onto, Ahead, Past
    <3> QED
      BY <3>1, <3>2
  <2>7. \A s \in Requests : ~Ahead(request'[s])
    BY <2>2, <2>4, <2>6, Stepping
  <2>8. Built'
    BY <2>1, <2>2, <2>7 DEF Built
  <2> QED
    BY <2>3, <2>8
<1> QED
  BY <1>4, <1>5, <1>6, <1>8, <1>9, <1>10, <1>11 DEF ScreeningStep, InsertEntity

(***************************************************************************)
(* Every step keeps what is built, and a run with a manifest whole.        *)
(***************************************************************************)
LEMMA RunsStayWhole ==
  ASSUME RunTypeOK, Placed, Built, ManifestMeansWhole, [Next]_vars
  PROVE  Built' /\ ManifestMeansWhole'
<1>1. ASSUME NEW r \in Requests, NEW q, Moves(r, q), ~Ahead(q),
             UNCHANGED <<screening, hits>>
      PROVE  Built' /\ ManifestMeansWhole'
  BY <1>1, BuiltElsewhere DEF screening, SameHits
<1>2. CASE \E r \in Requests : Begin(r)
  <2>1. PICK r \in Requests : Begin(r)
    BY <1>2
  <2>2. PICK q : Moves(r, q) /\ q.at \in {"insert_raw", "load_lei", "resolve_authors"} /\ Standing(q)
    BY <2>1, BeginStays
  <2>3. ~Ahead(q)
    BY <2>2 DEF Ahead, Past, Standing, OwnershipLabels, BibliometricLabels
  <2> QED
    BY <1>1, <2>1, <2>2, <2>3, BeginStays
<1>3. CASE \E r \in Requests : ScreeningStep(r)
  BY <1>3, ScreeningBuilds
<1>4. CASE \E r \in Requests : OwnershipStep(r)
  <2>1. PICK r \in Requests : OwnershipStep(r)
    BY <1>4
  <2>2. PICK q : /\ Moves(r, q)
                 /\ q = Idle \/ (StillIn(r, q, "ownership") /\ q.at \in OwnershipLabels)
    BY <2>1, OwnershipStays
  <2>3. ~Ahead(q)
    BY <2>2, AtRest DEF Ahead, Past, StillIn, OwnershipLabels
  <2> QED
    BY <1>1, <2>1, <2>2, <2>3, OwnershipStays
<1>5. CASE \E r \in Requests : BibliometricStep(r)
  <2>1. PICK r \in Requests : BibliometricStep(r)
    BY <1>5
  <2>2. PICK q : /\ Moves(r, q)
                 /\ \/ q = Idle
                    \/ /\ StillIn(r, q, "bibliometric")
                       /\ q.at \in BibliometricLabels \union {"delete_hits", "insert_hits"}
    BY <2>1, BibliometricStays
  <2>3. ~Ahead(q)
    BY <2>2, AtRest DEF Ahead, Past, StillIn, BibliometricLabels
  <2>4. SameHits /\ UNCHANGED screening
    BY <2>1, BibliometricStays DEF SameHits
  <2> QED
    BY <2>2, <2>3, <2>4, BuiltElsewhere DEF screening
<1>6. ASSUME UNCHANGED <<resolved, hits, scored, manifest, raw>>,
             \A r \in Requests : request'[r] = request[r] \/ ~Ahead(request'[r])
      PROVE  Built' /\ ManifestMeansWhole'
  BY <1>6 DEF Built, ManifestMeansWhole, Progress, HitsAre, ScoresBefore
<1>7. CASE OtherRunLoadsLei \/ OtherRunLoadsRelationships \/ UNCHANGED vars
  BY <1>6, <1>7 DEF OtherRunLoadsLei, OtherRunLoadsRelationships, vars, screening
<1>8. CASE Crash
  <2>1. \A r \in Requests : request'[r] = Idle
    BY <1>8 DEF Crash
  <2>2. \A r \in Requests : ~Ahead(request'[r])
    BY <2>1, AtRest DEF Ahead, Past
  <2> QED
    BY <1>6, <1>8, <2>2 DEF Crash, screening
<1> QED
  BY <1>2, <1>3, <1>4, <1>5, <1>7, <1>8, ContinueIsAStep DEF Next
-----------------------------------------------------------------------------
(***************************************************************************)
(* A move covers what was covered, if the works it takes away are those it *)
(* is about to insert, and those it was about to insert are stored.        *)
(***************************************************************************)
LEMMA CoveredStays ==
  ASSUME RunTypeOK, NEW r \in Requests, NEW q, Moves(r, q),
         request[r].at = "insert_works" => request[r].author \subseteq works',
         \A a \in works : a \in works' \/ (q.at = "insert_works" /\ a \in q.author)
  PROVE  \A a : Covered(a) => Covered(a)'
<1> SUFFICES ASSUME NEW a, Covered(a) PROVE Covered(a)'
  OBVIOUS
<1>1. request'[r] = q /\ \A s \in Requests : s # r => request'[s] = request[s]
  BY Stepping
<1>2. CASE a \in works
  BY <1>1, <1>2 DEF Covered, At
<1>3. CASE \E s \in Requests : At(s, "insert_works") /\ a \in request[s].author
  <2>1. PICK s \in Requests : At(s, "insert_works") /\ a \in request[s].author
    BY <1>3
  <2>2. CASE s = r
    BY <2>1, <2>2 DEF Covered, At
  <2>3. CASE s # r
    BY <1>1, <2>1, <2>3 DEF Covered, At
  <2> QED
    BY <2>2, <2>3
<1> QED
  BY <1>2, <1>3 DEF Covered

(***************************************************************************)
(* What the others have looked at they need not look at again.             *)
(***************************************************************************)
LEMMA WorksStay ==
  ASSUME RunTypeOK, WorksKept, NEW r \in Requests, NEW q, Moves(r, q),
         \A a : Covered(a) => Covered(a)', crashes' = crashes,
         crashes = 0 => Looked(q)' /\ \A a \in authors' : Covered(a)'
  PROVE  WorksKept'
<1> SUFFICES ASSUME crashes = 0
             PROVE  (\A a \in authors' : Covered(a)') /\ \A s \in Requests : Looked(request[s])'
  BY DEF WorksKept
<1>1. \A p : Looked(p) => Looked(p)'
  BY DEF Looked
<1>2. ASSUME NEW s \in Requests PROVE Looked(request[s])'
  <2>1. CASE s = r
    BY <2>1, Stepping DEF Looked
  <2>2. CASE s # r
    <3>1. Looked(request[s])
      BY DEF WorksKept
    <3>2. request'[s] = request[s]
      BY <2>2, Stepping
    <3> QED
      BY <1>1, <3>1, <3>2 DEF Looked
  <2> QED
    BY <2>1, <2>2
<1> QED
  BY <1>2

(***************************************************************************)
(* Requests elsewhere leave works and authors alone.                       *)
(***************************************************************************)
LEMMA WorksElsewhere ==
  ASSUME RunTypeOK, WorksKept, NEW r \in Requests, NEW q, Moves(r, q),
         request[r].at # "insert_works",
         q.at \notin {"load_works", "delete_works", "insert_works", "delete_authors",
                      "insert_authors"},
         UNCHANGED <<works, authors, crashes>>
  PROVE  WorksKept'
<1>1. \A a : Covered(a) => Covered(a)'
  BY CoveredStays
<1>2. Looked(q)'
  BY DEF Looked
<1> QED
  BY <1>1, <1>2, WorksStay DEF WorksKept

(***************************************************************************)
(* Every statement of enrich_bibliometric keeps the works of the matched   *)
(* authors: what it deletes it inserts next, whoever came in between.      *)
(***************************************************************************)
LEMMA BibliometricKeepsWorks ==
  ASSUME RunTypeOK, Placed, WorksKept, NEW r \in Requests, BibliometricStep(r)
  PROVE  WorksKept'
<1>1. request[r] \in RequestRecords /\ crashes' = crashes
  BY Records, BibliometricStays
<1>2. crashes = 0 => Looked(request[r]) /\ \A a \in authors : Covered(a)
  BY DEF WorksKept
<1>3. CASE \E found \in SUBSET Authors, bibHits \in OfferedHits :
             ResolveAuthors(r, found, bibHits)
  <2>1. PICK found \in SUBSET Authors, bibHits \in OfferedHits :
               ResolveAuthors(r, found, bibHits)
    BY <1>3
  <2>2. PICK q : q = Resolved(r, found, bibHits) /\ Moves(r, q)
    BY <2>1, ResolveAuthorsMoves
  <2>3. /\ q.found = found /\ q.todo = found
        /\ q.at = IF found = {} THEN "delete_authors" ELSE "load_works"
    BY <1>1, <2>2 DEF Resolved, RequestRecords
  <2>4. \A a : Covered(a) => Covered(a)'
    BY <2>1, <2>2, CoveredStays DEF ResolveAuthors, At, bibliometric
  <2>5. Looked(q)' /\ UNCHANGED authors
    BY <2>1, <2>3 DEF Looked, ResolveAuthors, bibliometric
  <2> QED
    BY <1>1, <1>2, <2>2, <2>4, <2>5, WorksStay
<1>4. ASSUME NEW q, NEW done, q = WorksDone(r, done), Moves(r, q), done \subseteq works',
             \A a : Covered(a) => Covered(a)', UNCHANGED authors,
             request[r].at \in {"load_works", "insert_works"}
      PROVE  WorksKept'
  <2>1. /\ q.found = request[r].found /\ q.todo = request[r].todo \ done
        /\ q.at = IF request[r].todo \subseteq done THEN "delete_authors" ELSE "load_works"
    BY <1>1, <1>4 DEF WorksDone, RequestRecords
  <2>2. \A a \in done : Covered(a)'
    BY <1>4 DEF Covered
  <2>3. crashes = 0 => \A a \in request[r].found \ request[r].todo : Covered(a)'
    BY <1>2, <1>4 DEF Looked
  <2>4. crashes = 0 => Looked(q)'
    BY <2>1, <2>2, <2>3 DEF Looked
  <2> QED
    BY <1>1, <1>2, <1>4, <2>4, WorksStay
<1>5. CASE \E a \in request[r].todo : LoadWorks(r, a)
  <2>1. PICK a \in request[r].todo : LoadWorks(r, a)
    BY <1>5
  <2>2. request[r].at = "load_works" /\ UNCHANGED <<works, authors>>
    BY <2>1 DEF LoadWorks, At, bibliometric
  <2>3. CASE a \in works /\ Moves(r, WorksDone(r, {a}))
    <3>1. PICK q : q = WorksDone(r, {a}) /\ Moves(r, q)
      BY <2>3
    <3>2. \A b : Covered(b) => Covered(b)'
      BY <2>2, <3>1, CoveredStays
    <3> QED
      BY <1>4, <2>2, <2>3, <3>1, <3>2
  <2>4. CASE Moves(r, Fetched(r, a))
    <3>1. PICK q : q = Fetched(r, a) /\ Moves(r, q)
      BY <2>4
    <3>2. q.at = "delete_works" /\ q.found = request[r].found /\ q.todo = request[r].todo
      BY <1>1, <3>1 DEF Fetched, RequestRecords
    <3>3. \A b : Covered(b) => Covered(b)'
      BY <2>2, <3>1, CoveredStays
    <3>4. crashes = 0 => Looked(q)'
      BY <1>2, <2>2, <3>2, <3>3 DEF Looked
    <3> QED
      BY <1>1, <1>2, <2>2, <3>1, <3>3, <3>4, WorksStay
  <2>5. CASE Moves(r, Idle)
    BY <1>1, <2>2, <2>5, AtRest, WorksElsewhere
  <2> QED
    BY <2>1, <2>3, <2>4, <2>5, LoadWorksMoves
<1>6. CASE DeleteWorks(r)
  <2>1. PICK q : q = To(r, "insert_works") /\ Moves(r, q)
    BY <1>6, GoesToMoves DEF DeleteWorks, Labels, BibliometricLabels
  <2>2. /\ q.at = "insert_works" /\ q.found = request[r].found /\ q.todo = request[r].todo
        /\ q.author = request[r].author
    BY <1>1, <2>1 DEF To, RequestRecords
  <2>3. \A a : Covered(a) => Covered(a)'
    BY <1>6, <2>1, <2>2, CoveredStays DEF DeleteWorks, At
  <2>4. crashes = 0 => Looked(q)'
    BY <1>2, <1>6, <2>2, <2>3 DEF Looked, DeleteWorks, At
  <2> QED
    BY <1>1, <1>2, <1>6, <2>1, <2>3, <2>4, WorksStay DEF DeleteWorks
<1>7. CASE InsertWorks(r)
  <2>1. request[r].at = "insert_works" /\ UNCHANGED authors
    BY <1>7 DEF InsertWorks, At
  <2>2. CASE request[r].author \subseteq works /\ Ends(r) /\ UNCHANGED works
    <3>1. \A a : Covered(a) => Covered(a)'
      BY <2>2, EndsMoves, CoveredStays
    <3>2. Looked(Idle)'
      BY DEF Looked, Idle
    <3> QED
      BY <1>1, <1>2, <2>1, <2>2, <3>1, <3>2, EndsMoves, WorksStay
  <2>3. CASE works' = works \union request[r].author /\ HasWorks(r, request[r].author)
    <3>1. PICK q : q = WorksDone(r, request[r].author) /\ Moves(r, q)
      BY <2>3, HasWorksMoves
    <3>2. \A a : Covered(a) => Covered(a)'
      BY <2>3, <3>1, CoveredStays
    <3> QED
      BY <1>4, <2>1, <2>3, <3>1, <3>2
  <2> QED
    BY <1>7, <2>2, <2>3 DEF InsertWorks
<1>8. HitsLabel(r) \in {"write_bib_manifest", "delete_hits"}
  BY DEF HitsLabel
<1>9. CASE DeleteAuthors(r)
  <2>1. PICK q : q = AuthorsDeleted(r) /\ Moves(r, q)
    BY <1>9, AuthorsMove
  <2>2. /\ q.found = request[r].found /\ q.todo = request[r].found
        /\ q.at \in {"write_bib_manifest", "delete_hits", "insert_authors"}
    BY <1>1, <1>8, <2>1 DEF AuthorsDeleted, RequestRecords
  <2>3. \A a : Covered(a) => Covered(a)'
    BY <1>9, <2>1, CoveredStays DEF DeleteAuthors, At
  <2>4. crashes = 0 => Looked(q)'
    BY <1>2, <1>9, <2>2, <2>3 DEF Looked, DeleteAuthors, At
  <2> QED
    BY <1>1, <1>9, <2>1, <2>3, <2>4, WorksStay DEF DeleteAuthors
<1>10. CASE \E a \in request[r].todo : InsertAuthor(r, a)
  <2>1. PICK a \in request[r].todo : InsertAuthor(r, a)
    BY <1>10
  <2>2. PICK q : q = AuthorDone(r, a) /\ Moves(r, q)
    BY <2>1, AuthorsMove
  <2>3. /\ q.found = request[r].found /\ q.todo = request[r].todo \ {a}
        /\ q.at \in {"write_bib_manifest", "delete_hits", "insert_authors"}
    BY <1>1, <1>8, <2>1, <2>2 DEF AuthorDone, RequestRecords, InsertAuthor, At
  <2>4. \A b : Covered(b) => Covered(b)'
    BY <2>1, <2>2, CoveredStays DEF InsertAuthor, At
  <2>5. crashes = 0 => Looked(q)' /\ Covered(a)
    BY <1>2, <2>1, <2>3, <2>4 DEF Looked, InsertAuthor, At
  <2>6. crashes = 0 => \A b \in authors' : Covered(b)'
    BY <1>2, <2>1, <2>4, <2>5 DEF InsertAuthor
  <2> QED
    BY <1>1, <2>2, <2>4, <2>5, <2>6, WorksStay
<1>11. CASE WriteBibManifest(r)
  BY <1>1, <1>11, EndsMoves, AtRest, WorksElsewhere DEF WriteBibManifest, At
<1>12. CASE request[r].stage = "bibliometric" /\ DeleteHits(r)
  <2>1. PICK q : q = To(r, "insert_hits") /\ Moves(r, q)
    BY <1>12, GoesToMoves DEF DeleteHits, Labels
  <2>2. q.at = "insert_hits" /\ request[r].at = "delete_hits" /\ UNCHANGED <<works, authors>>
    BY <1>1, <1>12, <2>1 DEF To, RequestRecords, DeleteHits, At, bibliometric
  <2> QED
    BY <1>1, <2>1, <2>2, WorksElsewhere
<1>13. CASE request[r].stage = "bibliometric" /\ \E h \in request[r].hits : InsertHit(r, h)
  <2>1. PICK h \in request[r].hits : InsertHit(r, h)
    BY <1>13
  <2>2. PICK q : q = HitDone(r, h) /\ Moves(r, q)
    BY <2>1, InsertHitMoves
  <2>3. /\ q.at \in {"insert_hits", "write_bib_manifest"} /\ request[r].at = "insert_hits"
        /\ UNCHANGED <<works, authors>>
    BY <1>1, <1>13, <2>1, <2>2
    DEF HitDone, RequestRecords, AfterHits, InsertHit, At, bibliometric
  <2> QED
    BY <1>1, <2>2, <2>3, WorksElsewhere
<1> QED
  BY <1>3, <1>5, <1>6, <1>7, <1>9, <1>10, <1>11, <1>12, <1>13 DEF BibliometricStep

(***************************************************************************)
(* Every step keeps them.                                                  *)
(***************************************************************************)
LEMMA WorksAreKeptByNext ==
  ASSUME RunTypeOK, Placed, WorksKept, [Next]_vars
  PROVE  WorksKept'
<1>1. ASSUME NEW r \in Requests, request[r].at \in BibliometricLabels
      PROVE  request[r].stage = "bibliometric"
  BY <1>1 DEF Placed, Standing
<1>2. CASE \E r \in Requests : Begin(r)
  <2>1. PICK r \in Requests : Begin(r)
    BY <1>2
  <2>2. PICK q : Moves(r, q) /\ q.at \in {"insert_raw", "load_lei", "resolve_authors"}
    BY <2>1, BeginStays
  <2> QED
    BY <2>1, <2>2, BeginStays, WorksElsewhere DEF bibliometric
<1>3. CASE \E r \in Requests : ScreeningStep(r)
  <2>1. PICK r \in Requests : ScreeningStep(r)
    BY <1>3
  <2>2. PICK q : /\ Moves(r, q)
                 /\ \/ q = Idle
                    \/ q.at \in ScreeningLabels \union {"delete_hits", "insert_hits"}
                    \/ /\ request[r].then \in {"ownership", "bibliometric"}
                       /\ q = Enricher(request[r].then, request[r].number)
    BY <2>1, ScreeningStays
  <2>3. q.at \in ScreeningLabels \union {"idle", "delete_hits", "insert_hits", "load_lei",
                                         "resolve_authors"}
    BY <2>2, AtRest, AtFirst
  <2>4. request[r].at # "insert_works" /\ UNCHANGED <<works, authors, crashes>>
    BY <1>1, <2>1, ScreeningStays DEF BibliometricLabels, bibliometric
  <2> QED
    BY <2>2, <2>3, <2>4, WorksElsewhere DEF ScreeningLabels
<1>4. CASE \E r \in Requests : OwnershipStep(r)
  <2>1. PICK r \in Requests : OwnershipStep(r)
    BY <1>4
  <2>2. PICK q : Moves(r, q) /\ (q = Idle \/ q.at \in OwnershipLabels)
    BY <2>1, OwnershipStays
  <2>3. request[r].at # "insert_works" /\ UNCHANGED <<works, authors, crashes>>
    BY <1>1, <2>1, OwnershipStays DEF BibliometricLabels, bibliometric
  <2> QED
    BY <2>2, <2>3, AtRest, WorksElsewhere DEF OwnershipLabels
<1>5. CASE \E r \in Requests : BibliometricStep(r)
  BY <1>5, BibliometricKeepsWorks
<1>6. CASE OtherRunLoadsLei \/ OtherRunLoadsRelationships \/ UNCHANGED vars
  <2>1. UNCHANGED <<works, authors, request, crashes>>
    BY <1>6 DEF OtherRunLoadsLei, OtherRunLoadsRelationships, vars, bibliometric
  <2> QED
    BY <2>1 DEF WorksKept, Looked, Covered, At
<1>7. CASE Crash
  <2>1. crashes' # 0
    BY <1>7 DEF Crash, RunTypeOK
  <2> QED
    BY <2>1 DEF WorksKept
<1> QED
  BY <1>2, <1>3, <1>4, <1>5, <1>6, <1>7, ContinueIsAStep DEF Next
-----------------------------------------------------------------------------
(***************************************************************************)
(* A request that keeps its number, or gives it up, leaves numbers fresh.  *)
(***************************************************************************)
LEMMA NumbersStay ==
  ASSUME RunTypeOK, Numbered, NEW r \in Requests, NEW q, Moves(r, q),
         q.number \in {0, request[r].number},
         q.stage = "ownership" \/ q.then = "ownership" => q.number # 0,
         enrichments' = enrichments,
         latest' \in {latest, request[r].number},
         \/ gleif_manifest' = gleif_manifest
         \/ gleif_manifest' = request[r].number /\ q.number = 0
  PROVE  Numbered'
<1>1. request'[r] = q /\ \A s \in Requests : s # r => request'[s] = request[s]
  BY Stepping
<1>2. gleif_manifest' <= enrichments' /\ latest' <= enrichments'
  BY DEF Numbered
<1>3. \A s \in Requests :
        /\ request'[s].number <= enrichments'
        /\ request'[s].number # 0 => request'[s].number = request[s].number
        /\ request'[s].stage = "ownership" \/ request'[s].then = "ownership" =>
             request'[s].number # 0
  <2>1. 0 <= enrichments
    BY DEF RunTypeOK
  <2> QED
    BY <1>1, <2>1 DEF Numbered
<1>4. \A s \in Requests : request'[s].number # 0 => request'[s].number # gleif_manifest'
  BY <1>1 DEF Numbered
<1>5. \A s, t \in Requests :
        request'[s].number # 0 /\ request'[s].number = request'[t].number => s = t
  BY <1>3 DEF Numbered
<1> QED
  BY <1>2, <1>3, <1>4, <1>5 DEF Numbered

(***************************************************************************)
(* Every step leaves them fresh: a new enrichment has the next one.        *)
(***************************************************************************)
LEMMA NumbersAreFresh ==
  ASSUME RunTypeOK, Placed, Numbered, [Next]_vars
  PROVE  Numbered'
<1>1. \A r \in Requests : request[r].stage = "ownership" \/ request[r].then = "ownership" =>
        request[r].number # 0
  BY DEF Numbered
<1>2. CASE \E r \in Requests : Begin(r)
  <2>1. PICK r \in Requests : Begin(r)
    BY <1>2
  <2>2. PICK q : /\ Moves(r, q)
                 /\ \/ /\ q.number = 0 /\ q.stage = "screening" /\ q.then = "none"
                       /\ enrichments' = enrichments
                    \/ q.number = enrichments + 1 /\ enrichments' = enrichments + 1
    BY <2>1, BeginStays
  <2>3. UNCHANGED <<gleif_manifest, latest>>
    BY <2>1, BeginStays DEF ownership, history
  <2>4. CASE q.number = 0 /\ q.stage = "screening" /\ q.then = "none" /\ enrichments' = enrichments
    BY <2>2, <2>3, <2>4, NumbersStay
  <2>5. CASE q.number = enrichments + 1 /\ enrichments' = enrichments + 1
    <3>1. request'[r] = q /\ \A s \in Requests : s # r => request'[s] = request[s]
      BY <2>2, Stepping
    <3>2. \A s \in Requests : request[s].number \in Nat /\ request[s].number <= enrichments
      BY Records DEF RequestRecords, Numbered
    <3>3. enrichments \in Nat /\ gleif_manifest \in Nat /\ latest \in Nat
      BY DEF RunTypeOK
    <3>4. gleif_manifest' <= enrichments' /\ latest' <= enrichments'
      BY <2>3, <2>5, <3>3 DEF Numbered
    <3>5. \A s \in Requests :
            /\ request'[s].number <= enrichments'
            /\ request'[s].number # 0 => request'[s].number # gleif_manifest'
            /\ request'[s].stage = "ownership" \/ request'[s].then = "ownership" =>
                 request'[s].number # 0
      BY <2>3, <2>5, <3>1, <3>2, <3>3 DEF Numbered
    <3>6. \A s, t \in Requests :
            request'[s].number # 0 /\ request'[s].number = request'[t].number => s = t
      BY <2>5, <3>1, <3>2, <3>3 DEF Numbered
    <3> QED
      BY <3>4, <3>5, <3>6 DEF Numbered
  <2> QED
    BY <2>2, <2>4, <2>5
<1>3. CASE \E r \in Requests : ScreeningStep(r)
  <2>1. PICK r \in Requests : ScreeningStep(r)
    BY <1>3
  <2>2. PICK q : /\ Moves(r, q)
                 /\ \/ q = Idle
                    \/ StillIn(r, q, "screening")
                    \/ /\ request[r].then \in {"ownership", "bibliometric"}
                       /\ q = Enricher(request[r].then, request[r].number)
    BY <2>1, ScreeningStays
  <2>3. /\ q.number \in {0, request[r].number}
        /\ q.stage = "ownership" \/ q.then = "ownership" => q.number # 0
    BY <1>1, <2>2, AtRest, AtFirst DEF StillIn
  <2> QED
    BY <2>1, <2>2, <2>3, ScreeningStays, NumbersStay DEF ownership, history
<1>4. CASE \E r \in Requests : OwnershipStep(r)
  <2>1. PICK r \in Requests : OwnershipStep(r)
    BY <1>4
  <2>2. request[r].number # 0 /\ enrichments' = enrichments
    BY <1>1, <2>1, OwnershipStays
  <2>3. CASE WriteGleifManifest(r)
    <3>1. Moves(r, Idle) /\ gleif_manifest' = request[r].number /\ UNCHANGED latest
      BY <2>3, EndsMoves DEF WriteGleifManifest, history
    <3> QED
      BY <2>2, <3>1, AtRest, NumbersStay
  <2>4. CASE ~WriteGleifManifest(r)
    <3>1. PICK q : Moves(r, q) /\ (q = Idle \/ StillIn(r, q, "ownership"))
      BY <2>1, OwnershipStays
    <3>2. /\ q.number \in {0, request[r].number}
          /\ q.stage = "ownership" \/ q.then = "ownership" => q.number # 0
      BY <2>2, <3>1, AtRest DEF StillIn
    <3>3. gleif_manifest' = gleif_manifest /\ latest' \in {latest, request[r].number}
      BY <2>1, <2>4 DEF OwnershipStep, LoadLei, LoadRelationships, MatchEntity,
        ClimbToParents, DeleteMatches, InsertMatch, DeleteFlags, InsertFlag, ownership, history
    <3> QED
      BY <2>2, <3>1, <3>2, <3>3, NumbersStay
  <2> QED
    BY <2>3, <2>4
<1>5. CASE \E r \in Requests : BibliometricStep(r)
  <2>1. PICK r \in Requests : BibliometricStep(r)
    BY <1>5
  <2>2. PICK q : Moves(r, q) /\ (q = Idle \/ StillIn(r, q, "bibliometric"))
    BY <2>1, BibliometricStays
  <2>3. /\ q.number \in {0, request[r].number}
        /\ q.stage = "ownership" \/ q.then = "ownership" => q.number # 0
    BY <1>1, <2>2, AtRest DEF StillIn
  <2> QED
    BY <2>1, <2>2, <2>3, BibliometricStays, NumbersStay DEF ownership, history
<1>6. CASE OtherRunLoadsLei \/ OtherRunLoadsRelationships \/ UNCHANGED vars
  <2>1. UNCHANGED <<gleif_manifest, latest, request, enrichments>>
    BY <1>6 DEF OtherRunLoadsLei, OtherRunLoadsRelationships, vars, ownership, history
  <2> QED
    BY <2>1 DEF Numbered
<1>7. CASE Crash
  <2>1. UNCHANGED <<gleif_manifest, latest, enrichments>> /\ \A r \in Requests : request'[r] = Idle
    BY <1>7 DEF Crash, ownership, history
  <2>2. 0 <= enrichments
    BY DEF RunTypeOK
  <2> QED
    BY <2>1, <2>2, AtRest DEF Numbered
<1> QED
  BY <1>2, <1>3, <1>4, <1>5, <1>6, <1>7, ContinueIsAStep DEF Next
-----------------------------------------------------------------------------
(***************************************************************************)
(* Requests elsewhere leave an enrichment alone.                           *)
(***************************************************************************)
LEMMA AloneElsewhere ==
  ASSUME RunTypeOK, OwnedAlone, NEW r \in Requests, NEW q, Moves(r, q),
         q.at \notin OwnershipLabels, UNCHANGED <<gleif, ownership, history>>
  PROVE  OwnedAlone'
<1>1. \A s \in Requests : Owning(s)' => Owning(s) /\ request'[s] = request[s]
  BY Stepping DEF Owning
<1> QED
  BY <1>1 DEF OwnedAlone, Alone, Own, gleif, ownership, history

(***************************************************************************)
(* The enrichment no other load met goes on.                               *)
(***************************************************************************)
LEMMA AloneGoesOn ==
  ASSUME RunTypeOK, OwnedAlone, NEW r \in Requests, Owning(r), NEW q, Moves(r, q),
         UNCHANGED history,
         ~overlapped => Alone(q)',
         ~overlapped /\ gleif_manifest' = latest => Own(lei_matches \union ownership_flags)'
  PROVE  OwnedAlone'
<1> SUFFICES ASSUME ~overlapped
             PROVE  /\ \A s, t \in Requests : Owning(s)' /\ Owning(t)' => s = t
                    /\ \A s \in Requests : Owning(s)' => Alone(request[s])'
                    /\ (gleif_manifest = latest => Own(lei_matches \union ownership_flags))'
  BY DEF OwnedAlone, history
<1>1. \A s \in Requests : Owning(s)' => s = r
  BY Stepping DEF OwnedAlone, Owning
<1>2. request'[r] = q
  BY Stepping
<1>3. \A s \in Requests : Owning(s)' => Alone(request[s])'
  BY <1>1, <1>2 DEF Alone
<1> QED
  BY <1>1, <1>3 DEF history

(***************************************************************************)
(* A statement of enrich_ownership works on what its own loads brought.    *)
(***************************************************************************)
LEMMA OwnershipStaysAlone ==
  ASSUME RunTypeOK, Placed, Numbered, OwnedAlone, NEW r \in Requests, OwnershipStep(r)
  PROVE  OwnedAlone'
<1>1. request[r] \in RequestRecords /\ request[r].stage = "ownership"
  BY Records, OwnershipStays
<1>2. request[r].number # 0 /\ request[r].number # gleif_manifest
  BY <1>1 DEF Numbered
<1>3. Owning(r) /\ ~overlapped =>
        /\ Alone(request[r]) /\ gleif_manifest # latest /\ request[r].number = latest
  BY <1>2 DEF OwnedAlone, Alone
<1>4. ASSUME NEW q, Moves(r, q), Owning(r), UNCHANGED <<history, gleif_manifest>>,
             ~overlapped => Alone(q)'
      PROVE  OwnedAlone'
  BY <1>3, <1>4, AloneGoesOn
<1>5. ASSUME Moves(r, Idle), UNCHANGED <<gleif, ownership, history>>
      PROVE  OwnedAlone'
  BY <1>5, AtRest, AloneElsewhere DEF OwnershipLabels
<1>6. CASE LoadLei(r)
  <2>1. PICK q : q = To(r, "load_relationships") /\ Moves(r, q)
    BY <1>6, GoesToMoves DEF LoadLei, Labels, OwnershipLabels
  <2>2. /\ q.at = "load_relationships" /\ q.number = request[r].number
        /\ q.matches = {} /\ q.flags = {}
    BY <1>1, <1>6, <2>1 DEF To, RequestRecords, LoadLei, At, Placed, Standing
  <2>3. ~overlapped' => \A s \in Requests : Owning(s)' => s = r
    BY <1>6, <2>1, Stepping DEF LoadLei, Owning
  <2>4. gleif_manifest' # latest'
    BY <1>2, <1>6 DEF LoadLei, ownership
  <2>5. Alone(q)'
    BY <1>6, <2>2 DEF LoadLei, Alone, Own
  <2>6. \A s \in Requests : s = r => Alone(request[s])'
    BY <2>1, <2>5, Stepping DEF Alone
  <2> QED
    BY <2>3, <2>4, <2>6 DEF OwnedAlone
<1>7. CASE LoadRelationships(r)
  <2>1. PICK q : q = To(r, "match") /\ Moves(r, q)
    BY <1>7, GoesToMoves DEF LoadRelationships, Labels, OwnershipLabels
  <2>2. /\ q.at = "match" /\ q.number = request[r].number
        /\ q.matches = request[r].matches /\ q.flags = request[r].flags
    BY <1>1, <2>1 DEF To, RequestRecords
  <2>3. Owning(r) /\ UNCHANGED <<history, gleif_manifest, gleif_lei>>
    BY <1>7 DEF LoadRelationships, At, Owning, OwnershipLabels, ownership
  <2>4. ~overlapped => Alone(q)'
    BY <1>3, <1>7, <2>2, <2>3 DEF LoadRelationships, Alone, Own, history
  <2> QED
    BY <1>4, <2>1, <2>3, <2>4
<1>8. CASE MatchEntity(r)
  <2>1. /\ request[r].at = "match" /\ Owning(r)
        /\ UNCHANGED <<gleif, ownership, history>>
    BY <1>8 DEF MatchEntity, At, Owning, OwnershipLabels
  <2>2. CASE Moves(r, Onward(r, "delete_matches"))
    <3>1. PICK q : q = Onward(r, "delete_matches") /\ Moves(r, q)
      BY <2>2
    <3>2. /\ q.at \in {"match", "delete_matches"} /\ q.number = request[r].number
          /\ q.matches = request[r].matches /\ q.flags = request[r].flags
      BY <1>1, <2>1, <3>1 DEF Onward, RequestRecords
    <3>3. ~overlapped => Alone(q)'
      BY <1>3, <2>1, <3>2 DEF Alone, Own, gleif, history
    <3> QED
      BY <1>4, <2>1, <3>1, <3>3 DEF ownership
  <2>3. CASE Moves(r, Matched(r))
    <3>1. PICK q : q = Matched(r) /\ Moves(r, q)
      BY <2>3
    <3>2. /\ q.at = "climb" /\ q.number = request[r].number
          /\ q.matches = request[r].matches \union {MatchOf(r)} /\ q.flags = request[r].flags
      BY <1>1, <3>1 DEF Matched, RequestRecords
    <3>3. MatchOf(r).by = request[r].number /\ MatchOf(r).loads = {gleif_lei}
      BY DEF MatchOf
    <3>4. ~overlapped => Own(q.matches) /\ Own(q.flags)
      BY <1>3, <2>1, <3>2, <3>3 DEF Alone, Own
    <3>5. ~overlapped => Alone(q)'
      BY <1>3, <2>1, <3>2, <3>4 DEF Alone, Own, gleif, history
    <3> QED
      BY <1>4, <2>1, <3>1, <3>5 DEF ownership
  <2> QED
    BY <1>8, <2>2, <2>3, MatchEntityMoves
<1>9. CASE ClimbToParents(r)
  <2>1. /\ request[r].at = "climb" /\ Owning(r)
        /\ UNCHANGED <<gleif, ownership, history>>
    BY <1>9 DEF ClimbToParents, At, Owning, OwnershipLabels
  <2>2. PICK m \in request[r].matches, find \in {"no_foreign_parent", "flagged"} :
          Moves(r, Climbed(r, m, find))
    BY <1>9, ClimbMoves
  <2>3. PICK q : q = Climbed(r, m, find) /\ Moves(r, q)
    BY <2>2
  <2>4. /\ q.at \in {"match", "delete_matches"} /\ q.number = request[r].number
        /\ q.matches = request[r].matches
        /\ q.flags \subseteq request[r].flags \union {FlagOf(m)}
    BY <1>1, <2>3 DEF Climbed, RequestRecords
  <2>5. FlagOf(m).by = m.by /\ FlagOf(m).loads = m.loads \union {gleif_lei, gleif_relationships}
    BY <1>1 DEF FlagOf, RequestRecords, OwnershipRows
  <2>6. ~overlapped => m.by = latest /\ m.loads = {latest} /\ gleif_lei = latest
                       /\ gleif_relationships = latest
    BY <1>3, <2>1 DEF Alone, Own
  <2>7. ~overlapped => FlagOf(m).by = latest /\ FlagOf(m).loads = {latest}
    BY <2>5, <2>6
  <2>8. ~overlapped => Own(q.matches) /\ Own(q.flags)
    BY <1>3, <2>1, <2>4, <2>7 DEF Alone, Own
  <2>9. ~overlapped => Alone(q)'
    BY <1>3, <2>1, <2>4, <2>8 DEF Alone, Own, gleif, history
  <2> QED
    BY <1>4, <2>1, <2>3, <2>9 DEF ownership
<1>10. CASE DeleteMatches(r)
  <2>1. PICK q : /\ q = To(r, IF request[r].matches = {} THEN "delete_flags" ELSE "insert_matches")
                 /\ Moves(r, q)
    BY <1>10, GoesToMoves DEF DeleteMatches, Labels, OwnershipLabels
  <2>2. /\ q.at \in {"delete_flags", "insert_matches"} /\ q.number = request[r].number
        /\ q.matches = request[r].matches /\ q.flags = request[r].flags
    BY <1>1, <2>1 DEF To, RequestRecords
  <2>3. /\ request[r].at = "delete_matches" /\ Owning(r) /\ lei_matches' = {}
        /\ UNCHANGED <<history, gleif, gleif_manifest>>
    BY <1>10 DEF DeleteMatches, At, Owning, OwnershipLabels
  <2>4. ~overlapped => Alone(q)'
    BY <1>3, <2>2, <2>3 DEF Alone, Own, gleif, history
  <2> QED
    BY <1>4, <2>1, <2>3, <2>4
<1>11. CASE \E m \in request[r].matches : InsertMatch(r, m)
  <2>1. PICK m \in request[r].matches : InsertMatch(r, m)
    BY <1>11
  <2>2. /\ request[r].at = "insert_matches" /\ Owning(r)
        /\ UNCHANGED <<history, gleif, gleif_manifest, ownership_flags>>
    BY <2>1 DEF InsertMatch, At, Owning, OwnershipLabels
  <2>3. CASE Moves(r, Idle) /\ lei_matches' = lei_matches
    BY <1>5, <2>2, <2>3 DEF ownership
  <2>4. CASE Moves(r, MatchDone(r, m)) /\ lei_matches' = lei_matches \union {m}
    <3>1. PICK q : q = MatchDone(r, m) /\ Moves(r, q)
      BY <2>4
    <3>2. /\ q.at \in {"insert_matches", "delete_flags"} /\ q.number = request[r].number
          /\ q.matches \subseteq request[r].matches /\ q.flags = request[r].flags
      BY <1>1, <2>2, <3>1 DEF MatchDone, RequestRecords
    <3>3. ~overlapped => Alone(q)'
      BY <1>3, <2>2, <2>4, <3>2 DEF Alone, Own, gleif, history
    <3> QED
      BY <1>4, <2>2, <3>1, <3>3
  <2> QED
    BY <2>1, <2>3, <2>4, InsertMatchMoves
<1>12. CASE DeleteFlags(r)
  <2>1. PICK q : /\ q = To(r, IF request[r].flags = {} THEN "write_gleif_manifest"
                              ELSE "insert_flags")
                 /\ Moves(r, q)
    BY <1>12, GoesToMoves DEF DeleteFlags, Labels, OwnershipLabels
  <2>2. /\ q.at \in {"write_gleif_manifest", "insert_flags"} /\ q.number = request[r].number
        /\ q.matches = request[r].matches /\ q.flags = request[r].flags
    BY <1>1, <2>1 DEF To, RequestRecords
  <2>3. /\ request[r].at = "delete_flags" /\ Owning(r) /\ ownership_flags' = {}
        /\ UNCHANGED <<history, gleif, gleif_manifest, lei_matches>>
    BY <1>12 DEF DeleteFlags, At, Owning, OwnershipLabels
  <2>4. ~overlapped => Alone(q)'
    BY <1>3, <2>2, <2>3 DEF Alone, Own, gleif, history
  <2> QED
    BY <1>4, <2>1, <2>3, <2>4
<1>13. CASE \E f \in request[r].flags : InsertFlag(r, f)
  <2>1. PICK f \in request[r].flags : InsertFlag(r, f)
    BY <1>13
  <2>2. /\ request[r].at = "insert_flags" /\ Owning(r)
        /\ ownership_flags' = ownership_flags \union {f}
        /\ UNCHANGED <<history, gleif, gleif_manifest, lei_matches>>
    BY <2>1 DEF InsertFlag, At, Owning, OwnershipLabels
  <2>3. PICK q : q = FlagDone(r, f) /\ Moves(r, q)
    BY <2>1, InsertFlagMoves
  <2>4. /\ q.at \in {"insert_flags", "write_gleif_manifest"} /\ q.number = request[r].number
        /\ q.matches = request[r].matches /\ q.flags \subseteq request[r].flags
    BY <1>1, <2>2, <2>3 DEF FlagDone, RequestRecords
  <2>5. ~overlapped => Alone(q)'
    BY <1>3, <2>2, <2>4 DEF Alone, Own, gleif, history
  <2> QED
    BY <1>4, <2>2, <2>3, <2>5
<1>14. CASE WriteGleifManifest(r)
  <2>1. /\ request[r].at = "write_gleif_manifest" /\ Owning(r) /\ Moves(r, Idle)
        /\ UNCHANGED <<history, lei_matches, ownership_flags>>
    BY <1>14, EndsMoves DEF WriteGleifManifest, At, Owning, OwnershipLabels
  <2>2. ~overlapped => Own(lei_matches \union ownership_flags)
    BY <1>3, <2>1 DEF Alone, Own
  <2>3. \A s \in Requests : Owning(s)' => Owning(s) /\ s # r
    BY <2>1, AtRest, Stepping DEF Owning, OwnershipLabels
  <2>4. ~overlapped => \A s \in Requests : ~Owning(s)'
    BY <2>1, <2>3 DEF OwnedAlone
  <2>5. ~overlapped => Own(lei_matches \union ownership_flags)'
    BY <2>1, <2>2 DEF Own, history
  <2> QED
    BY <2>1, <2>4, <2>5 DEF OwnedAlone, history
<1> QED
  BY <1>6, <1>7, <1>8, <1>9, <1>10, <1>11, <1>12, <1>13, <1>14 DEF OwnershipStep

(***************************************************************************)
(* Every step keeps an enrichment alone, or tells that it was met.         *)
(***************************************************************************)
LEMMA AloneIsKept ==
  ASSUME RunTypeOK, Placed, Numbered, OwnedAlone, [Next]_vars
  PROVE  OwnedAlone'
<1>1. CASE \E r \in Requests : Begin(r)
  <2>1. PICK r \in Requests : Begin(r)
    BY <1>1
  <2>2. PICK q : Moves(r, q) /\ q.at \in {"insert_raw", "load_lei", "resolve_authors"}
    BY <2>1, BeginStays
  <2> QED
    BY <2>1, <2>2, BeginStays, AloneElsewhere DEF OwnershipLabels
<1>2. CASE \E r \in Requests : ScreeningStep(r)
  <2>1. PICK r \in Requests : ScreeningStep(r)
    BY <1>2
  <2>2. PICK q : /\ Moves(r, q)
                 /\ \/ q = Idle
                    \/ q.at \in ScreeningLabels \union {"delete_hits", "insert_hits"}
                    \/ /\ request[r].then \in {"ownership", "bibliometric"}
                       /\ q = Enricher(request[r].then, request[r].number)
    BY <2>1, ScreeningStays
  <2>3. q.at \notin OwnershipLabels
    BY <2>2, AtRest, AtFirst DEF ScreeningLabels, OwnershipLabels
  <2> QED
    BY <2>1, <2>2, <2>3, ScreeningStays, AloneElsewhere
<1>3. CASE \E r \in Requests : OwnershipStep(r)
  BY <1>3, OwnershipStaysAlone
<1>4. CASE \E r \in Requests : BibliometricStep(r)
  <2>1. PICK r \in Requests : BibliometricStep(r)
    BY <1>4
  <2>2. PICK q : /\ Moves(r, q)
                 /\ q = Idle \/ q.at \in BibliometricLabels \union {"delete_hits", "insert_hits"}
    BY <2>1, BibliometricStays
  <2>3. q.at \notin OwnershipLabels
    BY <2>2, AtRest DEF BibliometricLabels, OwnershipLabels
  <2> QED
    BY <2>1, <2>2, <2>3, BibliometricStays, AloneElsewhere
<1>5. CASE OtherRunLoadsLei \/ OtherRunLoadsRelationships
  BY <1>5 DEF OtherRunLoadsLei, OtherRunLoadsRelationships, OwnedAlone
<1>6. CASE Crash
  <2>1. UNCHANGED <<ownership, history>> /\ \A r \in Requests : request'[r] = Idle
    BY <1>6 DEF Crash
  <2>2. \A r \in Requests : ~Owning(r)'
    BY <2>1, AtRest DEF Owning, OwnershipLabels
  <2> QED
    BY <2>1, <2>2 DEF OwnedAlone, Own, ownership, history
<1>7. CASE UNCHANGED vars
  BY <1>7 DEF vars, OwnedAlone, Owning, Alone, Own, gleif, ownership, history
<1> QED
  BY <1>1, <1>2, <1>3, <1>4, <1>5, <1>6, <1>7, ContinueIsAStep DEF Next
-----------------------------------------------------------------------------
(***************************************************************************)
(* The invariant holds before any request.                                 *)
(***************************************************************************)
LEMMA InitIInv == Init => IInv
<1> SUFFICES ASSUME Init PROVE IInv
  OBVIOUS
<1>1. Idle \in RequestRecords
  BY FirstEntity DEF Idle, RequestRecords, Labels, Stages
<1>2. request \in [Requests -> RequestRecords] /\ \A r \in Requests : request[r] = Idle
  BY <1>1 DEF Init
<1>3. RunTypeOK
  <2>1. hits \in [HitRows -> Nat] /\ scored \in [Entities -> Nat]
    BY DEF Init
  <2>2. manifest \in BOOLEAN /\ overlapped \in BOOLEAN
    BY DEF Init
  <2>3. /\ raw \in 0..2 /\ gleif_lei \in Nat /\ gleif_relationships \in Nat
        /\ gleif_manifest \in Nat /\ bib_manifest \in Nat
        /\ enrichments \in Nat /\ latest \in Nat /\ crashes \in Nat
    BY DEF Init
  <2>4. /\ resolved \subseteq Entities /\ lei_matches \subseteq OwnershipRows /\ OneMatchEach
        /\ ownership_flags \subseteq OwnershipRows
        /\ works \subseteq Authors /\ authors \subseteq Authors
    BY DEF Init, OneMatchEach
  <2> QED
    BY <1>2, <2>1, <2>2, <2>3, <2>4 DEF RunTypeOK
<1>4. Placed
  BY <1>2, AtRest DEF Placed, Loaded
<1>5. Built
  <2>1. \A r \in Requests : ~Ahead(request[r])
    BY <1>2, AtRest DEF Ahead, Past
  <2>2. resolved = {} /\ HitsAre({}) /\ ScoresBefore(1) /\ ~manifest
    BY DEF Init, HitsAre, ScoresBefore, Entities
  <2> QED
    BY <2>1, <2>2 DEF Built
<1>6. ManifestMeansWhole
  BY DEF Init, ManifestMeansWhole
<1>7. WorksKept
  BY <1>2, AtRest DEF Init, WorksKept, Looked
<1>8. Numbered
  BY <1>2, AtRest DEF Init, Numbered
<1>9. OwnedAlone
  BY <1>2, AtRest DEF Init, OwnedAlone, Owning, OwnershipLabels, Own
<1> QED
  BY <1>3, <1>4, <1>5, <1>6, <1>7, <1>8, <1>9 DEF IInv

(***************************************************************************)
(* It is inductive.                                                        *)
(***************************************************************************)
LEMMA Invariance == Spec => []IInv
<1>1. IInv /\ [Next]_vars => IInv'
  BY TypesAreKept, RunsStayWhole, WorksAreKeptByNext, NumbersAreFresh, AloneIsKept DEF IInv
<1> QED
  BY <1>1, InitIInv, PTL DEF Spec

(***************************************************************************)
(* The tables have their types, and a match its key.                       *)
(***************************************************************************)
THEOREM RunTypeCorrect == Spec => []RunTypeOK
<1>1. IInv => RunTypeOK
  BY DEF IInv
<1> QED
  BY <1>1, Invariance, PTL

(***************************************************************************)
(* A run with a manifest is whole, however many requests build and enrich  *)
(* it at once and wherever the process dies (run_screening).               *)
(***************************************************************************)
THEOREM RunsAreWhole == Spec => []ManifestMeansWhole
<1>1. IInv => ManifestMeansWhole
  BY DEF IInv
<1> QED
  BY <1>1, Invariance, PTL

(***************************************************************************)
(* While the process lives no author is matched whose works are nowhere    *)
(* (enrich_bibliometric).                                                  *)
(***************************************************************************)
THEOREM WorksAreKept == Spec => []MatchedAuthorsHaveWorks
<1>1. IInv => MatchedAuthorsHaveWorks
  BY DEF IInv, WorksKept, Covered, MatchedAuthorsHaveWorks
<1> QED
  BY <1>1, Invariance, PTL

(***************************************************************************)
(* What an undisturbed ownership enrichment leaves was read from the files *)
(* its manifest names (enrich_ownership).                                  *)
(***************************************************************************)
THEOREM UndisturbedManifestIsTrue == Spec => []GleifManifestIsTrue
<1>1. IInv => GleifManifestIsTrue
  BY DEF IInv, OwnedAlone, Own, GleifManifestIsTrue
<1> QED
  BY <1>1, Invariance, PTL
=============================================================================
