---------------------------- MODULE ScreeningRun ----------------------------
(***************************************************************************)
(* One screening run under a fixed run id (the public demo run, which the  *)
(* server builds on first access): run_screening and the two enrichment    *)
(* stages of pipeline.py over common/storage.py, one SQL statement at a    *)
(* time. As for cases, each request has a thread and a connection of its   *)
(* own and no transaction, and the process may die between two statements. *)
(*                                                                         *)
(* The database and the manifests survive a crash. Other runs have rows of *)
(* their own; they meet this one in the two GLEIF tables alone, which any  *)
(* enrichment of any run replaces. What GLEIF and OpenAlex answer is any   *)
(* choice; what the screening finds is fixed, as its input files are.      *)
(* Rescoring only reads. Topic similarity is left out.                     *)
(***************************************************************************)
EXTENDS Naturals, FiniteSets

CONSTANTS
  NumEntities,       \* awardees in the input file of the run
  ScreeningHits,     \* what screening them against the lists finds
  Authors,           \* OpenAlex authors its investigators may resolve to
  Requests,          \* the requests that can be in progress at one time
  OfferedFinds,      \* what GLEIF may tell of an entity
  OfferedHits,       \* what the works of authors may give against the lists
  MaxEnrichments,    \* bound: enrichments of this run that clients start
  MaxCrashes         \* bound: how often the process dies

\* In the order of the input file, and so of every INSERT.
Entities == 1..NumEntities

\* One INSERT serves three producers.
Producers == {"direct_name", "section_117", "bibliometric"}

HitRows == Producers \X Entities

ASSUME InputAssumption ==
  /\ NumEntities \in Nat \ {0}
  /\ ScreeningHits \subseteq {"direct_name", "section_117"} \X Entities
  /\ OfferedFinds \subseteq Entities \X {"unknown", "no_foreign_parent", "flagged"}
  /\ OfferedHits \subseteq SUBSET ({"bibliometric"} \X Entities)
  /\ MaxEnrichments \in Nat /\ MaxCrashes \in Nat

VARIABLES
  raw,               \* the raw_* tables: 0, 1, or 2 or more times their rows
  resolved,          \* entity_id column of resolved_entities (primary key)
  hits,              \* screening_hits: how many rows of each kind
  scored,            \* scored_entities: how many rows for each entity
  manifest,          \* manifest.json of the run is on disk
  gleif_lei,         \* which enrichment loaded the shared table, 0 for others
  gleif_relationships,
  lei_matches,       \* rows of lei_matches (primary key entity)
  ownership_flags,   \* rows of ownership_flags
  gleif_manifest,    \* the enrichment whose GleifSnapshotManifest is on disk
  works,             \* authors with a row in raw_openalex_works (primary key)
  authors,           \* authors with rows in openalex_author_matches
  bib_manifest,      \* the enrichment whose bibliometric manifest is on disk
  request,           \* what each request is doing
  enrichments,       \* how many enrichments of this run were started
  latest,            \* history: the last ownership enrichment to start loading
  overlapped,        \* history: another one, or another run's load, met it
  crashes            \* how often the process died

screening == <<raw, resolved, scored, manifest>>
gleif == <<gleif_lei, gleif_relationships>>
ownership == <<lei_matches, ownership_flags, gleif_manifest>>
bibliometric == <<works, authors, bib_manifest>>
history == <<latest, overlapped>>
vars == <<screening, hits, gleif, ownership, bibliometric, request, enrichments,
          history, crashes>>

\* A row of lei_matches or ownership_flags: the enrichment that wrote it, and
\* those whose loads of the shared tables its data were read from.
OwnershipRows == [entity : Entities, by : Nat, loads : SUBSET Nat]

ScreeningLabels == {"insert_raw", "insert_entities", "insert_scored", "write_manifest"}
OwnershipLabels == {"load_relationships", "match", "climb", "delete_matches",
                    "insert_matches", "delete_flags", "insert_flags",
                    "write_gleif_manifest"}
BibliometricLabels == {"resolve_authors", "load_works", "delete_works",
                       "insert_works", "delete_authors", "insert_authors",
                       "write_bib_manifest"}

Labels == ScreeningLabels \union OwnershipLabels \union BibliometricLabels
            \union {"idle", "load_lei", "delete_hits", "insert_hits"}

Stages == {"none", "screening", "ownership", "bibliometric"}

RequestRecords ==
  [at      : Labels,               \* the next statement
   stage   : Stages,               \* the function of pipeline.py it is in
   then    : Stages,               \* the stage the route is for
   number  : Nat,                  \* which enrichment it is
   next    : Entities,             \* the entity it is at
   matches : SUBSET OwnershipRows,     \* rows found, still to insert
   flags   : SUBSET OwnershipRows,
   hits    : SUBSET HitRows,
   found   : SUBSET Authors,       \* the authors it resolved
   todo    : SUBSET Authors,       \* those it has not looked at yet
   author  : SUBSET Authors]       \* the one whose works it writes

Idle == [at |-> "idle", stage |-> "none", then |-> "none", number |-> 0,
         next |-> 1, matches |-> {}, flags |-> {}, hits |-> {},
         found |-> {}, todo |-> {}, author |-> {}]

\* At most one row of lei_matches has an entity: its key.
OneMatchEach == \A m, n \in lei_matches : m.entity = n.entity => m = n

RunTypeOK ==
  /\ raw \in 0..2
  /\ resolved \subseteq Entities
  /\ hits \in [HitRows -> Nat]
  /\ scored \in [Entities -> Nat]
  /\ manifest \in BOOLEAN
  /\ gleif_lei \in Nat /\ gleif_relationships \in Nat
  /\ lei_matches \subseteq OwnershipRows /\ OneMatchEach
  /\ ownership_flags \subseteq OwnershipRows
  /\ gleif_manifest \in Nat
  /\ works \subseteq Authors /\ authors \subseteq Authors
  /\ bib_manifest \in Nat
  /\ request \in [Requests -> RequestRecords]
  /\ enrichments \in Nat /\ latest \in Nat
  /\ overlapped \in BOOLEAN
  /\ crashes \in Nat

Init ==
  /\ raw = 0 /\ resolved = {} /\ manifest = FALSE
  /\ hits = [h \in HitRows |-> 0] /\ scored = [e \in Entities |-> 0]
  /\ gleif_lei = 0 /\ gleif_relationships = 0
  /\ lei_matches = {} /\ ownership_flags = {} /\ gleif_manifest = 0
  /\ works = {} /\ authors = {} /\ bib_manifest = 0
  /\ request = [r \in Requests |-> Idle]
  /\ enrichments = 0 /\ latest = 0 /\ overlapped = FALSE /\ crashes = 0

-----------------------------------------------------------------------------
At(r, label) == request[r].at = label

GoesTo(r, label) == request' = [request EXCEPT ![r].at = label]

\* The response is sent, or an exception ends the request.
Ends(r) == request' = [request EXCEPT ![r] = Idle]

\* The first statement of an enrichment.
FirstOf(stage) == IF stage = "ownership" THEN "load_lei" ELSE "resolve_authors"

\* Between its first load and its manifest.
Owning(r) == request[r].at \in OwnershipLabels


-----------------------------------------------------------------------------
(***************************************************************************)
(* Screening, for a request that finds no manifest                         *)
(***************************************************************************)

\* _load_manifest finds the file; without it the demo run is built first.
HasManifest == manifest

\* A route that reads the run (stage "none") or enriches it.
Visit(r, stage) ==
  /\ At(r, "idle") /\ ~HasManifest
  /\ stage # "none" => enrichments < MaxEnrichments
  /\ enrichments' = IF stage = "none" THEN enrichments ELSE enrichments + 1
  /\ request' = [request EXCEPT ![r] =
                   [Idle EXCEPT !.at = "insert_raw", !.stage = "screening",
                                !.then = stage, !.hits = ScreeningHits,
                                !.number = IF stage = "none" THEN 0 ELSE enrichments + 1]]
  /\ UNCHANGED <<screening, hits, gleif, ownership, bibliometric, history, crashes>>

\* The four raw tables have no key, and nothing reads them before the manifest.
InsertRaw(r) ==
  /\ At(r, "insert_raw")
  /\ raw' = IF raw = 2 THEN 2 ELSE raw + 1
  /\ GoesTo(r, "insert_entities")
  /\ UNCHANGED <<resolved, scored, manifest, hits, gleif, ownership,
                 bibliometric, enrichments, history, crashes>>

\* To the next entity, or past the last one to label.
NextEntity(r, label) ==
  IF request[r].next = NumEntities
  THEN request' = [request EXCEPT ![r].at = label, ![r].next = 1]
  ELSE request' = [request EXCEPT ![r].next = @ + 1]

\* Mutated form: INSERT ... ON CONFLICT DO NOTHING.
InsertEntity_OnConflictDoNothing(r) ==
  /\ At(r, "insert_entities")
  /\ resolved' = resolved \union {request[r].next}
  /\ NextEntity(r, IF request[r].hits = {} THEN "insert_scored" ELSE "delete_hits")
  /\ UNCHANGED <<raw, scored, manifest, hits, gleif, ownership, bibliometric,
                 enrichments, history, crashes>>

\* Mutated form: two requests may walk the entities in different orders.
InsertEntity_AnyOrder(r) ==
  /\ At(r, "insert_entities")
  /\ \E e \in Entities :
       IF e \in resolved THEN Ends(r) /\ UNCHANGED resolved
       ELSE /\ resolved' = resolved \union {e}
            /\ NextEntity(r, IF request[r].hits = {} THEN "insert_scored"
                             ELSE "delete_hits")
  /\ UNCHANGED <<raw, scored, manifest, hits, gleif, ownership, bibliometric,
                 enrichments, history, crashes>>

\* The next row of resolved_entities, unless its key is taken.
InsertEntity(r) ==
  /\ At(r, "insert_entities")
  /\ IF request[r].next \in resolved
     THEN Ends(r) /\ UNCHANGED resolved
     ELSE /\ resolved' = resolved \union {request[r].next}
          /\ NextEntity(r, IF request[r].hits = {} THEN "insert_scored"
                           ELSE "delete_hits")
  /\ UNCHANGED <<raw, scored, manifest, hits, gleif, ownership, bibliometric,
                 enrichments, history, crashes>>

(***************************************************************************)
(* insert_screening_hits, for the screening and the bibliometric stage:    *)
(* the rows of the producers that found something are replaced. A stage    *)
(* that found nothing deletes nothing.                                     *)
(***************************************************************************)
AfterHits(r) == IF request[r].stage = "screening" THEN "insert_scored"
                ELSE "write_bib_manifest"

DeleteHits(r) ==
  /\ At(r, "delete_hits")
  /\ hits' = [h \in HitRows |->
               IF \E g \in request[r].hits : g[1] = h[1] THEN 0 ELSE hits[h]]
  /\ GoesTo(r, "insert_hits")
  /\ UNCHANGED <<screening, gleif, ownership, bibliometric, enrichments, history,
                 crashes>>

InsertHit(r, h) ==
  /\ At(r, "insert_hits") /\ h \in request[r].hits
  /\ hits' = [hits EXCEPT ![h] = @ + 1]
  /\ request' = [request EXCEPT ![r].hits = @ \ {h},
                   ![r].at = IF request[r].hits = {h} THEN AfterHits(r) ELSE @]
  /\ UNCHANGED <<screening, gleif, ownership, bibliometric, enrichments, history,
                 crashes>>

\* Table scored_entities has no key.
InsertScored(r) ==
  /\ At(r, "insert_scored")
  /\ scored' = [scored EXCEPT ![request[r].next] = @ + 1]
  /\ NextEntity(r, "write_manifest")
  /\ UNCHANGED <<raw, resolved, manifest, hits, gleif, ownership, bibliometric,
                 enrichments, history, crashes>>

\* After the manifest the route goes on to the stage it is for.
WriteManifest(r) ==
  /\ At(r, "write_manifest")
  /\ manifest' = TRUE
  /\ request' = [request EXCEPT ![r] =
       IF @.then = "none" THEN Idle
       ELSE [Idle EXCEPT !.at = FirstOf(request[r].then), !.stage = request[r].then,
                         !.number = request[r].number]]
  /\ UNCHANGED <<raw, resolved, scored, hits, gleif, ownership, bibliometric,
                 enrichments, history, crashes>>

\* An enrichment of a run that has its manifest.
Enrich(r, stage) ==
  /\ At(r, "idle") /\ HasManifest
  /\ enrichments < MaxEnrichments
  /\ enrichments' = enrichments + 1
  /\ request' = [request EXCEPT ![r] =
                   [Idle EXCEPT !.at = FirstOf(stage), !.stage = stage,
                                !.number = enrichments + 1]]
  /\ UNCHANGED <<screening, hits, gleif, ownership, bibliometric, history, crashes>>

-----------------------------------------------------------------------------
(***************************************************************************)
(* enrich_ownership                                                        *)
(***************************************************************************)

LoadLei(r) ==
  /\ At(r, "load_lei")
  /\ gleif_lei' = request[r].number
  /\ latest' = request[r].number
  /\ overlapped' = \E q \in Requests : q # r /\ Owning(q)
  /\ GoesTo(r, "load_relationships")
  /\ UNCHANGED <<screening, hits, gleif_relationships, ownership, bibliometric,
                 enrichments, crashes>>

LoadRelationships(r) ==
  /\ At(r, "load_relationships")
  /\ gleif_relationships' = request[r].number
  /\ GoesTo(r, "match")
  /\ UNCHANGED <<screening, hits, gleif_lei, ownership, bibliometric, enrichments,
                 history, crashes>>

\* resolve_entity_to_lei: the entity has a record in the table or not.
MatchEntity(r) ==
  /\ At(r, "match")
  /\ \/ /\ <<request[r].next, "unknown">> \in OfferedFinds
        /\ NextEntity(r, "delete_matches")
     \/ /\ \E find \in {"no_foreign_parent", "flagged"} :
             <<request[r].next, find>> \in OfferedFinds
        /\ request' = [request EXCEPT ![r].at = "climb",
           ![r].matches = @ \union {[entity |-> request[r].next,
                                     by |-> request[r].number, loads |-> {gleif_lei}]}]
  /\ UNCHANGED <<screening, hits, gleif, ownership, bibliometric, enrichments,
                 history, crashes>>

\* flag_from_match: the match has a foreign parent or not.
ClimbToParents(r) ==
  /\ At(r, "climb")
  /\ \E m \in request[r].matches, find \in {"no_foreign_parent", "flagged"} :
       /\ m.entity = request[r].next
       /\ <<m.entity, find>> \in OfferedFinds
       /\ request' = [request EXCEPT
            ![r].at = IF m.entity = NumEntities THEN "delete_matches" ELSE "match",
            ![r].next = IF m.entity = NumEntities THEN 1 ELSE @ + 1,
            ![r].flags = IF find = "flagged"
                         THEN @ \union {[m EXCEPT !.loads = @ \union
                                           {gleif_lei, gleif_relationships}]}
                         ELSE @]
  /\ UNCHANGED <<screening, hits, gleif, ownership, bibliometric, enrichments,
                 history, crashes>>

DeleteMatches(r) ==
  /\ At(r, "delete_matches")
  /\ lei_matches' = {}
  /\ GoesTo(r, IF request[r].matches = {} THEN "delete_flags" ELSE "insert_matches")
  /\ UNCHANGED <<screening, hits, gleif, ownership_flags, gleif_manifest,
                 bibliometric, enrichments, history, crashes>>

\* Mutated form: lei_matches without its key, as ownership_flags is.
InsertMatch_NoKey(r, m) ==
  /\ At(r, "insert_matches") /\ m \in request[r].matches
  /\ lei_matches' = lei_matches \union {m}
  /\ request' = [request EXCEPT ![r].matches = @ \ {m},
                   ![r].at = IF request[r].matches = {m} THEN "delete_flags" ELSE @]
  /\ UNCHANGED <<screening, hits, gleif, ownership_flags, gleif_manifest,
                 bibliometric, enrichments, history, crashes>>

InsertMatch(r, m) ==
  /\ At(r, "insert_matches") /\ m \in request[r].matches
  /\ IF \E n \in lei_matches : n.entity = m.entity
     THEN Ends(r) /\ UNCHANGED lei_matches
     ELSE /\ lei_matches' = lei_matches \union {m}
          /\ request' = [request EXCEPT ![r].matches = @ \ {m},
                ![r].at = IF request[r].matches = {m} THEN "delete_flags" ELSE @]
  /\ UNCHANGED <<screening, hits, gleif, ownership_flags, gleif_manifest,
                 bibliometric, enrichments, history, crashes>>

\* Mutated form: nothing found deletes nothing, as in insert_screening_hits.
DeleteFlags_WhereFound(r) ==
  /\ At(r, "delete_flags")
  /\ ownership_flags' = IF request[r].flags = {} THEN ownership_flags ELSE {}
  /\ GoesTo(r, IF request[r].flags = {} THEN "write_gleif_manifest" ELSE "insert_flags")
  /\ UNCHANGED <<screening, hits, gleif, lei_matches, gleif_manifest, bibliometric,
                 enrichments, history, crashes>>

DeleteFlags(r) ==
  /\ At(r, "delete_flags")
  /\ ownership_flags' = {}
  /\ GoesTo(r, IF request[r].flags = {} THEN "write_gleif_manifest" ELSE "insert_flags")
  /\ UNCHANGED <<screening, hits, gleif, lei_matches, gleif_manifest, bibliometric,
                 enrichments, history, crashes>>

InsertFlag(r, f) ==
  /\ At(r, "insert_flags") /\ f \in request[r].flags
  /\ ownership_flags' = ownership_flags \union {f}
  /\ request' = [request EXCEPT ![r].flags = @ \ {f},
                   ![r].at = IF request[r].flags = {f} THEN "write_gleif_manifest" ELSE @]
  /\ UNCHANGED <<screening, hits, gleif, lei_matches, gleif_manifest, bibliometric,
                 enrichments, history, crashes>>

WriteGleifManifest(r) ==
  /\ At(r, "write_gleif_manifest")
  /\ gleif_manifest' = request[r].number
  /\ Ends(r)
  /\ UNCHANGED <<screening, hits, gleif, lei_matches, ownership_flags, bibliometric,
                 enrichments, history, crashes>>

(***************************************************************************)
(* The enrichment of another run replaces the shared tables, one by one.   *)
(* Outside an enrichment of this run nobody would see it: each loads both  *)
(* before it reads them.                                                   *)
(***************************************************************************)
OtherRunLoadsLei ==
  /\ \E r \in Requests : Owning(r)
  /\ gleif_lei' = 0
  /\ overlapped' = TRUE
  /\ UNCHANGED <<screening, hits, gleif_relationships, ownership, bibliometric,
                 request, enrichments, latest, crashes>>

OtherRunLoadsRelationships ==
  /\ \E r \in Requests : Owning(r)
  /\ gleif_relationships' = 0
  /\ overlapped' = TRUE
  /\ UNCHANGED <<screening, hits, gleif_lei, ownership, bibliometric, request,
                 enrichments, latest, crashes>>

-----------------------------------------------------------------------------
(***************************************************************************)
(* enrich_bibliometric. Which authors OpenAlex resolves and which hits     *)
(* their works give is chosen at once: neither is written before the end.  *)
(***************************************************************************)

\* Mutated form: the authors are stored as they are resolved.
ResolveAuthors_StoredFirst(r, found, bibHits) ==
  /\ At(r, "resolve_authors")
  /\ authors' = found
  /\ request' = [request EXCEPT ![r].at = IF found = {} THEN "delete_authors"
                                          ELSE "load_works",
                   ![r].found = found, ![r].todo = found, ![r].hits = bibHits]
  /\ UNCHANGED <<screening, hits, gleif, ownership, works, bib_manifest,
                 enrichments, history, crashes>>

ResolveAuthors(r, found, bibHits) ==
  /\ At(r, "resolve_authors")
  /\ request' = [request EXCEPT ![r].at = IF found = {} THEN "delete_authors"
                                          ELSE "load_works",
                   ![r].found = found, ![r].todo = found, ![r].hits = bibHits]
  /\ UNCHANGED <<screening, hits, gleif, ownership, bibliometric, enrichments,
                 history, crashes>>

\* Request r has the works of the authors in done and goes on to the others.
HasWorks(r, done) ==
  request' = [request EXCEPT ![r].todo = @ \ done, ![r].author = {},
                ![r].at = IF request[r].todo \subseteq done THEN "delete_authors"
                          ELSE "load_works"]

(***************************************************************************)
(* Works that are stored are used as they are. Others are fetched, which   *)
(* takes long and may fail once the retries are used up.                   *)
(***************************************************************************)
LoadWorks(r, a) ==
  /\ At(r, "load_works") /\ a \in request[r].todo
  /\ \/ a \in works /\ HasWorks(r, {a})
     \/ /\ a \notin works
        /\ request' = [request EXCEPT ![r].at = "delete_works", ![r].author = {a}]
     \/ a \notin works /\ Ends(r)
  /\ UNCHANGED <<screening, hits, gleif, ownership, bibliometric, enrichments,
                 history, crashes>>

DeleteWorks(r) ==
  /\ At(r, "delete_works")
  /\ works' = works \ request[r].author
  /\ GoesTo(r, "insert_works")
  /\ UNCHANGED <<screening, hits, gleif, ownership, authors, bib_manifest,
                 enrichments, history, crashes>>

InsertWorks(r) ==
  /\ At(r, "insert_works")
  /\ IF request[r].author \subseteq works
     THEN Ends(r) /\ UNCHANGED works
     ELSE /\ works' = works \union request[r].author
          /\ HasWorks(r, request[r].author)
  /\ UNCHANGED <<screening, hits, gleif, ownership, authors, bib_manifest,
                 enrichments, history, crashes>>

\* The label after the authors.
HitsLabel(r) == IF request[r].hits = {} THEN "write_bib_manifest" ELSE "delete_hits"

DeleteAuthors(r) ==
  /\ At(r, "delete_authors")
  /\ authors' = {}
  /\ request' = [request EXCEPT ![r].todo = request[r].found,
                   ![r].at = IF request[r].found = {} THEN HitsLabel(r)
                             ELSE "insert_authors"]
  /\ UNCHANGED <<screening, hits, gleif, ownership, works, bib_manifest,
                 enrichments, history, crashes>>

InsertAuthor(r, a) ==
  /\ At(r, "insert_authors") /\ a \in request[r].todo
  /\ authors' = authors \union {a}
  /\ request' = [request EXCEPT ![r].todo = @ \ {a},
                   ![r].at = IF request[r].todo = {a} THEN HitsLabel(r) ELSE @]
  /\ UNCHANGED <<screening, hits, gleif, ownership, works, bib_manifest,
                 enrichments, history, crashes>>

WriteBibManifest(r) ==
  /\ At(r, "write_bib_manifest")
  /\ bib_manifest' = request[r].number
  /\ Ends(r)
  /\ UNCHANGED <<screening, hits, gleif, ownership, works, authors, enrichments,
                 history, crashes>>

-----------------------------------------------------------------------------
\* The process dies and is started again.
Crash ==
  /\ crashes < MaxCrashes
  /\ crashes' = crashes + 1
  /\ request' = [r \in Requests |-> Idle]
  /\ UNCHANGED <<screening, hits, gleif, ownership, bibliometric, enrichments, history>>

Begin(r) ==
  \/ \E stage \in {"none", "ownership", "bibliometric"} : Visit(r, stage)
  \/ \E stage \in {"ownership", "bibliometric"} : Enrich(r, stage)

Continue(r) ==
  \/ InsertRaw(r) \/ InsertEntity(r) \/ InsertScored(r) \/ WriteManifest(r)
  \/ DeleteHits(r) \/ \E h \in request[r].hits : InsertHit(r, h)
  \/ LoadLei(r) \/ LoadRelationships(r) \/ MatchEntity(r) \/ ClimbToParents(r)
  \/ DeleteMatches(r) \/ \E m \in request[r].matches : InsertMatch(r, m)
  \/ DeleteFlags(r) \/ \E f \in request[r].flags : InsertFlag(r, f)
  \/ WriteGleifManifest(r)
  \/ \E found \in SUBSET Authors, bibHits \in OfferedHits :
       ResolveAuthors(r, found, bibHits)
  \/ \E a \in request[r].todo : LoadWorks(r, a) \/ InsertAuthor(r, a)
  \/ DeleteWorks(r) \/ InsertWorks(r) \/ DeleteAuthors(r) \/ WriteBibManifest(r)

Next ==
  \/ \E r \in Requests : Begin(r) \/ Continue(r)
  \/ OtherRunLoadsLei \/ OtherRunLoadsRelationships
  \/ Crash

Spec == Init /\ [][Next]_vars

\* A thread of the pool runs on.
FairSpec == Spec /\ \A r \in Requests : WF_vars(Continue(r))

\* And visitors keep coming.
VisitedSpec == FairSpec /\ WF_vars(\E r \in Requests : Visit(r, "none"))

-----------------------------------------------------------------------------
(***************************************************************************)
(* Properties                                                              *)
(***************************************************************************)

(***************************************************************************)
(* A run that can be read is whole: once its manifest is there, so are its *)
(* raw records, all its entities, one score for each and each hit of the   *)
(* screening exactly once, however many first visitors built it at once,   *)
(* and no bibliometric stage touches those hits (run_screening,            *)
(* insert_screening_hits). rescore_run and the exports rest on it.         *)
(***************************************************************************)
ManifestMeansWhole ==
  manifest =>
    /\ raw # 0
    /\ resolved = Entities
    /\ \A e \in Entities : scored[e] = 1
    /\ \A h \in HitRows :
         h[1] # "bibliometric" => hits[h] = IF h \in ScreeningHits THEN 1 ELSE 0

(***************************************************************************)
(* An ownership enrichment that no other load met leaves matches and flags *)
(* of its own only, read from the files its manifest names.                *)
(***************************************************************************)
GleifManifestIsTrue ==
  ~overlapped /\ gleif_manifest = latest =>
    \A row \in lei_matches \union ownership_flags :
      row.by = latest /\ row.loads = {latest}

(***************************************************************************)
(* Topic similarity reads the stored works of the matched authors and      *)
(* takes missing ones for none. Unless the process died, an author in      *)
(* openalex_author_matches has stored works, or a request is at their      *)
(* INSERT, whatever enrichments overlap or fail at OpenAlex.               *)
(***************************************************************************)
MatchedAuthorsHaveWorks ==
  crashes = 0 =>
    \A a \in authors : \/ a \in works
                       \/ \E r \in Requests : At(r, "insert_works") /\ a \in request[r].author

(***************************************************************************)
(* "Self-resolving": of the visitors who build the run at once one ends    *)
(* with its manifest, unless the process dies. It takes that all insert    *)
(* the entities in one order: who inserts the first wins.                  *)
(***************************************************************************)
RaceResolvesItself ==
  (\E r \in Requests : At(r, "insert_raw")) ~> (manifest \/ crashes > 0)

-----------------------------------------------------------------------------
(***************************************************************************)
(* What docstrings of the repository say and the code does not guarantee   *)
(***************************************************************************)

(***************************************************************************)
(* "self-healing" (_ensure_demo_run_exists): when visitors keep coming,    *)
(* the demo run is there in the end, also after the process died.          *)
(***************************************************************************)
DemoRunHeals == <>manifest
=============================================================================
