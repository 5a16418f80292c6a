# Formal models of the entity screening toolkit

TLA+ models of `src/entity_screening`, checked with TLC and, for what matters most,
proved with TLAPS. Paths below are relative to `src/entity_screening/` unless they start
with `src/`.

The toolkit helps a research-security office. A *case* compares what a researcher
declared with what public sources say and leads an analyst through a worksheet to a
decision. A *screening event* compares the parties of a hire, a visit or a purchase with
restricted-party lists. A *run* screens the awardees of a grant data set. All of it is a
FastAPI server over one DuckDB file and a directory of JSON manifests; a Streamlit
client and a command line call it.

## 1. What makes this code hard

* **No transactions.** Every route is a synchronous function. FastAPI runs it in a thread
  of its pool, it opens a connection of its own (`_connect`), and DuckDB commits each
  statement by itself. `executemany` inserts row by row. So a *statement* is atomic and a
  *request* is not: between the reads that check a request and the writes that carry it
  out, every other request may run.
* **Replace is DELETE, then INSERT.** `save_case`, `replace_findings`, `replace_ties`,
  `replace_matches`, `save_subject`, `save_declaration` delete the old rows in one
  statement and insert the new ones in others. A reader in between sees neither.
* **Slow requests.** Reconciliation downloads publications, explanation calls a remote
  language model: both read the case, work for seconds or minutes, and then write.
* **Nothing restores.** A process that dies between two statements leaves what was
  written. Manifests are written last, so a manifest means the work before it was done.
* **Tables without an owner.** Each ownership lookup, of a run or of a case, replaces the
  two GLEIF tables for everyone, and the two demo cases share a subject.
* **Rebuilding on the way.** The demo run and the demo cases are built by whichever
  request finds them missing or of an earlier version, in the middle of that request.
* **State machines driven by clients.** The order of requests is the clients' choice:
  the guards of `case/service.py` alone decide what a case may become.

Truly simultaneous statements that touch one row end in DuckDB's conflict error, which
ends the request as a crash of that request would; the models interleave statements and
leave that error out. A manifest is written with one `write_text`, taken as atomic.

The code knows of some of this: `screening/lists.py:54-56` and
`api/main.py:103-114` accept races of caches and of the demo run as too narrow to
mend. The models show what the same posture means for cases, screening events and runs.

## 2. Inventory

| Component | State it keeps | Operations | Properties that make it correct | Here |
|---|---|---|---|---|
| Case: `case/service.py`, `case/store.py`, `case/vocab.py`, routes `api/case_routes.py` | tables `cases`, `findings`, `concern_ties`, `explanations`, `worksheet_actions`, `tie_actions`, `adjudications`, `certifications`, `case_outcomes`, `subjects`, `declarations` | create, transition, reconcile, act (single, bulk, finding, tie), adjudicate, certify, decide, explain | no observation left behind; a decision rests on its records; history is append-only; adjudications numbered; the row of a case survives | modelled |
| Case reconciliation: `pipeline.reconcile_case`, `reconciliation/` | rows of `findings` and `concern_ties`, `reconciliation.json` | discover, omission test, tie test, climb to parents of employers, replace | nothing discovered is lost; the worksheet is of one reconciliation; ties are backed by the files named; ids do not clash | modelled |
| Explanation: `explanation/` | table `explanations`, keyed by observation and evidence hash | serve from the cache, or draft with retries, check and save | served for the evidence it was drafted from; grounded block by block; carried over reconciliations | modelled |
| Demo data: `case/demo.py`, `case_routes._ensure_demo_case_exists`, `main._ensure_demo_run_exists` | the two demo cases, `demo_meta`, run `demo` | self-heal on access | under a current marker the demo is whole; it heals | modelled |
| Restricted-party screening: `screening/rps_*.py`, `api/rps_routes.py` | tables `screening_events`, `screening_parties`, `screening_matches`, `screening_dispositions`; manifest | create, screen, dispose | no hit of the latest screening lost; no inherited disposition; the manifest tells the tables; a screening is reported | modelled |
| Screening run: `pipeline.py` (`run_screening`, `enrich_*`, `rescore_run`), `common/storage.py`, `common/manifest.py`, `cli.py` | raw and resolved tables of a run, `screening_hits` by producer, flags, works, manifests | run, enrich ownership, bibliometric, topic similarity; rescore; export | a run with a manifest is whole; a stage replaces its own rows; a manifest describes the rows; matched authors have works | modelled; rescoring and export only read |
| Ownership: `ownership/` | `gleif_lei`, `gleif_relationships`, `lei_matches`, `ownership_flags` | bulk load, match, climb to parents, flag | stops on cycles; says when it stopped at its bound; reports every branch; one flag per parent; flags come from the files the manifest names | modelled |
| Bibliometrics: `bibliometric/` | `raw_openalex_works`, `openalex_author_matches`, `paper_embeddings`, `topic_similarity_flags` | calls with retries, pages, pooled author search, ranking by margin, hits | fails rather than stores half; the manifest names the cap of what is stored; each leader is flagged | modelled |
| Storage: `common/storage.py`, `common/schema.py` | schema, `_migrated_paths` | connect, migrate, insert, delete | keys and unique indexes hold | the tables are the variables of the modules; migration not modelled |
| Concern lists: `screening/lists.py`, `screen.py`, `adversary_list.py`, `section_117.py` | process-wide cache keyed by path and mtime | build, look up, evict | never stale, bounded | not modelled: data of the modules that screen |
| Exports: `output/export.py`, `case/export.py` | export directories | write, prune | never prunes what it writes | not modelled: reads tables, writes none |
| Scoring `scoring/`, name resolution `resolution/`, ingestion `ingestion/`, attribution, DTOs, Streamlit pages | none of their own | pure functions, parsing, rendering | | not modelled (section 6) |

Interaction: `case_routes` calls `case/service.py` (records), `pipeline.reconcile_case`
(evidence) and `explanation/service.py`; `reconcile_case` calls `reconciliation/`,
`ownership/` and `bibliometric/` and writes through `case/store.py`; the enrichment
routes call `pipeline.enrich_*`; `rps_routes` calls `rps_service`, which uses the lists of
`screening/`. All share the database file, and through it each other's races.

The hazards, each at its line with the properties that would catch it going wrong, are
listed in `PROJECT.json`.

## 3. Modules

| Module | Models | Kind |
|---|---|---|
| `CaseLifecycle` | a case and every request that changes it, one request at a time | state machine |
| `CaseContract` | what a case promises its office, without tables | abstract specification |
| `CaseRefinement` | the mapping under which the first implements the second | refinement |
| `CaseRequests` | the same requests, one SQL statement at a time, with overlap and crashes | composition over the tables of `CaseLifecycle` |
| `CaseRequestsSerial` | requests that do not overlap add up to the steps of `CaseLifecycle` | refinement |
| `OwnershipGraph` | the recursive query over consolidation edges and the flags made of it | pure operators |
| `Reconciliation` | what a reconciliation finds and writes, over GLEIF tables others replace | state machine over `OwnershipGraph` |
| `Explanations` | drafting, checking, caching and serving explanations while cases are reconciled, and the self-heal of the demo cases | state machine |
| `Rps` | a restricted-party screening event, one SQL statement at a time, with overlap and crashes | state machine |
| `ScreeningRun` | the demo run, its self-heal and its enrichments, with overlap, loads of other runs and crashes | state machine |
| `Bibliometrics` | the bibliometric and topic-similarity enrichment: calls, pages, retries, caps, papers and flags, with overlap and crashes | state machine |
| `CaseLifecycleProofs`, `CaseRefinementProofs`, `CaseRequestsProofs`, `ReconciliationProofs`, `ExplanationsProofs`, `RpsProofs`, `ScreeningRunProofs`, `BibliometricsProofs` | theorems | proofs |
| `MC*` | constants of the runs | model checking |

The modules overlap where one thing matters in two ways. A reconciliation is any set of
ids in `CaseLifecycle`, a list of statements in `CaseRequests`, and what it finds in
`Reconciliation`; an enrichment by OpenAlex is any set of authors in `ScreeningRun`, where
it meets the other stages of a run, and calls and pages in `Bibliometrics`.

### CaseLifecycle

A table is a variable under its own name. Tables of which the model needs only the keys
are sets of ids (`findings`, `ties`, `explanations`, `adjudications`), append-only tables
are sequences in the order recorded. `state = NoCase` is the absence of the row in
`cases`. `reconciled` is the manifest reconciliation leaves, `closures` is history.

| Action | Code |
|---|---|
| `CreateCase` | `create_case` in `case_routes.py` |
| `ReconcileCase(found, tied)` | `POST /cases/{id}/reconcile` and `pipeline.reconcile_case`: checks `_RECONCILE_ALLOWED_STATES`, `replace_findings`, `replace_ties` (each drops the explanations of ids that went), `save_case` in `worksheet`, manifest. What it discovers is any set of ids |
| `ReconcileClashes(found, inserted)` | the same request when its discovery gives one tie id twice: `replace_ties` dies on the unique index (`case/store.py:566`) with the findings replaced, the old ties gone, some new ones in, explanations of removed ties kept and the case not moved |
| `RecordAction`, `RecordBulkAction`, `RecordTieAction`, `RecordBulkTieAction` | the functions of the same name; the single forms refuse in a closed case. The bulk finding form checks all ids and then inserts, the bulk tie form inserts each before it looks at the next and leaves the earlier ones behind when one is unknown |
| `Transition(target)` | `transition`: `_TRANSITIONS`, then `can_close` when leaving the worksheet for adjudication or outcome, an adjudication before `outcome`, an outcome before `closed` |
| `RecordAdjudication`, `RecordCertification`, `RecordOutcome` | the functions of the same name. A certification looks at neither state nor kind |
| `Explain(id)` | `explain`: a current observation gets its cached row |

Reason codes are the ones in which the five vocabularies of `case/vocab.py` differ, and
`other` for those they share. Actors, notes and times are left out: no decision of the
code reads them.

### CaseRequests

Each request is a record: the next statement (`at`), the route, what it read and has
still to write. There is one action per statement; a request that its first read refuses
changes nothing and is no step. `Begin(r)` starts a request, `Continue(r)` takes its next
statement, `Crash` forgets all requests and keeps the tables. An INSERT whose key is taken
(`cases`, `subjects`, `declarations`, `adjudications`, the unique indexes of findings and
ties) ends its request with what it wrote before. The ties a reconciliation inserts are a
list in which an id may repeat, so that a lone one can end there too. `OutsideFails` is a
discovery or a remote model that fails before anything is written.

Dispositions of findings read the known ids once and insert row by row
(`ActionLoads`, `KnownIds`, `InsertAction`); those of ties go through the whole of
`record_tie_action` for each id (`TieActionLoads`, `KnownTies`, `InsertTieAction`,
`NextTie`), and stop at the first id that is refused.

`intake` holds which rows of subjects and declarations the case has. A creation deletes
and inserts the one, then the other (`DeleteSubject` ... `InsertDeclaration`), and then
saves the case; a reconciliation reads both (`LoadSubject`, `LoadDeclaration`) and is
refused if one is missing. A creation can start in the middle of a `save_case` of another
request, which makes the case look absent for a moment.

### OwnershipGraph and Reconciliation

`Rows` is the recursive query of `ownership/graph.py`: a row is a path, the guard against
cycles is per path, and the walk looks one hop past the depth bound, which is how
`Truncated` is known. `Chains` and `Flags` are `ParentChain.chains` and `flag_from_match`.

`Reconciliation` follows one request after another on one case: `Reconcile` (the route's
check), `Discover`, `LoadLei`, `LoadRelationships`, `LoadLists`, each of which may end in
`DiscoveryFails` (OpenAlex does not answer, a file is missing or malformed; a GLEIF table
that was replaced before stays so), then `MatchEmployer`, `Climb`, `NameParents` for each employer in the order declared, `Diff`
(the omission test, ties of own affiliations, ties of declared ones), then the statements
of `replace_findings`, `replace_ties` row by row, `save_case`, and the manifest.
`OtherLoadsLei` and `OtherLoadsRelationships` are requests on other cases or runs. A name
is a model value, the score of two names a table, and a list the set of names that are
candidate matches on it. The row of a finding or tie carries the reconciliation that wrote
it. `TieKey` is what `tie_id` hashes. A declared affiliation is a row, and the
`affiliation_id` the client gave it (`AffiliationId`), which is part of the key, need not
be its own: the route takes what it is sent. Transitions are the arrows of the case alone, and
fall between reconciliations: overlap is the subject of `CaseRequests`.

### Explanations

A case keeps of each finding and tie what `recite` makes of it, and a *document* is the
recitation of one observation and the bag of the others: what `generate_synthesis` sends
and what `evidence_hash_for` hashes, `sha256` taken for injective. A request asks for an
explanation (GET, which never generates, or POST), takes an arrow, or reconciles; one on
a demo case first goes through `_ensure_demo_case_exists` (`LookForCase`,
`LookForMarker`), and, if that finds a row missing or the marker of another version,
rebuilds: `WipeFindings` ... `InsertCase` and the reconciliation for each demo case, the
explanations of both, then `DeleteMarker`, `InsertMarker`. `Generate` is one call of the
model with its check and its retry; `Deploy` replaces the process by one with new
fixtures. What a response says is two facts of each block, whether it has text and whether
its citations resolve, and whether the lexicon passes it. `SaveCollides` is a rebuild or a
reconciliation that meets another rebuild at the shared subject. Discoveries repeat no id
here: the reconciliation that dies on a repeated tie id ends before it drops an
explanation of a tie, so it takes none that was paid for, and what it leaves behind is the
concern of `CaseLifecycle`, `CaseRequests` and `Reconciliation`.

### Rps

Ids of matches are fresh uuids, so a match is the screening that made it, its party and
its list entry. `ScreenParties` may find any set of hits on the parties it loaded, since
the list file may change or be left out between two screenings. `ListFails` is a list file
that is missing or malformed: the request ends there, and matches and manifest stay as the
screening before it left them. `latest`, `overlapped`, `reported` and `unread` are history.

### ScreeningRun

One run under a fixed id. `Visit(r, stage)` is any route that finds no manifest and so
builds the run (`InsertRaw` ... `WriteManifest`) before it goes on to the stage it is for;
`Enrich(r, stage)` is one that finds it. Entities are numbers in the order of the input
file, because all requests insert them in that order and the property
`RaceResolvesItself` rests on it. `hits` and `scored` count rows, since these tables have
no key; `lei_matches` and `ownership_flags` are sets of rows that carry the enrichment
that wrote them and those whose loads of the shared GLEIF tables they were read from.
`OtherRunLoadsLei` and `OtherRunLoadsRelationships` are the enrichment of another run.
What GLEIF knows of an entity, which authors OpenAlex resolves, whether a download fails
and which hits the works give are any choice here. The raw tables, which have no key and
are read by nobody before the manifest, count as absent, there, or there more than once.

### Bibliometrics

`EnrichBibliometric(k, cap)` asks for the institution of each entity, then, institution by
institution (`NextGroup`), for the authors of the names pooled over its entities, then for
the works of each author page by page. `calls` is the list of calls still to make;
`NextCall` skips an author whose works an earlier stage stored, `RetryGet` and `FailGet` are
what `_http_get` does with an answer, `Answered` moves to the next page or the next call.
`DeleteWorks` and `InsertWorks` store one author's works; the matches follow at the end,
then the manifest. `EnrichTopicSimilarity` takes the entities of the stored matches one by
one: `EmbedPapers`, `DeletePapers`, `InsertPapers`, `Rank` for each corpus; the flags of
all are then replaced. A table without a key is a count of its rows. The stored works of
an author are a prefix of the list OpenAlex has. Of similarities only the lead of the best
area over the second best is kept, because `topic_similarity.py` looks at nothing else.
`CrashAmidInsert` cuts an `executemany` short. The works of all authors of an entity are
read in one step, where the code reads them author by author.

## 4. Runs

All runs bound the system by constants in the guards (`Max...`), so it stops when a bound
is reached: the configurations say `CHECK_DEADLOCK FALSE` for that reason only.

| Run | Question | Bounds and why they suffice |
|---|---|---|
| `MCCaseLifecycle` | Do the properties of a case hold when requests do not overlap, and does it implement `CaseContract`? | two findings (one can be disposed of and the other not), one tie (so the second kind of row matters), two closures (one full second round after re-opening), 3 rows of each action table, selections of two ids, reason codes of both vocabularies. Symmetry in the finding ids; no liveness is checked there. Outcomes offered: two valid ones and one that is not. 2.4 million states |
| `MCCaseRequests` | What still holds when two requests interleave statement by statement and the process dies once? | two requests (each race of the hazard list is one of two), one finding, in a process that may die, or else one tie, in one that lives (`CONSTRAINT OneObservation`: the statements on findings and those on ties meet only in the closure rule, which this run does not check; requests on both are in `MCCaseRequestsSerial`), two adjudications and one closure (numbers can clash, a closed case can be re-opened), one row of each other table (`MaxAppends`, `MaxActions`: what matters is whether there is one), selections and discoveries in which an id repeats, one crash. Symmetry in the requests. 5.4 million states |
| `MCCaseRequestsSerial` | Are requests that do not overlap atomic? | one request at a time, certifications too, two findings and two ties, discoveries in which a tie id repeats, selections of two, known and unknown. Symmetry in the ids of findings and of ties. 5.2 million states |
| `MCReconciliation` | Does the climb return what paths in the graph say? What does a worksheet hold after reconciliations that fail, die, or lose their GLEIF tables to others? | every graph of nine edges over four LEIs (a diamond, cycles, chains past the bound), every start and every depth up to one past `MaxDepth`; two reconciliations, a load by others between any two statements, one crash; four declared rows of two affiliation ids; employers with no parent, one, two of one name, one shared by two employers of one id or of two, and a chain past the bound. Two declared rows of one id and one listed name, which clash in every reconciliation, are left to the theorem. 2.4 million states |
| `MCExplanations` | What is served, kept and carried forward when explaining overlaps reconciling? | one case, a finding that may go and a tie that may change, four kinds of response, two requests at once, two overlaps, one transition or reconciliation, one crash. 3.7 million states |
| `MCDemoCases` | Is a demo under a current marker whole, and does it heal? | the two demo cases, two versions of the fixtures, two visitors at once, one transition, one overlap, one crash or deployment. With two overlaps it holds as well (3.6 million states, five minutes). 0.95 million states |
| `MCRps` | Which properties of a screening event survive overlap and a crash? | two parties, one entry, two requests, three screenings (two overlap, one follows), two dispositions, one crash. 1 million states |
| `MCScreeningRun` | What do first visitors who race, overlapping enrichments and a crash leave of a run? | two entities (the first decides the race, the second shows the order), one hit, one author, two requests, two enrichments of this run, any loads by others, one crash. 1.4 million states |
| `MCBibliometrics` | What is stored, recorded and flagged when enrichments overlap, retry, fail and die? | two spellings of one university, one name that resolves to two author records, pages of two: a full page and a short one, a full page and an empty one; a paper of both records; caps none and 1; two workers, three stages, one retry, one crash. 320 000 states |

Properties, by run:

* `MCCaseLifecycle`. `ClosureRule`: in adjudication, outcome or closed, every current
  finding and tie has an effective action, along every path of reconciliation, return and
  re-opening. `OrphansAreOfHalfDoneReconciliations`: an explanation outlives its
  observation only if that was a tie and the reconciliation that removed it died on a
  repeated id. `KeepsThePromise` is the refinement of `CaseContract`, in which evidence may
  be gathered in part wherever it may be gathered, and moves no case.
* `MCCaseRequests`. `RowsSurvive`: requests that write a case over one another lose none of
  its rows, neither the case nor its subject nor its declaration; while one is missing a
  request is about to insert it. `AcceptedAreNumbered`: two
  analysts who adjudicate at once never share a number, nor leave a gap (the second is
  refused by the key). `DecisionsAreRecorded`: no outcome state without an adjudication,
  no closure without an outcome. `HistoryOnlyGrows` is an action property.
* `MCCaseRequestsSerial`. `RequestsAreAtomic`: `CaseRequestsSerial` implements
  `CaseLifecycle`, whose steps include those that end half-way, the reconciliation with a
  repeated tie id and the bulk tie request with an unknown one.
* `MCReconciliation`. `ChainsAreMaximalPaths` compares the query with a definition by
  paths; `EndpointsAreConfirmed`: unless the walk says truncated, nobody consolidates an
  endpoint but LEIs on the way to it; `OneFlagPerParent`: with a shortest way. Of the
  worksheet: `WorksheetIsWhole` (rows of one reconciliation, ties joined to findings),
  `NothingDiscoveredIsLost`, `EmployerTiesAreBacked` (by the files the request named, if
  nobody replaced the tables), `ClashesAreTwinsOrRepeatedIds` (a row
  is refused only for two parents of one employer with one legal name, or for two declared
  affiliations of one `affiliation_id`).
* `MCExplanations`. `ServedForTheEvidence`: what is served was drafted from what the
  request read. `SentencesAreGrounded`. `CachedCarriesForward`: what was paid for survives
  a reconciliation that finds the observation again.
* `MCDemoCases`. `MarkedDemoIsWhole`: under the marker of the running version each demo case
  has its rows and explanations, unless a rebuild broke off or raced a `POST reconcile`
  (`spoiled`). `DemoHeals`: lone visitors get it rebuilt.
* `MCRps`. `LatestHitsAreKept`, `ManifestTellsTheMatches`, `NoInheritedDisposition`,
  `ScreeningIsReported`: each screening that started writes its manifest, unless its list
  file cannot be read or the process dies.
* `MCScreeningRun`. `ManifestMeansWhole`: a run with a manifest has all its entities, one
  score each and each screening hit once, whoever raced to build it. It needs the key of
  `resolved_entities`: the mutated form `INSERT ... ON CONFLICT DO NOTHING`, which
  `api/main.py:113` considers as a mend of the race, breaks it. `RaceResolvesItself`: one
  of the racers ends with the manifest. `GleifManifestIsTrue`: matches and flags of an
  enrichment that nothing met are its own, from its own files. `MatchedAuthorsHaveWorks`:
  overlapping enrichments do not leave a matched author without works.
* `MCBibliometrics`. `WorksAreWhole`: never the pages before a failed one, never short of a
  last page that happened to be full. `ManifestTellsTheCoverage`: with one cap and no
  overlap, the recorded cap is what the works of every matched author were cut to, whatever
  runs or dies later. `FlagsAreEarned` holds whatever overlaps; `FlagsFollowTheMargin` (each
  leader flagged once) for a stage nobody overlapped. `StagesEnd`.

**Fairness.** `FairSpec` of `Rps`, `ScreeningRun`, `Bibliometrics` and `Explanations` assumes
weak fairness of the next statement of each request: a handler is a function in a pool
thread whose loops are over finite lists, the operating system runs each thread again and
again, and calls have a timeout. Nothing is assumed of requests that begin, of `Crash`,
`CrashAmidInsert` or `Deploy`, nor of which answer the network gives; the liveness
properties allow for a crash. `VisitedSpec` of `ScreeningRun` and of `Explanations` adds
weak fairness of a visit, since `DemoRunHeals` and `DemoHeals` ask what becomes of a demo
that visitors keep asking for; in `Explanations` the visit is one by a lone visitor. Only
the runs with liveness properties use these specifications.

### Known disagreements

Each of these is a run that TLC is expected to refute, with the line it quotes in
`PROJECT.json`.

| Run | Property | What is said | What the code does |
|---|---|---|---|
| `RequestsClosureRule` | `ClosureRuleAtRest` | a case cannot leave the worksheet with an unactioned row | a reconciliation that overlaps two transitions puts one there |
| `RunNeverHeals` | `DemoRunHeals` | the demo run is self-healing | a process that dies between the first entity and the manifest leaves rows every later visitor collides with |
| `TopicOwnRunnerUp` | `EveryLeaderIsFlagged` | a paper is flagged when its best area leads the runner-up by the margin | a paper that two author rows of an entity share is its own runner-up, and is flagged only with a margin of nothing (`bibliometric/topic_similarity.py:174`) |

More were met while reading and modelling; they need no run.

*Cases.* The worksheet can be reached by transitions without a reconciliation
(`case/service.py:47-55`, where the comment at `:122` says only `reconcile_case` leads
there), and an empty worksheet closes. A re-opened case closes on its old adjudication and
outcome (`case/service.py:314`, where `docs/use-case-01` speaks of a new adjudication). An
action checked before the closure is inserted after it (`case/service.py:163`, `:159`).
An explanation that the remote model returns late is saved after reconciliation dropped
its id (`explanation/service.py:100`), where `case/store.py:438` says they do not sit
orphaned forever; so does a lone reconciliation that dies on a repeated tie id, before the
DELETE that docstring speaks of (`case/store.py:571-575`): the explanation of a tie that
was removed stays, and no later reconciliation looks for it. Two creations of one id both pass the check of `create_case`
(`case_routes.py:394`), and the second deletes the row of the first; one that names a
subject of another case overwrites it (`case_routes.py:470`), and it can be missing for a
moment, or for good after a crash: reconciling that case is then refused. `record_certification` (`case/service.py:360`) looks neither at the state nor at
the kind of the case, though `case/service.py:159` says nothing appends once closed and
`case/vocab.py:154` that a COI case has no certification. The effective action is the last
by a text timestamp (`case/store.py:715`). A process that dies inside `save_case` loses the
case for good: hence `crashes = 0` in `RowsSurvive`.

*Reconciliation.* Two parents of one employer with the same legal name give one tie id
(`reconciliation/discover.py:362`), and so do two declared affiliations of one
`affiliation_id`, which the client chooses and the route does not check
(`case_routes.py:67-68`, `:429-441`), when both are listed under one name or under one
parent. The unique index refuses the second after the DELETE of `replace_ties`
(`case/store.py:566`), and each reconciliation of that case ends in a 500 with half of its
rows in. An employer tie of a reconciliation whose GLEIF tables another request replaced
between load and climb may rest on files it did not name (`pipeline.py:737-752`). On a cycle of consolidation the docstring of `ParentChain`, by which a leaf has no
further edge, is not true. A worksheet reached by a transition from discovery may show
findings of one reconciliation and ties of another, if the one between them died.

*Demo cases.* `MarkedDemoIsWhole` without `spoiled` does not hold: the docstring of
`_ensure_demo_case_exists` (`case_routes.py:181-183`) says explanations always hit the
cache, but the marker stays while a rebuild is under way. One that was triggered under a
current marker (the row is missing for a moment in the `save_case` of a transition, or
for good after a crash there) and breaks off leaves the demo half built until the next
version. Such a rebuild also wipes what analysts decided on the demo cases.

*Runs.* Two overlapping screenings of an event leave both sets of matches
(`screening/rps_store.py:151`, `:157`). A screening that starts while the event is being
created can miss parties (`screening/rps_service.py:51`). Another run's enrichment replaces the GLEIF tables
while they are read, so flags may rest on files the manifest does not name
(`pipeline.py:364`, `common/manifest.py:244`). Two enrichments of one run can leave each
flag twice: `ownership_flags` lost its key, and `common/storage.py` says that deleting by
run first "does not create a duplication path"; the same goes for author matches. A
bibliometric stage that finds nothing deletes nothing (`common/storage.py:626`). An
enrichment with another cap keeps the works of the first one and records its own cap
(`pipeline.py:502-511`): `ManifestTellsTheCoverage` asks for one cap. `Retry-After` with an
HTTP date ends the stage with a `ValueError` (`bibliometric/openalex_client.py:77-81`),
which is `FailGet`.

## 5. Proofs

The theorems hold for every value of the constants: any ids, names, parties, list entries
and papers, any number of requests, any input and its scores, and any bounds. What they
assume of the constants is `InputAssumption` of each module (disjoint ids, known kinds,
finite sets where something is counted or listed, one set of fixtures for each demo case
and version), which TLC evaluates on every run. `CaseRequestsSerial` adds
`BoundsAssumption`: the bounds of `CaseLifecycle` leave room for what `CaseRequests` does.
Every invariant and every action property of the passing runs, and both refinements, are
theorems; only the liveness properties are not.

* **`CaseLifecycleProofs`.** The inductive invariant is `TypeOK`, `ClosureRule`,
  `DecisionsAreRecorded` and `Numbered`. The last replaces
  `AdjudicationsNumbered`, which speaks of a cardinality: *some* `k` with
  `adjudications = 0..k-1` is inductive and gives the cardinality at the end. The closure
  rule is inductive by itself because dispositions only grow, and evidence changes only in
  `ReconcileCase`, which ends in the worksheet, and in `ReconcileClashes`, which leaves the
  case before it. `OnlyHalfDoneReconciliationsOrphan` follows step by step: of the actions
  that remove observations only the second leaves explanations behind, and those of ties.
  `HistoryOnlyGrows` and
  `ClosedRecordStands` follow for each step. `AdjudicationsNumbered` and
  `ClosedRecordStands` are proved and not checked by a run.
* **`CaseRefinementProofs`.** `CaseImplementsContract`: initial states map to initial
  states, and each action to one of the contract or a stutter, under the invariant.
* **`CaseRequestsProofs`.** The invariant `RInv` adds to the types what a request in
  progress may rely on (`Knows`): a request past its check of adjudications for a target
  knows that one exists, an adjudication number that was read is at most the number
  accepted, and while the row is gone someone is at its INSERT or a crash happened. Each
  part is stable under the steps of all others, which is what makes the races harmless.
  `IntakeInv` does the same for the rows of subject and declaration: every request that is
  not a creation found a case, so a creation has passed both rows, and once one has passed
  a row only another creation, which then stands before the INSERT, can have deleted it.
  Proved: `RowsAlwaysSurvive`, `DecisionsAreRecordedUnderRaces`,
  `AcceptedAdjudicationsAreNumbered`, and, from the types of the append-only tables alone,
  `HistoryOnlyGrowsUnderRaces`. `RequestsKeepTypes` adds `RestOK`, the types of what `RInv`
  does not need.

  `SerialRequestsAreAtomic` is the refinement of `CaseLifecycle`, for any number of requests
  of which one is in progress at a time, in a process that lives (`OneAtATime`). What
  relates the tables to `before`, as they were when nobody was in progress, is `SerialInv`:
  with nobody in progress they are the same, and a request in progress is `Midway`. `Midway`
  says for each label of each route which tables are still as they were, what the request
  has read of them, and what it has written: a reconciliation about to insert ties, for
  instance, has dropped the explanations of just the findings that are gone, and a
  transition about to save has seen what `MayEnter` asks. A statement `GoesWell` when it
  takes the request to the next label, or ends it with the tables as they were or as one
  action of `CaseLifecycle` leaves them; there is one lemma for each route. The two routes
  that can end half-way end in an action that says so: a reconciliation whose list repeats
  a tie id in `ReconcileClashes`, a bulk tie request in `RecordBulkTieAction` of its ids up
  to the unknown one. Without `Midway`
  the last statement of a route says nothing of what the earlier ones did.
  `OneClientIsAtomic` is the instance the run checks.
* **`ReconciliationProofs`.** The invariant `Whole` follows a request through its statements:
  `Typed`; `Busy` (until a reconciliation moves the case, the case is not on the worksheet);
  `Keyed` (the ties gathered are those of employers already done, and two of them share a
  key only if they name twins or their affiliations share an id); `Written` (what the tables hold so far and what the request
  still holds add up to what it found out); `Settled` (a case a reconciliation moved there
  shows just what its basis gives). Proved: `AlwaysOfOneReconciliation`,
  `NothingIsEverLost`, `OnlyTwinsAndRepeatedIdsClash`, the last whatever chains the climb
  returns and whatever ids the client gave its affiliations.

  `Detailed` holds the types `Whole` has no use for; with `Typed` it gives
  `ReconciliationsKeepTypes`.

  The climb is a recursive function on the depth, of which the prover knows the equation
  only. `NatSetInduction`, which follows from the well-foundedness of `<` on the naturals
  and speaks of a set in place of a predicate, is enough to find that the rows of each
  depth are the paths of that length (`RowsArePaths`). `WalksAreMaximal`,
  `EndpointsAreAlwaysConfirmed` and `FlagsAreOnePerParent` follow for any graph, start and
  depth. `EmployerTiesAreAlwaysBacked` needs the state again: while nobody replaces a GLEIF
  table the tables are the files of the request, and the ties in hand and in the table are
  those of these files for the employers done so far (`ByTheFile`); they stay so once the
  case is moved (`Stands`).
* **`ExplanationsProofs`.** Neither property relates two requests: a request is `Sound` when
  its sentence is grounded and its answer was drafted from what it loaded, a row is
  `SoundRow` when its hash is that of what it was drafted from. Nothing any other request
  does can undo that. Proved: `ServedIsForTheEvidence`, `KeptSentencesAreGrounded`.

  `ExplanationsKeepTypes` needs `Held`: where a request is, what it found, and that what it
  has yet to explain was loaded. `PaidForExplanationsStay` needs `Apart`: unless two `POST
  reconcile` overlapped, one reconciliation is at work at most, and what it removes is in
  neither table until its explanations are dropped; that a rebuild of a demo case beside it
  cannot bring a row back rests on the fixtures being one set for each version.
  `MarkedDemosAreWhole` needs `SeenTo`: as long as the marker or a rebuild answers for the
  demo (`Owed`), each row a demo case lacks or has too many, and each explanation it lacks,
  some request at work is still to see to; with nobody at work all is there. Such a request
  may be a visitor's rebuild, a reconciliation or the explanation of one row, and any of them
  can be overtaken by another, which is why the invariant is of all of them together.
  `Lone` (a request marked alone is, and a `POST reconcile` that does not spoil) makes the
  rebuild of a spoiled demo start from nothing.
* **`RpsProofs`.** Four independent parts: types; `Fresh` (the ids a screening has still
  to insert were never in a table, nor named by a disposition), which gives
  `NoDispositionIsInherited`; `LatestHitsAreNeverLost`, inductive by itself because only
  a later DELETE removes hits and it becomes the latest; and `Counted` (while nothing
  overlaps there is one writer, table and remainder add up to what it found, and until it
  replaces matches the manifest stays true, as it must for a screening whose list file
  fails), which gives `ManifestIsTrue`. Needs that parties and entries are finite, for cardinalities.
* **`ScreeningRunProofs`.** Each action moves one request (`Moves`), and the statements
  of the three stages touch disjoint tables (`ScreeningStays`, `OwnershipStays`,
  `BibliometricStays`), so each part of `IInv` looks at one stage and is framed for the
  others. `Placed`: a request stands at a statement of its stage. `Built` gives
  `RunsAreWhole`: the key of `resolved_entities` lets a single builder past the first
  entity, and the tables hold exactly what that one has inserted; without it two builders
  could each believe their rows are the only ones. `WorksKept` gives `WorksAreKept`: an
  author a request is done with is covered, and what it deletes it is about to insert.
  `Numbered` (numbers are fresh, and no request in progress has the number of the
  manifest) and `OwnedAlone` (while nothing overlaps there is one ownership enrichment,
  and what it holds was read from its own loads) give `UndisturbedManifestIsTrue`.
* **`BibliometricsProofs`.** A request is `Sound`: the group of entities in hand is of one
  institution and the calls still to make are for its names (`Grouped`), the works it is about
  to store end at a last page, its rows and flags are of investigators of the entity. The
  tables are `Stored` likewise. That the last page gives the whole of what the cap asks for
  is arithmetic (`LastPageIsWhole`); that a list of calls holds what was put into it needs
  that `SetToSeq` of a finite set lists it (`SetAsSequence`). Proved: `WorksAreAlwaysWhole`,
  `FlagsAreAlwaysEarned`.

  `EnrichmentsKeepTypes` needs besides that a stage about to embed has an entity left. For
  the other two, `Solo`: a request nobody overlapped is the only one at work.
  `ManifestAlwaysTellsTheCoverage` follows from `SurveyInv`: each author a survey is to
  reach has works stored, or a call, or an entity, of the survey is still ahead that leads
  to them (`MissesNone`); after its manifest nobody deletes the works of such an author any
  more, because a later request asks first whether they are stored (`Surveyed`).
  `FlagsAlwaysFollowTheMargin` follows from `TopicInv`: the papers a lone stage found when it
  began are those stored once their rows are replaced (`PapersInHand`), and the flags it
  holds are those they earn against the corpora ranked so far (`FlagsInHand`).

Model-checked only: the liveness properties `ScreeningIsReported`, `RaceResolvesItself`,
`StagesEnd` and `DemoHeals` (fairness and `ENABLED` are outside the prover), and the
properties the violation runs refute.

## 6. Not modelled

* *Scoring* is a sum of configured weights over the signals of one entity: no state, no
  control beyond it. *Name resolution*, *ingestion* and *attribution* are string functions,
  parsing and constants. Their results are data here (tables of scores, sets of rows).
* *Concern lists.* Which name is a candidate match is data. The cache of parsed lists is
  filled without a lock: two threads that miss at once parse twice and agree.
* *Exports* read tables and write a fresh directory, then remove the oldest siblings.
* *Migration* of a database of an earlier layout runs once, before the first request.
* *The Streamlit pages* and *the command line* call the same functions; their requests are
  the clients' choices in the models. The action secret of `api/deps.py` only refuses.
* *What subjects and declarations say* is a constant of `Reconciliation`: the code writes
  them when a case is created, and `CaseRequests` follows whether they are there. The models
  are of one case, so a subject that two cases share is followed only for the two demo
  cases, by `SaveCollides`.

Still worth having: several authors read one by one in `EmbedPapers`; two cases that share
a subject.

## 7. Running

    tlc -config MCCaseLifecycle.cfg MCCaseLifecycle
    tlc -config RequestsClosureRule.cfg MCCaseRequests      # expected to be refuted
    tlapm ReconciliationProofs.tla

`PROJECT.json` lists the runs, for each property a mutated form of the code's definition
that must break it (operators commented "Mutated form" in the modules), and for each
definition the lines it models.
