--------------------------- MODULE Bibliometrics ---------------------------
(***************************************************************************)
(* The bibliometric and the topic-similarity enrichment of one screening   *)
(* run: what is asked of OpenAlex, call by call and page by page with its  *)
(* retries (openalex_client.py), what is stored of it (pipeline.py,        *)
(* storage.py), and which papers are flagged (topic_similarity.py).        *)
(*                                                                         *)
(* Workers are requests in threads of their own; each SQL statement        *)
(* commits by itself and the process may die between two of them, or amid  *)
(* an insert of many rows. What OpenAlex holds is fixed. A paper's         *)
(* similarity to the areas of a reference corpus is one number, the lead   *)
(* of the best area over the second best: the margin rule looks at nothing *)
(* else. The hits against concern lists are in ScreeningRun.               *)
(***************************************************************************)
EXTENDS Naturals, Sequences, FiniteSets, SequencesExt

CONSTANTS
  Entities,        \* resolved entities of the run
  PIs,             \* names of investigators
  Authors,         \* OpenAlex author records
  Works,           \* papers
  NoInstitution,
  InstitutionOf,   \* entity -> the OpenAlex institution its name resolves to
  PIsOf,           \* entity -> names of its investigators
  AuthorsOf,       \* name -> author records it resolves to
  WorksOf,         \* author -> papers, in the order OpenAlex pages them
  HasAbstract,     \* papers with an abstract to embed
  Corpora,         \* the two reference corpora, in the order they are ranked
  Lead,            \* corpus -> paper -> lead of its best area
  Margin,
  PAGE_SIZE,
  MAX_RETRIES,
  Caps,            \* max_works_per_author a caller may pass, 0 for None
  Workers,
  MaxStages,       \* bound: how many enrichments are started
  MaxCrashes       \* bound: how often the process dies

ASSUME InputAssumption ==
  /\ IsFiniteSet(Entities) /\ IsFiniteSet(PIs) /\ IsFiniteSet(Authors)
  /\ IsFiniteSet(Works)
  /\ NoInstitution \notin Entities
  /\ DOMAIN InstitutionOf = Entities
  /\ PIsOf \in [Entities -> SUBSET PIs]
  /\ AuthorsOf \in [PIs -> SUBSET Authors]
  /\ WorksOf \in [Authors -> Seq(Works)]
  /\ HasAbstract \subseteq Works
  /\ Corpora \in Seq(ToSet(Corpora)) /\ Corpora # <<>>
  /\ Lead \in [ToSet(Corpora) -> [Works -> Nat]]
  /\ Margin \in Nat /\ PAGE_SIZE \in Nat \ {0} /\ MAX_RETRIES \in Nat
  /\ Caps \subseteq Nat /\ MaxStages \in Nat /\ MaxCrashes \in Nat

VARIABLES
  works,           \* raw_openalex_works: author -> how many papers, a prefix
  matches,         \* openalex_author_matches: how many rows of each kind
  bib_manifest,    \* the cap BibliometricSnapshotManifest records, or none
  papers,          \* paper_embeddings: how many rows of each kind
  flags,           \* topic_similarity_flags: how many rows of each kind
  topic_manifest,  \* the count TopicSimilarityManifest records, or none
  worker,          \* what each request is doing
  stages,          \* how many enrichments were started
  crashes,
  caps_used,       \* history: the caps enrichments fetched under
  surveyed_alone,  \* history: nobody overlapped the stage of bib_manifest
  flagged          \* history: what the stage that wrote flags had to go by

stored == <<works, matches, bib_manifest>>
topic == <<papers, flags, topic_manifest>>
bounds == <<stages, crashes>>
history == <<caps_used, surveyed_alone, flagged>>
vars == <<stored, topic, worker, bounds, history>>

\* A row of openalex_author_matches, one for each name of the entity that
\* resolves to the author: a name may resolve to several, several to one.
MatchRows == [entity : Entities, author : Authors]
\* A row of paper_embeddings, told apart by the match it was written for.
PaperRows == [match : MatchRows, work : Works]
NoMatches == [m \in MatchRows |-> 0]
NoPapers == [r \in PaperRows |-> 0]
FlagRows == Entities \X Works \X ToSet(Corpora)

\* A call of openalex_client, for whom.
Calls == [kind : {"institution"}, of : Entities]
           \union [kind : {"authors"}, of : PIs]
           \union [kind : {"works"}, of : Authors]
Institution(e) == [kind |-> "institution", of |-> e]
AuthorSearch(pi) == [kind |-> "authors", of |-> pi]
AuthorWorks(a) == [kind |-> "works", of |-> a]

WorkerRecords ==
  [at       : {"idle", "next", "get", "delete_works", "insert_works",
               "delete_matches", "insert_matches", "write_manifest",
               "embed", "delete_papers", "insert_papers", "rank",
               "delete_flags", "insert_flags", "write_topic_manifest"},
   calls    : Seq(Calls),          \* the call in progress and those after it
   attempt  : Nat,                 \* retries of that call so far
   page     : Nat,                 \* pages of it before this one
   cap      : Nat,
   located  : SUBSET Entities,     \* entities whose institution was found
   at_work  : SUBSET Entities,     \* the group of entities, or the one, it is at
   found    : SUBSET (PIs \X Authors),   \* what the names of the group resolved to
   rows     : [MatchRows -> Nat],  \* matches to insert
   loaded   : [MatchRows -> Nat],  \* matches the topic stage goes by
   todo     : Seq(Entities),       \* entities the topic stage is not done with
   embedded : [PaperRows -> Nat],
   corpora  : Seq(ToSet(Corpora)), \* corpora still to rank against
   flags    : SUBSET FlagRows,     \* flags to insert
   before   : [PaperRows -> Nat],    \* history: the papers stored when it began
   alone    : BOOLEAN]             \* history: nobody else was at work meanwhile

Idle == [at |-> "idle", calls |-> <<>>, attempt |-> 0, page |-> 0, cap |-> 0,
         located |-> {}, at_work |-> {}, found |-> {}, rows |-> NoMatches, loaded |-> NoMatches, todo |-> <<>>,
         embedded |-> NoPapers, corpora |-> <<>>, flags |-> {}, before |-> NoPapers,
         alone |-> FALSE]

NoFlags == [papers |-> NoPapers, alone |-> FALSE]
NoManifest == [written |-> FALSE, number |-> 0]

BibliometricsTypeOK ==
  /\ DOMAIN works \subseteq Authors /\ \A a \in DOMAIN works : works[a] \in Nat
  /\ matches \in [MatchRows -> Nat]
  /\ {bib_manifest, topic_manifest} \subseteq [written : BOOLEAN, number : Nat]
  /\ papers \in [PaperRows -> Nat]
  /\ flags \in [FlagRows -> Nat]
  /\ worker \in [Workers -> WorkerRecords]
  /\ stages \in Nat /\ crashes \in Nat /\ caps_used \subseteq Caps
  /\ surveyed_alone \in BOOLEAN
  /\ flagged \in [papers : [PaperRows -> Nat], alone : BOOLEAN]

Init ==
  /\ works = <<>>
  /\ matches = NoMatches
  /\ bib_manifest = NoManifest /\ topic_manifest = NoManifest
  /\ papers = NoPapers
  /\ flags = [r \in FlagRows |-> 0]
  /\ worker = [k \in Workers |-> Idle]
  /\ stages = 0 /\ crashes = 0
  /\ caps_used = {} /\ surveyed_alone = FALSE
  /\ flagged = NoFlags

-----------------------------------------------------------------------------
Others(k) == {j \in Workers \ {k} : worker[j].at # "idle"}

\* A stage starts; whoever is at work is no longer alone.
Begin(k, record) ==
  /\ worker[k].at = "idle"
  /\ stages < MaxStages
  /\ stages' = stages + 1
  /\ worker' = [j \in Workers |->
       IF j = k THEN [record EXCEPT !.alone = (Others(k) = {})]
       ELSE IF j \in Others(k) THEN [worker[j] EXCEPT !.alone = FALSE]
       ELSE worker[j]]
  /\ UNCHANGED crashes

Become(k, record) == worker' = [worker EXCEPT ![k] = record] /\ UNCHANGED bounds
MoveTo(k, label) == Become(k, [worker[k] EXCEPT !.at = label])

\* An exception, or the return, ends the stage; what is stored stays.
End(k) == Become(k, Idle)

-----------------------------------------------------------------------------
(* enrich_bibliometric *)

EnrichBibliometric(k, cap) ==
  /\ Begin(k, [Idle EXCEPT
       !.at = "next", !.cap = cap,
       !.calls = SetToSeq({Institution(e) : e \in Entities})])
  /\ caps_used' = caps_used \union {cap}
  /\ UNCHANGED <<stored, topic, surveyed_alone, flagged>>

\* The next call is made, unless an earlier stage stored the author's works.
NextCall(k) ==
  /\ worker[k].at = "next" /\ worker[k].calls # <<>>
  /\ LET call == Head(worker[k].calls)
     IN IF call.kind = "works" /\ call.of \in DOMAIN works
        THEN Become(k, [worker[k] EXCEPT !.calls = Tail(@)])
        ELSE Become(k, [worker[k] EXCEPT !.at = "get", !.attempt = 0, !.page = 0])
  /\ UNCHANGED <<stored, topic, history>>

\* Mutated form: the whole walk over the pages starts again.
RetryGetAfresh(k) ==
  /\ worker[k].at = "get"
  /\ worker[k].attempt < MAX_RETRIES
  /\ Become(k, [worker[k] EXCEPT !.attempt = 0, !.page = 0])
  /\ UNCHANGED <<stored, topic, history>>

\* _http_get: 429, some 5xx answers, and no answer at all are retried.
RetryGet(k) ==
  /\ worker[k].at = "get"
  /\ worker[k].attempt < MAX_RETRIES
  /\ Become(k, [worker[k] EXCEPT !.attempt = @ + 1])
  /\ UNCHANGED <<stored, topic, history>>

\* Mutated form: the request is left in a state nobody handles.
FailGetUnhandled(k) ==
  /\ worker[k].at = "get"
  /\ MoveTo(k, "failed")
  /\ UNCHANGED <<stored, topic, history>>

\* Retries are used up, or the status is not one of those, or Retry-After is
\* not a number: the exception reaches the route.
FailGet(k) ==
  /\ worker[k].at = "get"
  /\ End(k)
  /\ UNCHANGED <<stored, topic, history>>

Least(m, n) == IF m < n THEN m ELSE n

\* How many papers the pages 0..page of an author hold.
UpTo(author, page) == Least(Len(WorksOf[author]), (page + 1) * PAGE_SIZE)

\* Mutated form: a full page is taken for the last.
IsLastPageWhenFull(author, page, cap) ==
  \/ cap # 0 /\ UpTo(author, page) >= cap
  \/ UpTo(author, page) <= (page + 1) * PAGE_SIZE

\* get_author_works asks for no page after this one: the cap is reached, or
\* the page was not full.
IsLastPage(author, page, cap) ==
  \/ cap # 0 /\ UpTo(author, page) >= cap
  \/ UpTo(author, page) < (page + 1) * PAGE_SIZE

\* The answer to the call: an institution, authors, or a page of works.
Answered(k) ==
  /\ worker[k].at = "get"
  /\ LET call == Head(worker[k].calls)
         done == [worker[k] EXCEPT !.at = "next", !.calls = Tail(@)]
     IN CASE call.kind = "institution" ->
               Become(k, [done EXCEPT !.located = IF InstitutionOf[call.of] = NoInstitution
                                                  THEN @ ELSE @ \union {call.of}])
          [] call.kind = "authors" ->
               LET fetches == {AuthorWorks(a) : a \in AuthorsOf[call.of]} \ ToSet(done.calls)
               IN Become(k, [done EXCEPT
                    !.found = @ \union ({call.of} \X AuthorsOf[call.of]),
                    !.calls = @ \o SetToSeq(fetches)])
          [] call.kind = "works" /\ IsLastPage(call.of, worker[k].page, worker[k].cap) ->
               MoveTo(k, "delete_works")
          [] OTHER -> Become(k, [worker[k] EXCEPT !.page = @ + 1, !.attempt = 0])
  /\ UNCHANGED <<stored, topic, history>>

\* Mutated form: the works of the whole run are deleted.
DeleteWorksOfRun(k) ==
  /\ worker[k].at = "delete_works"
  /\ works' = <<>>
  /\ MoveTo(k, "insert_works")
  /\ UNCHANGED <<matches, bib_manifest, topic, history>>

DeleteWorks(k) ==
  /\ worker[k].at = "delete_works"
  /\ works' = LET author == Head(worker[k].calls).of
              IN [a \in DOMAIN works \ {author} |-> works[a]]
  /\ MoveTo(k, "insert_works")
  /\ UNCHANGED <<matches, bib_manifest, topic, history>>

\* The first works up to the cap; a row of another stage is a key violation.
InsertWorks(k) ==
  /\ worker[k].at = "insert_works"
  /\ LET author == Head(worker[k].calls).of
         upto == UpTo(author, worker[k].page)
         kept == IF worker[k].cap = 0 THEN upto ELSE Least(upto, worker[k].cap)
     IN IF author \in DOMAIN works
        THEN End(k) /\ UNCHANGED works
        ELSE /\ works' = [a \in DOMAIN works \union {author} |->
                            IF a = author THEN kept ELSE works[a]]
             /\ Become(k, [worker[k] EXCEPT !.at = "next", !.calls = Tail(@)])
  /\ UNCHANGED <<matches, bib_manifest, topic, history>>

\* A group is done, its matches stamped on each of its entities; the next one
\* pools the names of all entities of one institution.
NextGroup(k) ==
  /\ worker[k].at = "next" /\ worker[k].calls = <<>>
  /\ LET stamped(m) == IF m.entity \in worker[k].at_work
                         THEN Cardinality({f \in worker[k].found : f[2] = m.author}) ELSE 0
         rest == worker[k].located \ worker[k].at_work
         after == [worker[k] EXCEPT !.rows = [m \in MatchRows |-> @[m] + stamped(m)], !.located = rest,
                                    !.at_work = {}, !.found = {}]
     IN IF rest = {}
        THEN Become(k, [after EXCEPT !.at = "delete_matches"])
        ELSE \E i \in {InstitutionOf[e] : e \in rest} :
               LET group == {e \in rest : InstitutionOf[e] = i}
                   names == UNION {PIsOf[e] : e \in group}
               IN Become(k, [after EXCEPT
                    !.at_work = group,
                    !.calls = SetToSeq({AuthorSearch(pi) : pi \in names})])
  /\ UNCHANGED <<stored, topic, history>>

DeleteMatches(k) ==
  /\ worker[k].at = "delete_matches"
  /\ matches' = NoMatches
  /\ MoveTo(k, "insert_matches")
  /\ UNCHANGED <<works, bib_manifest, topic, history>>

InsertMatches(k) ==
  /\ worker[k].at = "insert_matches"
  /\ matches' = [m \in MatchRows |-> matches[m] + worker[k].rows[m]]
  /\ MoveTo(k, "write_manifest")
  /\ UNCHANGED <<works, bib_manifest, topic, history>>

WriteManifest(k) ==
  /\ worker[k].at = "write_manifest"
  /\ bib_manifest' = [written |-> TRUE, number |-> worker[k].cap]
  /\ surveyed_alone' = worker[k].alone
  /\ End(k)
  /\ UNCHANGED <<works, matches, topic, caps_used, flagged>>

-----------------------------------------------------------------------------
(* enrich_topic_similarity *)

\* The papers of an author that are stored, with an abstract.
StoredPapers(author) ==
  IF author \in DOMAIN works
  THEN {WorksOf[author][i] : i \in 1..works[author]} \intersect HasAbstract ELSE {}

\* The rows one entity's authors give: a paper of two of them gives two.
PapersOf(e, loaded) ==
  [r \in PaperRows |-> IF r.match.entity = e /\ r.work \in StoredPapers(r.match.author)
                       THEN loaded[r.match] ELSE 0]

\* Refused, with nothing done, without matches.
EnrichTopicSimilarity(k) ==
  /\ matches # NoMatches
  /\ Begin(k, [Idle EXCEPT
       !.at = "embed", !.loaded = matches,
       !.todo = SetToSeq({m.entity : m \in {n \in MatchRows : matches[n] > 0}}),
       !.before = [r \in PaperRows |-> PapersOf(r.match.entity, matches)[r]]])
  /\ UNCHANGED <<stored, topic, history>>

EmbedPapers(k) ==
  /\ worker[k].at = "embed"
  /\ LET e == Head(worker[k].todo)
     IN Become(k, [worker[k] EXCEPT !.at = "delete_papers", !.at_work = {e},
                                    !.todo = Tail(@),
                                    !.embedded = PapersOf(e, worker[k].loaded)])
  /\ UNCHANGED <<stored, topic, history>>

\* Mutated form: the rows of an earlier stage are kept.
DeletePapersNot(k) ==
  /\ worker[k].at = "delete_papers"
  /\ MoveTo(k, "insert_papers")
  /\ UNCHANGED <<stored, topic, history>>

\* The rows of that entity alone: those before it in the loop keep theirs.
DeletePapers(k) ==
  /\ worker[k].at = "delete_papers"
  /\ papers' = [r \in PaperRows |-> IF r.match.entity \in worker[k].at_work
                                    THEN 0 ELSE papers[r]]
  /\ MoveTo(k, "insert_papers")
  /\ UNCHANGED <<stored, flags, topic_manifest, history>>

InsertPapers(k) ==
  /\ worker[k].at = "insert_papers"
  /\ papers' = [r \in PaperRows |-> papers[r] + worker[k].embedded[r]]
  /\ Become(k, [worker[k] EXCEPT !.at = "rank", !.corpora = Corpora])
  /\ UNCHANGED <<stored, flags, topic_manifest, history>>

\* The rows the query partitions by paper: with more than one of a paper its
\* best area is its own runner-up.
RowsOfPaper(rows, e, w) == {r \in PaperRows : r.match.entity = e /\ r.work = w /\ rows[r] > 0}
OneRow(rows, e, w) == \E r \in RowsOfPaper(rows, e, w) :
                        RowsOfPaper(rows, e, w) = {r} /\ rows[r] = 1
\* Mutated form: the vectors of the first corpus are still in place.
RankedLeadInFirst(c, e, w) == IF OneRow(papers, e, w) THEN Lead[Head(Corpora)][w] ELSE 0

RankedLead(c, e, w) == IF OneRow(papers, e, w) THEN Lead[c][w] ELSE 0

\* _rank_against_corpus: the two corpora are never pooled.
Rank(k) ==
  /\ worker[k].at = "rank"
  /\ LET c == Head(worker[k].corpora)
         left == Tail(worker[k].corpora)
         leaders(e) == {w \in Works : /\ RowsOfPaper(papers, e, w) # {}
                                     /\ RankedLead(c, e, w) >= Margin}
     IN Become(k, [worker[k] EXCEPT
          !.flags = @ \union UNION {{<<e, w, c>> : w \in leaders(e)} : e \in worker[k].at_work},
          !.corpora = left,
          !.at = IF left # <<>> THEN "rank"
                 ELSE IF worker[k].todo # <<>> THEN "embed" ELSE "delete_flags"])
  /\ UNCHANGED <<stored, topic, history>>

DeleteFlags(k) ==
  /\ worker[k].at = "delete_flags"
  /\ flags' = [r \in FlagRows |-> 0]
  /\ flagged' = NoFlags
  /\ MoveTo(k, "insert_flags")
  /\ UNCHANGED <<stored, papers, topic_manifest, caps_used, surveyed_alone>>

InsertFlags(k) ==
  /\ worker[k].at = "insert_flags"
  /\ flags' = [r \in FlagRows |-> IF r \in worker[k].flags THEN flags[r] + 1 ELSE flags[r]]
  /\ flagged' = [papers |-> worker[k].before, alone |-> worker[k].alone]
  /\ MoveTo(k, "write_topic_manifest")
  /\ UNCHANGED <<stored, papers, topic_manifest, caps_used, surveyed_alone>>

WriteTopicManifest(k) ==
  /\ worker[k].at = "write_topic_manifest"
  /\ topic_manifest' = [written |-> TRUE, number |-> Cardinality(worker[k].flags)]
  /\ End(k)
  /\ UNCHANGED <<stored, papers, flags, history>>

-----------------------------------------------------------------------------
\* The process dies: every request is gone, the database is not.
Crash ==
  /\ crashes < MaxCrashes
  /\ crashes' = crashes + 1
  /\ worker' = [k \in Workers |-> Idle]
  /\ UNCHANGED <<stored, topic, stages, history>>

\* The rows an insert that is cut short may have got to, in some order of them.
FirstOf(rows) == {ToSet(SubSeq(SetToSeq(rows), 1, n)) : n \in 1..Cardinality(rows)}

\* executemany inserts row by row: the process may die after some of the rows.
CrashAmidInsert(k) ==
  /\ crashes < MaxCrashes
  /\ crashes' = crashes + 1
  /\ worker' = [j \in Workers |-> Idle]
  /\ \/ /\ worker[k].at = "insert_matches"
        /\ \E M \in FirstOf({m \in MatchRows : worker[k].rows[m] > 0}) :
             matches' = [m \in MatchRows |-> IF m \in M THEN matches[m] + 1 ELSE matches[m]]
        /\ UNCHANGED <<papers, flags>>
     \/ /\ worker[k].at = "insert_papers"
        /\ \E R \in FirstOf({r \in PaperRows : worker[k].embedded[r] > 0}) :
             papers' = [r \in PaperRows |-> IF r \in R THEN papers[r] + 1 ELSE papers[r]]
        /\ UNCHANGED <<matches, flags>>
     \/ /\ worker[k].at = "insert_flags"
        /\ \E F \in FirstOf(worker[k].flags) :
             flags' = [r \in FlagRows |-> IF r \in F THEN flags[r] + 1 ELSE flags[r]]
        /\ UNCHANGED <<matches, papers>>
  /\ UNCHANGED <<works, bib_manifest, topic_manifest, stages, history>>

Step(k) ==
  \/ NextCall(k) \/ RetryGet(k) \/ FailGet(k) \/ Answered(k)
  \/ DeleteWorks(k) \/ InsertWorks(k) \/ NextGroup(k)
  \/ DeleteMatches(k) \/ InsertMatches(k) \/ WriteManifest(k)
  \/ EmbedPapers(k) \/ DeletePapers(k) \/ InsertPapers(k) \/ Rank(k)
  \/ DeleteFlags(k) \/ InsertFlags(k) \/ WriteTopicManifest(k)

Next ==
  \/ \E k \in Workers, cap \in Caps : EnrichBibliometric(k, cap)
  \/ \E k \in Workers : EnrichTopicSimilarity(k)
  \/ \E k \in Workers : Step(k)
  \/ Crash \/ \E k \in Workers : CrashAmidInsert(k)

Spec == Init /\ [][Next]_vars

\* A thread of the server that is at work takes its next step: requests.get
\* returns or times out, a statement returns.
FairSpec == Spec /\ \A k \in Workers : WF_vars(Step(k))

-----------------------------------------------------------------------------
(* Properties *)

\* What an enrichment with this cap should have of an author.
Coverage(a, cap) == IF cap = 0 THEN Len(WorksOf[a]) ELSE Least(cap, Len(WorksOf[a]))

\* The works stored of an author are all there are, or all up to a cap some
\* enrichment asked for: never the pages before a failed one, and never short
\* of a last page that happened to be full (get_author_works).
WorksAreWhole ==
  \A a \in DOMAIN works : \E cap \in caps_used : works[a] = Coverage(a, cap)

\* While all enrichments of the run pass one cap, and nobody overlapped the
\* one that wrote the manifest, its cap is what the works of every matched
\* author were cut to (BibliometricSnapshotManifest), and they stay stored
\* whatever runs or dies later. With two caps, works of the first stay under
\* the second; an overlapping stage deletes works it is about to store again.
ManifestTellsTheCoverage ==
  bib_manifest.written /\ surveyed_alone /\ Cardinality(caps_used) = 1 =>
    \A m \in MatchRows : matches[m] > 0 =>
      m.author \in DOMAIN works /\ works[m.author] = Coverage(m.author, bib_manifest.number)

\* The papers the names of an entity, pooled over its institution, lead to.
PapersBehind(e) ==
  UNION {ToSet(WorksOf[a]) : a \in UNION {AuthorsOf[pi] : pi \in
           UNION {PIsOf[f] : f \in {g \in Entities : InstitutionOf[g] = InstitutionOf[e]}}}}

\* However stages overlap and die, no paper is flagged that does not lead its
\* field by the margin, nor one that is of no investigator of the entity.
FlagsAreEarned ==
  \A e \in Entities, w \in Works, c \in ToSet(Corpora) :
    flags[<<e, w, c>>] > 0 =>
      /\ Lead[c][w] >= Margin
      /\ w \in HasAbstract \intersect PapersBehind(e)

\* The papers that lead by the margin, by what the stage that wrote the flags
\* had to go by.
Leads(e, w, c) == RowsOfPaper(flagged.papers, e, w) # {} /\ Lead[c][w] >= Margin

\* At rest, a stage nobody overlapped has flagged each paper that leads by the
\* margin exactly once, whatever ran or died before it, as long as one author
\* row of the entity has the paper.
FlagsFollowTheMargin ==
  flagged.alone =>
    \A e \in Entities, w \in Works, c \in ToSet(Corpora) :
      OneRow(flagged.papers, e, w) \/ RowsOfPaper(flagged.papers, e, w) = {} =>
        flags[<<e, w, c>>] = (IF Leads(e, w, c) THEN 1 ELSE 0)

\* The same for every paper: each best match that leads the runner-up by the
\* margin is flagged. The code flags no paper that two authors of an entity
\* share, or that two records of one author share.
EveryLeaderIsFlagged ==
  flagged.alone =>
    \A e \in Entities, w \in Works, c \in ToSet(Corpora) :
      Leads(e, w, c) => flags[<<e, w, c>>] > 0

\* A stage comes to an end, whatever OpenAlex answers: retries and pages are
\* bounded.
StagesEnd == \A k \in Workers : worker[k].at # "idle" ~> worker[k].at = "idle"
=============================================================================
