------------------------- MODULE ExplanationsProofs -------------------------
(***************************************************************************)
(* Proofs about Explanations, for any cases, observations, answers of the  *)
(* model and number of requests.                                           *)
(*                                                                         *)
(* A sentence that is kept is grounded, and an explanation is served for   *)
(* the evidence the request read. What a request holds of either is a      *)
(* matter of its own record (Sound), and what it may find in the cache one *)
(* of the row (SoundRow): this invariant, Inv, relates no two requests.    *)
(*                                                                         *)
(* The others do. Apart: unless two reconciliations overlapped, what one   *)
(* of them removes nobody inserts again before its explanations are gone.  *)
(* SeenTo: whatever a demo case still lacks, or has too much, some request *)
(* at work will write, and whatever of it is not explained yet some        *)
(* request will explain, as long as the marker or a rebuild answers for    *)
(* the demo. Both rest on TypeInv, what a request holds by where it is.    *)
(***************************************************************************)
EXTENDS Explanations, FiniteSetTheorems, TLAPS

\* The fields of a request; what the proofs need of the values is in Sound.
Shape(r) ==
  r \in [at : Labels, phase : {"route", "build", "explain"}, asked : {r.asked},
         left : {r.left}, target : {r.target}, table : {r.table}, rows : {r.rows},
         found : {r.found}, gone : {r.gone}, loaded : {r.loaded}, todo : {r.todo},
         attempt : {r.attempt}, sentence : {r.sentence}, answer : {r.answer},
         alone : {r.alone}]

\* The points where a request has an observation in hand.
Explaining == {"load_cached", "generate", "delete_explanation", "insert_explanation"}
Telling == Explaining \union {"next_observation", "answer"}

\* What the checks of _is_grounded and of the vocabulary let through.
Fit(sentence) ==
  /\ sentence \in ResponseRecords
  /\ HasText(sentence) /\ IsGrounded(sentence) /\ sentence.clean
Kept(sentence) == sentence = NoSentence \/ Fit(sentence)

Sound(r) ==
  /\ Shape(r)
  /\ Kept(r.sentence)
  /\ r.at \in Explaining \union {"next_observation"} /\ r.phase = "route" =>
       r.todo \in {<<>>, <<r.asked.id>>}
  /\ r.at \in Explaining => r.todo # <<>>
  /\ r.at = "answer" =>
       r.answer.of = r.asked.id /\ r.answer.about = DocumentOf(r.asked.id, r.loaded)

SoundRow(x) == x.about = x.hash /\ Kept(x.sentence)

Inv ==
  /\ DOMAIN worker = Workers
  /\ \A k \in Workers : Sound(worker[k])
  /\ \A x \in explanations : SoundRow(x)

\* A request that holds nothing is sound.
LEMMA IdleIsSound == Sound(Idle) /\ Idle.at = "idle" /\ Idle.sentence = NoSentence
BY DEF Sound, Shape, Idle, Labels, Kept, Explaining

\* A step of one request that leaves it without an observation in hand, and
\* with the sentence it had or none.
Quiet(k) ==
  /\ DOMAIN worker' = Workers
  /\ \A j \in Workers : j # k => worker'[j] = worker[j]
  /\ Shape(worker'[k]) /\ worker'[k].at \notin Telling
  /\ worker'[k].sentence \in {NoSentence, worker[k].sentence}

\* Quiet steps keep the invariant.
LEMMA QuietSteps ==
  ASSUME Inv, NEW k \in Workers, Quiet(k), explanations' \subseteq explanations
  PROVE  Inv'
BY DEF Inv, Quiet, Sound, Kept, Telling, Explaining

\* What comes in, and the steps of a rebuild, are quiet.
LEMMA RebuildIsQuiet ==
  ASSUME Inv, NEW k \in Workers,
         \/ LookForCase(k) \/ LookForMarker(k)
         \/ WipeFindings(k) \/ WipeTies(k) \/ WipeExplanations(k)
         \/ SaveCollides(k) \/ DeleteMarker(k) \/ InsertMarker(k)
  PROVE  Quiet(k) /\ explanations' \subseteq explanations
<1> DEFINE r == worker[k]
<1>1. Shape(r) /\ DOMAIN worker = Workers
  BY DEF Inv, Sound
<1> USE DEF tables, Become, GoTo, At
<1>2. CASE Become(k, Idle)
  <2>1. Quiet(k)
    BY <1>1, <1>2, IdleIsSound DEF Quiet, Sound, Telling, Explaining
  <2>2. explanations' \subseteq explanations
    BY <1>2 DEF LookForCase, LookForMarker, WipeFindings, WipeTies, WipeExplanations,
                SaveCollides, DeleteMarker, InsertMarker
  <2>3. QED
    BY <2>1, <2>2
<1>rebuild. ASSUME Rebuild(k) PROVE Quiet(k)
  <2> DEFINE alone == Busy = {k}
             q == [r EXCEPT !.phase = "build", !.left = DemoCases,
                            !.at = "wipe_findings", !.alone = alone]
  <2>1. worker' = [worker EXCEPT ![k] = q]
    BY <1>rebuild DEF Rebuild
  <2> HIDE DEF alone
  <2>2. Shape(q) /\ q.at = "wipe_findings" /\ q.sentence = r.sentence
    BY <1>1 DEF Shape, Labels
  <2> HIDE DEF q
  <2>3. QED
    BY <1>1, <2>1, <2>2 DEF Quiet, Telling, Explaining
<1>3. CASE LookForCase(k)
  <2>1. CASE r.left = <<>>
    BY <1>1, <1>3, <2>1 DEF LookForCase, Quiet, Shape, Labels, Telling, Explaining
  <2>2. CASE r.left # <<>> /\ cases[Head(r.left)] = NoCase
    BY <1>3, <1>rebuild, <2>2 DEF LookForCase
  <2>3. CASE r.left # <<>> /\ cases[Head(r.left)] # NoCase
    BY <1>1, <1>3, <2>3 DEF LookForCase, Quiet, Shape, Labels, Telling, Explaining
  <2>4. QED
    BY <2>1, <2>2, <2>3
<1>4. CASE LookForMarker(k)
  <2>1. CASE marker = deployed
    <3>1. Become(k, [worker[k] EXCEPT !.at = "route"]) /\ UNCHANGED explanations
      BY <1>4, <2>1 DEF LookForMarker
    <3>2. QED
      BY <1>1, <3>1 DEF Quiet, Shape, Labels, Telling, Explaining
  <2>2. CASE marker # deployed
    BY <1>4, <1>rebuild, <2>2 DEF LookForMarker
  <2>3. QED
    BY <2>1, <2>2
<1>5. CASE WipeFindings(k) \/ WipeTies(k)
  BY <1>1, <1>5 DEF WipeFindings, WipeTies, Quiet, Shape, Labels, Telling, Explaining
<1>6. CASE WipeExplanations(k)
  BY <1>1, <1>6 DEF WipeExplanations, Quiet, Shape, Labels, Telling, Explaining
<1>7. CASE SaveCollides(k)
  BY <1>2, <1>7 DEF SaveCollides, Fail
<1>8. CASE DeleteMarker(k)
  BY <1>1, <1>8 DEF DeleteMarker, Quiet, Shape, Labels, Telling, Explaining
<1>9. CASE InsertMarker(k)
  <2>1. CASE marker # 0
    BY <1>2, <1>9, <2>1 DEF InsertMarker, Fail
  <2>2. CASE marker = 0
    <3>1. Become(k, [worker[k] EXCEPT !.phase = "route", !.at = "route"])
          /\ UNCHANGED explanations
      BY <1>9, <2>2 DEF InsertMarker
    <3>2. QED
      BY <1>1, <3>1 DEF Quiet, Shape, Labels, Telling, Explaining
  <2>3. QED
    BY <2>1, <2>2
<1>10. QED
  BY <1>3, <1>4, <1>5, <1>6, <1>7, <1>8, <1>9

\* So is whatever puts a record in place that holds no observation.
LEMMA OneRecord ==
  ASSUME Inv, NEW k \in Workers, NEW q, worker' = [worker EXCEPT ![k] = q],
         Shape(q), q.at \notin Telling, q.sentence \in {NoSentence, worker[k].sentence}
  PROVE  Quiet(k)
BY DEF Inv, Quiet

\* A request that ends has no draft left that could be unsound.
LEMMA Ended ==
  ASSUME Inv, NEW k \in Workers, Become(k, Idle)
  PROVE  Quiet(k)
BY IdleIsSound DEF Inv, Quiet, Become, Sound, Telling, Explaining

\* After a reconciliation, the next of the rebuild or the response.
LEMMA AfterReconcileIsQuiet ==
  ASSUME Inv, NEW k \in Workers, AfterReconcile(k)
  PROVE  Quiet(k)
<1> DEFINE r == worker[k]
<1>1. Shape(r)
  BY DEF Inv, Sound
<1>2. CASE r.phase = "route"
  BY <1>2, Ended DEF AfterReconcile
<1>3. CASE r.phase # "route" /\ Tail(r.left) # <<>>
  <2> DEFINE q == [r EXCEPT !.left = Tail(r.left), !.at = "wipe_findings"]
  <2>1. worker' = [worker EXCEPT ![k] = q]
    BY <1>3 DEF AfterReconcile, Become
  <2>2. Shape(q) /\ q.at \notin Telling /\ q.sentence = r.sentence
    BY <1>1 DEF Shape, Labels, Telling, Explaining
  <2>3. QED
    BY <2>1, <2>2, OneRecord
<1>4. CASE r.phase # "route" /\ Tail(r.left) = <<>>
  <2> DEFINE q == [r EXCEPT !.phase = "explain", !.left = DemoCases, !.at = "explain_loads"]
  <2>1. worker' = [worker EXCEPT ![k] = q]
    BY <1>4 DEF AfterReconcile, Become
  <2>2. Shape(q) /\ q.at \notin Telling /\ q.sentence = r.sentence
    BY <1>1 DEF Shape, Labels, Telling, Explaining
  <2>3. QED
    BY <2>1, <2>2, OneRecord
<1>5. QED
  BY <1>2, <1>3, <1>4

\* The steps of a transition and of a reconciliation are quiet.
LEMMA ReconciliationIsQuiet ==
  ASSUME Inv, NEW k \in Workers,
         \/ DeleteCase(k) \/ InsertCase(k) \/ RouteTransition(k) \/ RouteReconcile(k)
         \/ ReconcileLoads(k) \/ OldIds(k) \/ DeleteRows(k) \/ InsertRow(k)
         \/ DropExplanations(k) \/ RouteExplain(k) \/ ExplainLoads(k) \/ LoadFindings(k)
  PROVE  Quiet(k)
<1> DEFINE r == worker[k]
<1>1. Shape(r)
  BY DEF Inv, Sound
<1>goto. ASSUME NEW label \in Labels \ Telling, GoTo(k, label) PROVE Quiet(k)
  <2> DEFINE q == [r EXCEPT !.at = label]
  <2>1. worker' = [worker EXCEPT ![k] = q]
    BY <1>goto DEF GoTo, Become
  <2>2. Shape(q) /\ q.at \notin Telling /\ q.sentence = r.sentence
    BY <1>1 DEF Shape
  <2>3. QED
    BY <2>1, <2>2, OneRecord
<1> DEFINE Plain == {"insert_case", "reconcile_loads", "insert_rows", "drop_explanations",
                     "delete_case", "load_findings"}
<1>plain. Plain \subseteq Labels \ Telling
  BY DEF Labels, Telling, Explaining
<1> HIDE DEF Plain
<1>2. CASE DeleteCase(k)
  BY <1>2, <1>goto, <1>plain DEF DeleteCase, Plain
<1>3. CASE InsertCase(k)
  <2>1. Become(k, Idle) \/ GoTo(k, "reconcile_loads") \/ AfterReconcile(k)
    BY <1>3 DEF InsertCase, Fail
  <2>2. QED
    BY <2>1, <1>goto, <1>plain, Ended, AfterReconcileIsQuiet DEF Plain
<1>4. CASE RouteTransition(k)
  <2> DEFINE target == r.asked.target
             q == [r EXCEPT !.at = "delete_case", !.target = target]
  <2>1. Become(k, Idle) \/ worker' = [worker EXCEPT ![k] = q]
    BY <1>4 DEF RouteTransition, Become
  <2>2. Shape(q) /\ q.at \notin Telling /\ q.sentence = r.sentence
    BY <1>1 DEF Shape, Labels, Telling, Explaining
  <2>3. QED
    BY <2>1, <2>2, Ended, OneRecord
<1>5. CASE RouteReconcile(k)
  BY <1>5, <1>goto, <1>plain, Ended DEF RouteReconcile, Plain
<1>6. CASE ReconcileLoads(k)
  <2>1. CASE Become(k, Idle)
    BY <2>1, Ended
  <2>2. CASE cases[CaseIn(k)] # NoCase
    <3> DEFINE target == IF cases[CaseIn(k)] \in RECONCILE_ALLOWED_STATES
                         THEN "worksheet" ELSE NoCase
               q(found) == [r EXCEPT !.at = "old_ids", !.table = "findings", !.found = found,
                                     !.target = target]
    <3>1. \E found : worker' = [worker EXCEPT ![k] = q(found)]
      BY <1>6, <2>2 DEF ReconcileLoads, Become
    <3>2. PICK found : worker' = [worker EXCEPT ![k] = q(found)]
      BY <3>1
    <3> HIDE DEF target
    <3>3. Shape(q(found)) /\ q(found).at \notin Telling /\ q(found).sentence = r.sentence
      BY <1>1 DEF Shape, Labels, Telling, Explaining
    <3>4. QED
      BY <3>2, <3>3, OneRecord
  <2>3. QED
    BY <1>6, <2>1, <2>2 DEF ReconcileLoads, Fail
<1>7. CASE OldIds(k)
  <2> DEFINE new == {row \in r.found : row[1] \in IdsFor(k)}
             gone == IdsOf(OfCase(TableOf(k), CaseIn(k))) \ IdsOf(new)
             q == [r EXCEPT !.at = "delete_rows", !.rows = new, !.gone = gone]
  <2>1. worker' = [worker EXCEPT ![k] = q]
    BY <1>7 DEF OldIds, Become
  <2> HIDE DEF new, gone
  <2>2. Shape(q) /\ q.at \notin Telling /\ q.sentence = r.sentence
    BY <1>1 DEF Shape, Labels, Telling, Explaining
  <2>3. QED
    BY <2>1, <2>2, OneRecord
<1>8. CASE DeleteRows(k)
  BY <1>8, <1>goto, <1>plain DEF DeleteRows, Plain
<1>9. CASE InsertRow(k)
  <2>1. CASE r.rows = {}
    BY <1>9, <2>1, <1>goto, <1>plain DEF InsertRow, Plain
  <2>2. CASE Become(k, Idle)
    BY <2>2, Ended
  <2>3. CASE r.rows # {} /\ ~Become(k, Idle)
    <3> DEFINE row == CHOOSE x \in r.rows : TRUE
               rest == r.rows \ {row}
               q == [r EXCEPT !.rows = rest]
    <3>1. worker' = [worker EXCEPT ![k] = q] /\ r.at = "insert_rows"
      BY <1>9, <2>3 DEF InsertRow, Become, Fail, At
    <3> HIDE DEF rest
    <3>2. Shape(q) /\ q.at \notin Telling /\ q.sentence = r.sentence
      BY <1>1, <3>1 DEF Shape, Labels, Telling, Explaining
    <3>3. QED
      BY <3>1, <3>2, OneRecord
  <2>4. QED
    BY <2>1, <2>2, <2>3
<1>10. CASE DropExplanations(k)
  <2>1. CASE r.table = "findings"
    <3> DEFINE q == [r EXCEPT !.at = "old_ids", !.table = "ties", !.gone = {}]
    <3>1. worker' = [worker EXCEPT ![k] = q]
      BY <1>10, <2>1 DEF DropExplanations, Become
    <3>2. Shape(q) /\ q.at \notin Telling /\ q.sentence = r.sentence
      BY <1>1 DEF Shape, Labels, Telling, Explaining
    <3>3. QED
      BY <3>1, <3>2, OneRecord
  <2>2. CASE r.table # "findings"
    <3>1. GoTo(k, "delete_case") \/ AfterReconcile(k)
      BY <1>10, <2>2 DEF DropExplanations
    <3>2. QED
      BY <3>1, <1>goto, <1>plain, AfterReconcileIsQuiet DEF Plain
  <2>3. QED
    BY <2>1, <2>2
<1>11. CASE RouteExplain(k)
  BY <1>11, <1>goto, <1>plain, Ended DEF RouteExplain, Plain
<1>12. CASE ExplainLoads(k)
  BY <1>12, <1>goto, <1>plain, Ended DEF ExplainLoads, Fail, Plain
<1>13. CASE LoadFindings(k)
  <2> DEFINE loaded == OfCase(findings, CaseIn(k))
             q == [r EXCEPT !.at = "load_ties", !.loaded = loaded]
  <2>1. worker' = [worker EXCEPT ![k] = q]
    BY <1>13 DEF LoadFindings, Become
  <2> HIDE DEF loaded
  <2>2. Shape(q) /\ q.at \notin Telling /\ q.sentence = r.sentence
    BY <1>1 DEF Shape, Labels, Telling, Explaining
  <2>3. QED
    BY <2>1, <2>2, OneRecord
<1>14. QED
  BY <1>2, <1>3, <1>4, <1>5, <1>6, <1>7, <1>8, <1>9, <1>10, <1>11, <1>12, <1>13

\* They only take rows of explanations away.
LEMMA ReconciliationAddsNone ==
  ASSUME NEW k \in Workers,
         \/ DeleteCase(k) \/ InsertCase(k) \/ RouteTransition(k) \/ RouteReconcile(k)
         \/ ReconcileLoads(k) \/ OldIds(k) \/ DeleteRows(k) \/ InsertRow(k)
         \/ DropExplanations(k) \/ RouteExplain(k) \/ ExplainLoads(k) \/ LoadFindings(k)
  PROVE  explanations' \subseteq explanations
<1>1. CASE DropExplanations(k)
  BY <1>1 DEF DropExplanations
<1>2. CASE \/ DeleteCase(k) \/ InsertCase(k) \/ DeleteRows(k) \/ InsertRow(k)
  BY <1>2 DEF DeleteCase, InsertCase, DeleteRows, InsertRow
<1>3. CASE \/ RouteTransition(k) \/ RouteReconcile(k) \/ ReconcileLoads(k) \/ OldIds(k)
           \/ RouteExplain(k) \/ ExplainLoads(k) \/ LoadFindings(k)
  BY <1>3 DEF RouteTransition, RouteReconcile, ReconcileLoads, OldIds, RouteExplain,
              ExplainLoads, LoadFindings, tables
<1>4. QED
  BY <1>1, <1>2, <1>3

-----------------------------------------------------------------------------
\* Any step that puts a sound record in place, and sound rows at most.
LEMMA SoundSteps ==
  ASSUME Inv, NEW k \in Workers, NEW q, Become(k, q), Sound(q),
         \A x \in explanations' : x \in explanations \/ SoundRow(x)
  PROVE  Inv'
BY DEF Inv, Become

\* A POST or GET comes in.
LEMMA AskKeeps == ASSUME Inv, NEW k \in Workers, NEW asked, Ask(k, asked) PROVE Inv'
<1> DEFINE at == IF IsDemo(asked.case) THEN "look_case" ELSE "route"
           q == [Idle EXCEPT !.asked = asked, !.left = DemoCases, !.at = at]
<1>1. /\ worker' = [j \in Workers |-> IF j = k THEN q ELSE [worker[j] EXCEPT !.alone = FALSE]]
      /\ explanations' = explanations
  BY DEF Ask, tables
<1>2. at \in Labels /\ at \notin Telling
  BY DEF Labels, Telling, Explaining
<1> HIDE DEF at
<1>3. Sound(q)
  BY <1>2, IdleIsSound DEF Sound, Shape, Telling, Explaining, Kept
<1>4. ASSUME NEW j \in Workers PROVE Sound([worker[j] EXCEPT !.alone = FALSE])
  <2>1. Sound(worker[j])
    BY DEF Inv
  <2>2. QED
    BY <2>1 DEF Sound, Shape
<1> HIDE DEF q
<1>5. QED
  BY <1>1, <1>3, <1>4 DEF Inv

\* What is to be explained is the observation asked for, or is missing.
LEMMA LoadTiesKeeps == ASSUME Inv, NEW k \in Workers, LoadTies(k) PROVE Inv'
<1> DEFINE r == worker[k]
           loaded == r.loaded \union OfCase(ties, CaseIn(k))
           todo == IF r.phase = "explain" THEN SetToSeq(IdsOf(loaded))
                   ELSE IF r.asked.id \in IdsOf(loaded) THEN <<r.asked.id>> ELSE <<>>
           q == [r EXCEPT !.at = "next_observation", !.loaded = loaded, !.todo = todo]
<1>1. Become(k, q) /\ explanations' = explanations
  BY DEF LoadTies, tables
<1>2. Sound(r)
  BY DEF Inv
<1>3. r.phase = "route" => todo \in {<<>>, <<r.asked.id>>}
  OBVIOUS
<1> HIDE DEF loaded, todo
<1>4. Sound(q)
  BY <1>2, <1>3 DEF Sound, Shape, Labels, Explaining
<1> HIDE DEF q
<1>5. QED
  BY <1>1, <1>4, SoundSteps

\* The next observation is taken in hand, if there is one.
LEMMA NextObservationKeeps == ASSUME Inv, NEW k \in Workers, NextObservation(k) PROVE Inv'
<1> DEFINE r == worker[k]
<1>1. Sound(r) /\ r.at = "next_observation" /\ explanations' = explanations
  BY DEF NextObservation, tables, Inv, At
<1>2. CASE r.todo # <<>>
  <2> DEFINE q == [r EXCEPT !.at = "load_cached"]
  <2>1. Become(k, q)
    BY <1>2 DEF NextObservation, GoTo
  <2>2. Sound(q)
    BY <1>1, <1>2 DEF Sound, Shape, Labels, Explaining
  <2> HIDE DEF q
  <2>3. QED
    BY <1>1, <2>1, <2>2, SoundSteps
<1>3. CASE r.todo = <<>> /\ r.phase = "route"
  BY <1>1, <1>3, IdleIsSound, SoundSteps DEF NextObservation
<1>4. CASE r.todo = <<>> /\ r.phase # "route" /\ Tail(r.left) # <<>>
  <2> DEFINE q == [r EXCEPT !.left = Tail(r.left), !.at = "explain_loads", !.loaded = {}]
  <2>1. Become(k, q)
    BY <1>4 DEF NextObservation, Become
  <2>2. Sound(q)
    BY <1>1 DEF Sound, Shape, Labels, Explaining
  <2> HIDE DEF q
  <2>3. QED
    BY <1>1, <2>1, <2>2, SoundSteps
<1>5. CASE r.todo = <<>> /\ r.phase # "route" /\ Tail(r.left) = <<>>
  <2> DEFINE q == [r EXCEPT !.at = "delete_marker", !.left = <<>>, !.loaded = {}]
  <2>1. Become(k, q)
    BY <1>5 DEF NextObservation
  <2>2. Sound(q)
    BY <1>1 DEF Sound, Shape, Labels, Explaining
  <2> HIDE DEF q
  <2>3. QED
    BY <1>1, <2>1, <2>2, SoundSteps
<1>6. QED
  BY <1>2, <1>3, <1>4, <1>5

\* A row with the id and the hash in hand is what the request is to return.
LEMMA ExplainedKeeps ==
  ASSUME Inv, NEW k \in Workers, worker[k].at \in Explaining, NEW row,
         row.of = Observation(k), row.hash = HashInHand(k), SoundRow(row),
         Explained(k, row),
         \A x \in explanations' : x \in explanations \/ SoundRow(x)
  PROVE  Inv'
<1> DEFINE r == worker[k]
<1>1. Sound(r)
  BY DEF Inv
<1>2. CASE r.phase = "route"
  <2> DEFINE q == [r EXCEPT !.at = "answer", !.answer = row, !.attempt = 0,
                            !.sentence = NoSentence]
  <2>1. Become(k, q)
    BY <1>2 DEF Explained
  <2>2. Observation(k) = r.asked.id
    BY <1>1, <1>2 DEF Sound, Observation
  <2>3. row.about = DocumentOf(r.asked.id, r.loaded)
    BY <2>2 DEF SoundRow, HashInHand, EvidenceHash
  <2>4. Sound(q)
    BY <1>1, <2>2, <2>3 DEF Sound, Shape, Labels, Explaining, Kept
  <2> HIDE DEF q
  <2>5. QED
    BY <2>1, <2>4, SoundSteps
<1>3. CASE r.phase # "route"
  <2> DEFINE q == [r EXCEPT !.at = "next_observation", !.todo = Tail(r.todo), !.attempt = 0,
                            !.sentence = NoSentence]
  <2>1. Become(k, q)
    BY <1>3 DEF Explained, Become
  <2>2. Sound(q)
    BY <1>1, <1>3 DEF Sound, Shape, Labels, Explaining, Kept
  <2> HIDE DEF q
  <2>3. QED
    BY <2>1, <2>2, SoundSteps
<1>4. QED
  BY <1>2, <1>3

\* A cached row is served, or there is none.
LEMMA LoadCachedKeeps == ASSUME Inv, NEW k \in Workers, LoadCached(k) PROVE Inv'
<1> DEFINE r == worker[k]
           cached == Cached(Observation(k), HashInHand(k))
           row == CHOOSE x \in cached : TRUE
<1>1. Sound(r) /\ r.at = "load_cached" /\ explanations' = explanations
  BY DEF LoadCached, tables, Inv, At
<1>2. CASE cached # {}
  <2>1. row \in cached
    BY <1>2
  <2>2. row.of = Observation(k) /\ row.hash = HashInHand(k) /\ SoundRow(row)
    BY <2>1 DEF Cached, Inv
  <2>3. Explained(k, row)
    BY <1>2 DEF LoadCached
  <2> HIDE DEF row
  <2>4. QED
    BY <1>1, <2>2, <2>3, ExplainedKeeps DEF Explaining
<1>3. CASE cached = {} /\ Become(k, Idle)
  BY <1>1, <1>3, IdleIsSound, SoundSteps
<1>4. CASE cached = {} /\ ~Become(k, Idle)
  <2> DEFINE q == [r EXCEPT !.at = "generate"]
  <2>1. Become(k, q)
    BY <1>4 DEF LoadCached, GoTo
  <2>2. Sound(q)
    BY <1>1 DEF Sound, Shape, Labels, Explaining
  <2> HIDE DEF q
  <2>3. QED
    BY <1>1, <2>1, <2>2, SoundSteps
<1>5. QED
  BY <1>2, <1>3, <1>4

\* Only a response that passes every check becomes the sentence.
LEMMA GenerateKeeps == ASSUME Inv, NEW k \in Workers, Generate(k) PROVE Inv'
<1> DEFINE r == worker[k]
<1>1. Sound(r) /\ r.at = "generate" /\ explanations' = explanations
  BY DEF Generate, tables, Inv, At
<1>2. PICK response \in Responses \union {NoSentence} :
        IF HasText(response) /\ IsGrounded(response) /\ response.clean
        THEN Become(k, [r EXCEPT !.at = "delete_explanation", !.sentence = response])
        ELSE IF r.attempt < MAX_RETRIES
        THEN Become(k, [r EXCEPT !.attempt = r.attempt + 1])
        ELSE GoTo(k, "delete_explanation")
  BY DEF Generate, Become
<1>response. response \in ResponseRecords
  <2>1. Responses \subseteq ResponseRecords
    BY InputAssumption, Zenon
  <2>2. NoSentence \in ResponseRecords
    BY DEF NoSentence, ResponseRecords
  <2>3. QED
    BY <2>1, <2>2
<1>3. CASE HasText(response) /\ IsGrounded(response) /\ response.clean
  <2> DEFINE q == [r EXCEPT !.at = "delete_explanation", !.sentence = response]
  <2>1. Become(k, q)
    BY <1>2, <1>3
  <2>2. Sound(q)
    BY <1>1, <1>response, <1>3 DEF Sound, Shape, Labels, Explaining, Kept, Fit
  <2> HIDE DEF q
  <2>3. QED
    BY <1>1, <2>1, <2>2, SoundSteps
<1>4. CASE ~(HasText(response) /\ IsGrounded(response) /\ response.clean)
           /\ r.attempt < MAX_RETRIES
  <2> DEFINE attempt == r.attempt + 1
             q == [r EXCEPT !.attempt = attempt]
  <2>1. Become(k, q)
    BY <1>2, <1>4
  <2> HIDE DEF attempt
  <2>2. Sound(q)
    BY <1>1 DEF Sound, Shape, Labels, Explaining
  <2> HIDE DEF q
  <2>3. QED
    BY <1>1, <2>1, <2>2, SoundSteps
<1>5. CASE ~(HasText(response) /\ IsGrounded(response) /\ response.clean)
           /\ ~(r.attempt < MAX_RETRIES)
  <2> DEFINE q == [r EXCEPT !.at = "delete_explanation"]
  <2>1. Become(k, q)
    BY <1>2, <1>5 DEF GoTo
  <2>2. Sound(q)
    BY <1>1 DEF Sound, Shape, Labels, Explaining
  <2> HIDE DEF q
  <2>3. QED
    BY <1>1, <2>1, <2>2, SoundSteps
<1>6. QED
  BY <1>3, <1>4, <1>5

\* The row is cached under the hash of what it was drafted from.
LEMMA SaveKeeps ==
  ASSUME Inv, NEW k \in Workers, DeleteExplanation(k) \/ InsertExplanation(k)
  PROVE  Inv'
<1> DEFINE r == worker[k]
<1>1. Sound(r)
  BY DEF Inv
<1>2. CASE DeleteExplanation(k)
  <2> DEFINE q == [r EXCEPT !.at = "insert_explanation"]
  <2>1. Become(k, q) /\ explanations' \subseteq explanations /\ r.at = "delete_explanation"
    BY <1>2 DEF DeleteExplanation, GoTo, At
  <2>2. Sound(q)
    BY <1>1, <2>1 DEF Sound, Shape, Labels, Explaining
  <2> HIDE DEF q
  <2>3. QED
    BY <2>1, <2>2, SoundSteps
<1>3. CASE InsertExplanation(k)
  <2> DEFINE row == [of |-> Observation(k), hash |-> HashInHand(k), sentence |-> r.sentence,
                     about |-> DocumentOf(Observation(k), r.loaded)]
  <2>1. r.at = "insert_explanation"
    BY <1>3 DEF InsertExplanation, At
  <2>2. SoundRow(row) /\ row.of = Observation(k) /\ row.hash = HashInHand(k)
    BY <1>1 DEF SoundRow, Sound, HashInHand, EvidenceHash
  <2>3. CASE Cached(row.of, row.hash) # {}
    <3>1. Become(k, Idle) /\ explanations' = explanations
      BY <1>3, <2>3 DEF InsertExplanation, Fail
    <3>2. QED
      BY <3>1, IdleIsSound, SoundSteps
  <2>4. CASE Cached(row.of, row.hash) = {}
    <3>1. Explained(k, row) /\ explanations' = explanations \union {row}
      BY <1>3, <2>4 DEF InsertExplanation
    <3> HIDE DEF row
    <3>2. QED
      BY <2>1, <2>2, <3>1, ExplainedKeeps DEF Explaining
  <2>5. QED
    BY <2>3, <2>4
<1>4. QED
  BY <1>2, <1>3

-----------------------------------------------------------------------------
\* The invariant of the two theorems that follow: what a request and a row hold is
\* sound.
THEOREM AlwaysSound == Spec => []Inv
<1>1. Init => Inv
  BY IdleIsSound DEF Init, Inv
<1>2. Inv /\ [Next]_vars => Inv'
  <2> SUFFICES ASSUME Inv, [Next]_vars PROVE Inv'
    OBVIOUS
  <2>1. ASSUME NEW k \in Workers, NEW asked \in Asks, Ask(k, asked) PROVE Inv'
    BY <2>1, AskKeeps
  <2>2. ASSUME NEW k \in Workers, Step(k) PROVE Inv'
    <3>1. CASE \/ LookForCase(k) \/ LookForMarker(k)
               \/ WipeFindings(k) \/ WipeTies(k) \/ WipeExplanations(k)
               \/ SaveCollides(k) \/ DeleteMarker(k) \/ InsertMarker(k)
      BY <3>1, RebuildIsQuiet, QuietSteps
    <3>2. CASE \/ DeleteCase(k) \/ InsertCase(k) \/ RouteTransition(k) \/ RouteReconcile(k)
               \/ ReconcileLoads(k) \/ OldIds(k) \/ DeleteRows(k) \/ InsertRow(k)
               \/ DropExplanations(k) \/ RouteExplain(k) \/ ExplainLoads(k) \/ LoadFindings(k)
      BY <3>2, ReconciliationIsQuiet, ReconciliationAddsNone, QuietSteps
    <3>3. CASE LoadTies(k) \/ NextObservation(k) \/ LoadCached(k) \/ Generate(k)
      BY <3>3, LoadTiesKeeps, NextObservationKeeps, LoadCachedKeeps, GenerateKeeps
    <3>4. CASE DeleteExplanation(k) \/ InsertExplanation(k)
      BY <3>4, SaveKeeps
    <3>5. CASE GenerateFails(k) \/ Answer(k)
      <4>1. Become(k, Idle) /\ explanations' = explanations
        BY <3>5 DEF GenerateFails, Answer, Fail, Finish, tables
      <4>2. QED
        BY <4>1, IdleIsSound, SoundSteps
    <3>6. QED
      BY <2>2, <3>1, <3>2, <3>3, <3>4, <3>5 DEF Step
  <2>3. ASSUME Crash \/ Deploy PROVE Inv'
    <3>1. worker' = [k \in Workers |-> Idle] /\ explanations' = explanations
      BY <2>3 DEF Crash, Deploy, tables
    <3>2. QED
      BY <3>1, IdleIsSound DEF Inv
  <2>4. ASSUME UNCHANGED vars PROVE Inv'
    BY <2>4 DEF vars, tables, Inv
  <2>5. QED
    BY <2>1, <2>2, <2>3, <2>4 DEF Next
<1>3. QED
  BY <1>1, <1>2, PTL DEF Spec

\* An explanation that is served was drafted from just what the request read of
\* the case, for any number of overlapping requests and reconciliations
\* (evidence_hash_for, explain).
THEOREM ServedIsForTheEvidence == Spec => []ServedForTheEvidence
<1>1. Inv => ServedForTheEvidence
  BY DEF Inv, Sound, ServedForTheEvidence, At
<1>2. QED
  BY <1>1, AlwaysSound, PTL

\* However the model answers and however often it is asked, a sentence that is
\* kept has text, cites in each block of it, and cites only what resolves
\* (_is_grounded, generate_synthesis).
THEOREM KeptSentencesAreGrounded == Spec => []SentencesAreGrounded
<1>1. Inv => SentencesAreGrounded
  <2>1. SUFFICES ASSUME Inv, NEW x \in explanations, x.sentence # NoSentence
                 PROVE  /\ x.sentence.clean /\ HasText(x.sentence)
                        /\ \A i \in DOMAIN x.sentence.blocks :
                             /\ x.sentence.blocks[i].citations \subseteq {"resolves"}
                             /\ x.sentence.blocks[i].text =>
                                  x.sentence.blocks[i].citations # {}
    BY DEF SentencesAreGrounded
  <2>2. Fit(x.sentence)
    BY <2>1 DEF Inv, SoundRow, Kept
  <2>3. \A i \in DOMAIN x.sentence.blocks : x.sentence.blocks[i] \in Blocks
    BY <2>2 DEF Fit, ResponseRecords
  <2>4. QED
    BY <2>2, <2>3 DEF Fit, IsGrounded, Blocks
<1>2. QED
  BY <1>1, AlwaysSound, PTL

-----------------------------------------------------------------------------
(* Types: what a request holds, by where it is. *)

Reconciling == {"old_ids", "delete_rows", "insert_rows", "drop_explanations"}
Building ==
  {"wipe_findings", "wipe_ties", "wipe_explanations", "delete_case", "insert_case",
   "reconcile_loads"} \union Reconciling
InHand == {"next_observation"} \union Explaining
Retelling == {"explain_loads", "load_findings", "load_ties"} \union InHand
Marking == {"delete_marker", "insert_marker"}
OnlyRebuilding ==
  {"wipe_findings", "wipe_ties", "wipe_explanations", "explain_loads"} \union Marking

CaseOfRequest(r) == IF r.phase = "route" THEN r.asked.case ELSE Head(r.left)
IdsOfTable(r) == IF r.table = "findings" THEN FindingIds ELSE TieIds

\* The phase a request is in goes with where it is, and with the cases left.
Placed(r) ==
  /\ r.at # "idle" => r.asked \in AskedRecords
  /\ r.phase # "route" \/ r.at \in {"look_case", "look_marker"} => DemoCases # <<>>
  /\ r.phase = "route" => r.at \notin OnlyRebuilding
  /\ r.phase = "build" => r.at \in Building
  /\ r.phase = "explain" => r.at \in Retelling \union Marking
  /\ r.phase # "route" /\ r.at \notin Marking => r.left # <<>>
  /\ r.at \in Marking => r.left = <<>>
  /\ r.phase # "route" => IsInjective(r.left)
  /\ r.phase = "route" /\ r.at \in Reconciling \union {"reconcile_loads"} =>
       r.asked.op = "reconcile"

\* What a reconciliation found, has still to insert, and removes.
Found(r) ==
  /\ IsFiniteSet(r.found)
  /\ r.at \in Reconciling => r.found \in Discoveries[CaseOfRequest(r)][deployed]
  /\ r.at = "delete_rows" => {row \in r.found : row[1] \in IdsOfTable(r)} \subseteq r.rows
  /\ r.at \in {"delete_rows", "insert_rows"} =>
       r.rows \subseteq {row \in r.found : row[1] \in IdsOfTable(r)}
  /\ r.at \in Reconciling \ {"old_ids"} => \A id \in r.gone :
       id \in IdsOfTable(r) /\ CaseOf[id] = CaseOfRequest(r) /\ id \notin IdsOf(r.found)

\* What was loaded, and is to be explained.
Loaded(r) ==
  /\ IsFiniteSet(r.loaded)
  /\ r.at \in InHand => ToSet(r.todo) \subseteq IdsOf(r.loaded)

Held(r) == r \in WorkerRecords /\ Placed(r) /\ Found(r) /\ Loaded(r)

FiniteCases ==
  \A c \in Cases : IsFiniteSet(OfCase(findings, c)) /\ IsFiniteSet(OfCase(ties, c))

TypeInv ==
  /\ ExplanationsTypeOK
  /\ \A k \in Workers : Held(worker[k])
  /\ FiniteCases

\* The first of a sequence and the rest of it.
LEMMA HeadAndTail ==
  ASSUME NEW S, NEW s \in Seq(S), s # <<>>
  PROVE  /\ Head(s) \in S /\ Tail(s) \in Seq(S)
         /\ Head(s) \in ToSet(s)
         /\ \A x : x \in ToSet(s) <=> x = Head(s) \/ x \in ToSet(Tail(s))
         /\ IsInjective(s) => IsInjective(Tail(s)) /\ Head(s) \notin ToSet(Tail(s))
<1>1. /\ Len(s) \in Nat /\ Len(s) > 0 /\ DOMAIN s = 1..Len(s)
      /\ Head(s) = s[1] /\ Tail(s) \in Seq(S)
      /\ Len(Tail(s)) = Len(s) - 1 /\ DOMAIN Tail(s) = 1..(Len(s) - 1)
      /\ \A i \in 1..(Len(s) - 1) : Tail(s)[i] = s[i + 1]
  OBVIOUS
<1>2. Head(s) \in S /\ Head(s) \in ToSet(s)
  BY <1>1 DEF ToSet
<1>3. ASSUME NEW x \in ToSet(s) PROVE x = Head(s) \/ x \in ToSet(Tail(s))
  <2>1. PICK i \in 1..Len(s) : x = s[i]
    BY <1>1 DEF ToSet
  <2>2. CASE i # 1
    <3>1. i - 1 \in 1..(Len(s) - 1) /\ Tail(s)[i - 1] = x
      BY <1>1, <2>1, <2>2
    <3>2. QED
      BY <1>1, <3>1 DEF ToSet
  <2>3. QED
    BY <1>1, <2>1, <2>2
<1>4. ASSUME NEW x \in ToSet(Tail(s)) PROVE x \in ToSet(s)
  <2>1. PICK i \in 1..(Len(s) - 1) : x = s[i + 1]
    BY <1>1 DEF ToSet
  <2>2. i + 1 \in DOMAIN s
    BY <1>1, <2>1
  <2>3. QED
    BY <2>1, <2>2 DEF ToSet
<1>5. ASSUME IsInjective(s) PROVE IsInjective(Tail(s)) /\ Head(s) \notin ToSet(Tail(s))
  <2>1. \A i, j \in 1..Len(s) : s[i] = s[j] => i = j
    BY <1>1, <1>5 DEF IsInjective
  <2>2. ASSUME NEW i \in 1..(Len(s) - 1), NEW j \in 1..(Len(s) - 1), Tail(s)[i] = Tail(s)[j]
        PROVE  i = j
    <3>1. s[i + 1] = s[j + 1] /\ i + 1 \in 1..Len(s) /\ j + 1 \in 1..Len(s)
      BY <1>1, <2>2
    <3>2. i + 1 = j + 1
      BY <2>1, <3>1
    <3>3. QED
      BY <3>2
  <2>3. ASSUME NEW i \in 1..(Len(s) - 1) PROVE Tail(s)[i] # Head(s)
    <3>1. i + 1 \in 1..Len(s) /\ 1 \in 1..Len(s) /\ i + 1 # 1
      BY <1>1
    <3>2. QED
      BY <1>1, <2>1, <3>1
  <2>4. QED
    BY <1>1, <2>2, <2>3 DEF IsInjective, ToSet
<1>6. QED
  BY <1>1, <1>2, <1>3, <1>4, <1>5

\* The demo cases are cases, and to be rebuilt one by one.
LEMMA DemosAreCases ==
  /\ DemoCases \in Seq(ToSet(DemoCases)) /\ ToSet(DemoCases) \subseteq Cases
  /\ IsInjective(DemoCases)
  /\ \A c : IsDemo(c) => DemoCases # <<>>
<1>1. DemoCases \in Seq(Cases) /\ IsInjective(DemoCases)
  BY InputAssumption, Zenon
<1>2. DOMAIN DemoCases = 1..Len(DemoCases) /\ Len(DemoCases) \in Nat
      /\ \A i \in 1..Len(DemoCases) : DemoCases[i] \in Cases
  BY <1>1
<1>3. ToSet(DemoCases) \subseteq Cases /\ \A i \in 1..Len(DemoCases) : DemoCases[i] \in ToSet(DemoCases)
  BY <1>2 DEF ToSet
<1>4. DemoCases \in Seq(ToSet(DemoCases))
  BY <1>1, <1>2, <1>3
<1>5. ASSUME NEW c, IsDemo(c) PROVE DemoCases # <<>>
  BY <1>2, <1>5 DEF IsDemo, ToSet
<1>6. QED
  BY <1>1, <1>3, <1>4, <1>5

\* A case in hand is a case.
LEMMA CaseInHand ==
  ASSUME NEW r, r \in WorkerRecords, Placed(r), r.at # "idle", r.at \notin Marking
  PROVE  CaseOfRequest(r) \in Cases /\ (r.phase # "route" => IsDemo(CaseOfRequest(r)))
<1>1. CASE r.phase = "route"
  BY <1>1 DEF Placed, CaseOfRequest, AskedRecords
<1>2. CASE r.phase # "route"
  <2>1. r.left \in Seq(ToSet(DemoCases)) /\ r.left # <<>>
    BY <1>2 DEF WorkerRecords, Placed
  <2>2. Head(r.left) \in ToSet(DemoCases)
    BY <2>1, HeadAndTail
  <2>3. QED
    BY <1>2, <2>2, DemosAreCases DEF CaseOfRequest, IsDemo
<1>3. QED
  BY <1>1, <1>2

\* A set as the sequence of what is to be explained.
LEMMA SetAsSequence ==
  ASSUME NEW S, IsFiniteSet(S)
  PROVE  SetToSeq(S) \in Seq(S) /\ ToSet(SetToSeq(S)) = S
<1> DEFINE n == Cardinality(S)
           s == SetToSeq(S)
<1>1. n \in Nat /\ ExistsBijection(1..n, S)
  BY FS_CardinalityType
<1>2. \E f \in [1..n -> S] : IsInjective(f)
  BY <1>1 DEF ExistsBijection, Bijection, Injection
<1>3. s \in [1..n -> S] /\ IsInjective(s)
  BY <1>2 DEF SetToSeq
<1>4. s \in Injection(1..n, S) /\ IsFiniteSet(1..n) /\ Cardinality(1..n) = n
  BY <1>1, <1>3, FS_Interval DEF Injection
<1>5. s \in Surjection(1..n, S)
  <2> HIDE DEF s
  <2>1. QED
    BY <1>4, FS_Injection
<1>6. QED
  BY <1>1, <1>3, <1>5 DEF ToSet, Surjection

\* An idle worker holds nothing, so all it holds is typed.
LEMMA IdleIsHeld == Held(Idle) /\ Idle \in WorkerRecords
<1>1. IsFiniteSet({})
  BY FS_EmptySet
<1>2. NoSentence \in ResponseRecords
  BY DEF NoSentence, ResponseRecords
<1>3. <<>> \in Seq(ToSet(DemoCases)) /\ <<>> \in Seq(Ids)
  OBVIOUS
<1>4. Idle \in WorkerRecords
  BY <1>2, <1>3 DEF Idle, WorkerRecords, Labels
<1>5. Placed(Idle) /\ Found(Idle) /\ Loaded(Idle)
  BY <1>1 DEF Idle, Placed, Found, Loaded, OnlyRebuilding, Marking, Reconciling, InHand, Explaining
<1>6. QED
  BY <1>4, <1>5 DEF Held

\* A request that goes to another label keeps all else.
LEMMA Moved ==
  ASSUME NEW r \in WorkerRecords, NEW label \in Labels, NEW q, q = [r EXCEPT !.at = label]
  PROVE  /\ q \in WorkerRecords /\ q.at = label
         /\ q.phase = r.phase /\ q.asked = r.asked /\ q.left = r.left /\ q.target = r.target
         /\ q.table = r.table /\ q.rows = r.rows /\ q.found = r.found /\ q.gone = r.gone
         /\ q.loaded = r.loaded /\ q.todo = r.todo /\ q.attempt = r.attempt
         /\ q.sentence = r.sentence /\ q.answer = r.answer /\ q.alone = r.alone
BY DEF WorkerRecords

\* What a step of a request leaves: a record of its own that holds.
Leaves(k) == \E q : worker' = [worker EXCEPT ![k] = q] /\ Held(q)

\* A step that ends a request leaves its worker with what it may hold.
LEMMA Ending ==
  ASSUME NEW k \in Workers, Become(k, Idle), deployed' = deployed
  PROVE  Leaves(k)
<1>1. Held(Idle)
  BY IdleIsHeld
<1>2. QED
  BY <1>1 DEF Leaves, Become

\* Starting the rebuild of a demo case leaves the worker typed.
LEMMA RebuildLeaves ==
  ASSUME TypeInv, NEW k \in Workers, Rebuild(k), deployed' = deployed,
         worker[k].at \in {"look_case", "look_marker"}
  PROVE  Leaves(k)
<1> DEFINE r == worker[k]
           alone == Busy = {k}
           q == [r EXCEPT !.phase = "build", !.left = DemoCases, !.at = "wipe_findings",
                          !.alone = alone]
<1>1. r \in WorkerRecords /\ Placed(r) /\ Found(r) /\ Loaded(r)
  BY DEF TypeInv, Held
<1>2. worker' = [worker EXCEPT ![k] = q] /\ alone \in BOOLEAN
  BY DEF Rebuild, Become
<1> HIDE DEF alone
<1>3. /\ q \in WorkerRecords /\ q.at = "wipe_findings" /\ q.phase = "build"
      /\ q.left = DemoCases /\ q.asked = r.asked /\ q.found = r.found /\ q.loaded = r.loaded
  BY <1>1, <1>2, DemosAreCases DEF WorkerRecords, Labels
<1> HIDE DEF q
<1>4. Held(q)
  BY <1>1, <1>3, DemosAreCases
     DEF Held, Placed, Found, Loaded, Reconciling, Building, InHand, Explaining, Marking
<1>5. QED
  BY <1>2, <1>4 DEF Leaves

\* The two lookups of a demo case leave the worker typed.
LEMMA LookLeaves ==
  ASSUME TypeInv, NEW k \in Workers, LookForCase(k) \/ LookForMarker(k)
  PROVE  Leaves(k)
<1> DEFINE r == worker[k]
<1>1. r \in WorkerRecords /\ Placed(r) /\ Found(r) /\ Loaded(r)
  BY DEF TypeInv, Held
<1>2. r.at \in {"look_case", "look_marker"} /\ deployed' = deployed
  BY DEF LookForCase, LookForMarker, At
<1>3. r.phase = "route"
  BY <1>1, <1>2 DEF Placed, WorkerRecords, Building, Retelling, InHand, Explaining, Marking,
                    Reconciling
<1>4. CASE Rebuild(k)
  BY <1>2, <1>4, RebuildLeaves
<1>5. ASSUME NEW label \in {"look_marker", "route"}, GoTo(k, label) PROVE Leaves(k)
  <2> DEFINE q == [r EXCEPT !.at = label]
  <2>1. worker' = [worker EXCEPT ![k] = q] /\ label \in Labels
    BY <1>5 DEF GoTo, Become, Labels
  <2> HIDE DEF q
  <2>2. Held(q)
    BY <1>1, <1>2, <1>3, <2>1, <1>5, Moved
       DEF q, Held, Placed, Found, Loaded, OnlyRebuilding, Reconciling, InHand, Explaining, Marking
  <2>3. QED
    BY <2>1, <2>2 DEF Leaves
<1>6. CASE r.at = "look_case" /\ r.left # <<>> /\ ~Rebuild(k)
  <2> DEFINE rest == Tail(r.left)
             q == [r EXCEPT !.left = rest]
  <2>1. worker' = [worker EXCEPT ![k] = q]
    BY <1>6 DEF LookForCase, LookForMarker, Become, At
  <2>2. rest \in Seq(ToSet(DemoCases))
    BY <1>1, <1>6, HeadAndTail DEF WorkerRecords
  <2> HIDE DEF rest
  <2>3. /\ q \in WorkerRecords /\ q.at = r.at /\ q.phase = r.phase /\ q.asked = r.asked
        /\ q.found = r.found /\ q.loaded = r.loaded
    BY <1>1, <2>2 DEF WorkerRecords
  <2> HIDE DEF q
  <2>4. Held(q)
    BY <1>1, <1>2, <1>3, <1>6, <2>3
       DEF Held, Placed, Found, Loaded, OnlyRebuilding, Reconciling, InHand, Explaining, Marking
  <2>5. QED
    BY <2>1, <2>4 DEF Leaves
<1>7. CASE ~Rebuild(k) /\ ~(r.at = "look_case" /\ r.left # <<>>)
  <2>1. GoTo(k, "look_marker") \/ GoTo(k, "route")
    BY <1>7 DEF LookForCase, LookForMarker, At
  <2>2. QED
    BY <2>1, <1>5
<1>8. QED
  BY <1>4, <1>6, <1>7

\* From label to label, where nothing else has to be shown.
LEMMA MoveLeaves ==
  ASSUME TypeInv, NEW k \in Workers, deployed' = deployed,
         \/ worker[k].at = "wipe_findings" /\ GoTo(k, "wipe_ties")
         \/ worker[k].at = "wipe_ties" /\ GoTo(k, "wipe_explanations")
         \/ worker[k].at = "delete_case" /\ GoTo(k, "insert_case")
         \/ worker[k].at = "insert_case" /\ worker[k].phase = "build" /\ GoTo(k, "reconcile_loads")
         \/ worker[k].at = "delete_marker" /\ GoTo(k, "insert_marker")
         \/ worker[k].at = "route" /\ worker[k].asked.op = "reconcile" /\ GoTo(k, "reconcile_loads")
         \/ worker[k].at = "delete_rows" /\ GoTo(k, "insert_rows")
         \/ worker[k].at = "insert_rows" /\ GoTo(k, "drop_explanations")
         \/ worker[k].at = "drop_explanations" /\ GoTo(k, "delete_case")
         \/ worker[k].at = "route" /\ GoTo(k, "load_findings")
         \/ worker[k].at = "explain_loads" /\ GoTo(k, "load_findings")
         \/ worker[k].at = "next_observation" /\ GoTo(k, "load_cached")
         \/ worker[k].at = "load_cached" /\ GoTo(k, "generate")
         \/ worker[k].at = "generate" /\ GoTo(k, "delete_explanation")
         \/ worker[k].at = "delete_explanation" /\ GoTo(k, "insert_explanation")
  PROVE  Leaves(k)
<1> DEFINE r == worker[k]
<1>1. r \in WorkerRecords /\ Placed(r) /\ Found(r) /\ Loaded(r)
  BY DEF TypeInv, Held
<1>2. PICK label \in Labels : worker' = [worker EXCEPT ![k] = [r EXCEPT !.at = label]]
         /\ <<r.at, label>> \in
              {<<"wipe_findings", "wipe_ties">>, <<"wipe_ties", "wipe_explanations">>,
               <<"delete_case", "insert_case">>, <<"insert_case", "reconcile_loads">>,
               <<"delete_marker", "insert_marker">>, <<"route", "reconcile_loads">>,
               <<"delete_rows", "insert_rows">>, <<"insert_rows", "drop_explanations">>,
               <<"drop_explanations", "delete_case">>, <<"route", "load_findings">>,
               <<"explain_loads", "load_findings">>, <<"next_observation", "load_cached">>,
               <<"load_cached", "generate">>, <<"generate", "delete_explanation">>,
               <<"delete_explanation", "insert_explanation">>}
         /\ (r.at = "insert_case" => r.phase = "build")
         /\ (r.at = "route" /\ label = "reconcile_loads" => r.asked.op = "reconcile")
  BY DEF GoTo, Become, Labels
<1> DEFINE q == [r EXCEPT !.at = label]
<1> HIDE DEF q
<1>3. /\ q \in WorkerRecords /\ q.at = label
      /\ q.phase = r.phase /\ q.asked = r.asked /\ q.left = r.left
      /\ q.table = r.table /\ q.rows = r.rows /\ q.found = r.found /\ q.gone = r.gone
      /\ q.loaded = r.loaded /\ q.todo = r.todo
  BY <1>1, Moved DEF q
<1>4. Placed(q)
  BY <1>1, <1>2, <1>3
     DEF Placed, OnlyRebuilding, Building, Retelling, Reconciling, InHand, Explaining, Marking
<1>5. Found(q)
  BY <1>1, <1>2, <1>3 DEF Found, Reconciling, CaseOfRequest, IdsOfTable
<1>6. Loaded(q)
  BY <1>1, <1>2, <1>3 DEF Loaded, InHand, Explaining
<1>7. QED
  BY <1>2, <1>3, <1>4, <1>5, <1>6 DEF Leaves, Held, q, Placed, Loaded

\* A case is reconciled.
LEMMA AfterReconcileLeaves ==
  ASSUME TypeInv, NEW k \in Workers, AfterReconcile(k), deployed' = deployed,
         worker[k].at \in {"drop_explanations", "insert_case"}
  PROVE  Leaves(k)
<1> DEFINE r == worker[k]
<1>1. r \in WorkerRecords /\ Placed(r) /\ Found(r) /\ Loaded(r)
  BY DEF TypeInv, Held
<1>2. CASE r.phase = "route"
  BY <1>2, Ending DEF AfterReconcile
<1>3. CASE r.phase # "route"
  <2>1. /\ r.left \in Seq(ToSet(DemoCases)) /\ r.left # <<>> /\ IsInjective(r.left)
        /\ DemoCases # <<>>
    BY <1>1, <1>3 DEF WorkerRecords, Placed, Marking
  <2> DEFINE rest == Tail(r.left)
  <2>2. rest \in Seq(ToSet(DemoCases)) /\ IsInjective(rest)
    BY <2>1, HeadAndTail
  <2>3. CASE rest # <<>>
    <3> DEFINE q == [r EXCEPT !.left = rest, !.at = "wipe_findings"]
    <3>1. worker' = [worker EXCEPT ![k] = q]
      BY <1>3, <2>3 DEF AfterReconcile, Become
    <3>2. r.phase = "build"
      BY <1>1, <1>3 DEF Placed, WorkerRecords, Retelling, InHand, Explaining, Marking
    <3> HIDE DEF rest
    <3>3. /\ q \in WorkerRecords /\ q.at = "wipe_findings" /\ q.phase = r.phase
          /\ q.left = rest /\ q.asked = r.asked /\ q.found = r.found /\ q.loaded = r.loaded
      BY <1>1, <2>2 DEF WorkerRecords, Labels
    <3> HIDE DEF q
    <3>4. Held(q)
      BY <1>1, <2>1, <2>2, <2>3, <3>2, <3>3
         DEF Held, Placed, Found, Loaded, Reconciling, Building, InHand, Explaining, Marking
    <3>5. QED
      BY <3>1, <3>4 DEF Leaves
  <2>4. CASE rest = <<>>
    <3> DEFINE q == [r EXCEPT !.phase = "explain", !.left = DemoCases, !.at = "explain_loads"]
    <3>1. worker' = [worker EXCEPT ![k] = q]
      BY <1>3, <2>4 DEF AfterReconcile, Become
    <3>2. /\ q \in WorkerRecords /\ q.at = "explain_loads" /\ q.phase = "explain"
          /\ q.left = DemoCases /\ q.asked = r.asked /\ q.found = r.found /\ q.loaded = r.loaded
      BY <1>1, DemosAreCases DEF WorkerRecords, Labels
    <3> HIDE DEF q
    <3>3. Held(q)
      BY <1>1, <2>1, <3>2, DemosAreCases
         DEF Held, Placed, Found, Loaded, Reconciling, Retelling, InHand, Explaining, Marking
    <3>4. QED
      BY <3>1, <3>3 DEF Leaves
  <2>5. QED
    BY <2>3, <2>4
<1>4. QED
  BY <1>2, <1>3

\* The statements that rebuild a demo case leave the worker typed.
LEMMA RebuildStepsLeave ==
  ASSUME TypeInv, NEW k \in Workers,
         \/ WipeFindings(k) \/ WipeTies(k) \/ WipeExplanations(k) \/ SaveCollides(k)
         \/ DeleteCase(k) \/ InsertCase(k) \/ DeleteMarker(k) \/ InsertMarker(k)
  PROVE  Leaves(k)
<1> DEFINE r == worker[k]
<1>1. r \in WorkerRecords /\ Placed(r) /\ Found(r) /\ Loaded(r)
  BY DEF TypeInv, Held
<1>2. deployed' = deployed
  BY DEF WipeFindings, WipeTies, WipeExplanations, SaveCollides, DeleteCase, InsertCase,
         DeleteMarker, InsertMarker
<1>3. CASE WipeFindings(k) \/ WipeTies(k) \/ DeleteCase(k) \/ DeleteMarker(k)
  BY <1>2, <1>3, MoveLeaves DEF WipeFindings, WipeTies, DeleteCase, DeleteMarker, At
<1>4. CASE SaveCollides(k)
  BY <1>2, <1>4, Ending DEF SaveCollides, Fail
<1>5. CASE InsertCase(k)
  <2>1. r.at = "insert_case"
    BY <1>5 DEF InsertCase, At
  <2>2. \/ Become(k, Idle) \/ AfterReconcile(k)
        \/ r.phase = "build" /\ GoTo(k, "reconcile_loads")
    BY <1>5 DEF InsertCase, Fail
  <2>3. QED
    BY <1>2, <2>1, <2>2, Ending, AfterReconcileLeaves, MoveLeaves
<1>6. CASE WipeExplanations(k)
  <2> DEFINE q == [r EXCEPT !.at = "delete_case", !.target = "intake"]
  <2>1. worker' = [worker EXCEPT ![k] = q] /\ r.at = "wipe_explanations"
    BY <1>6 DEF WipeExplanations, Become, At
  <2>2. /\ q \in WorkerRecords /\ q.at = "delete_case" /\ q.phase = r.phase
        /\ q.left = r.left /\ q.asked = r.asked /\ q.found = r.found /\ q.loaded = r.loaded
    BY <1>1 DEF WorkerRecords, Labels, States
  <2> HIDE DEF q
  <2>3. Held(q)
    BY <1>1, <2>1, <2>2 DEF Held, Placed, Found, Loaded, OnlyRebuilding, Building, Retelling,
                            Reconciling, InHand, Explaining, Marking
  <2>4. QED
    BY <2>1, <2>3 DEF Leaves
<1>7. CASE InsertMarker(k)
  <2>1. CASE Become(k, Idle)
    BY <1>2, <2>1, Ending
  <2>2. CASE ~Become(k, Idle)
    <3> DEFINE q == [r EXCEPT !.phase = "route", !.at = "route"]
    <3>1. worker' = [worker EXCEPT ![k] = q] /\ r.at = "insert_marker"
      BY <1>7, <2>2 DEF InsertMarker, Become, Fail, At
    <3>2. /\ q \in WorkerRecords /\ q.at = "route" /\ q.phase = "route"
          /\ q.left = r.left /\ q.asked = r.asked /\ q.found = r.found /\ q.loaded = r.loaded
      BY <1>1 DEF WorkerRecords, Labels
    <3> HIDE DEF q
    <3>3. Held(q)
      BY <1>1, <3>1, <3>2 DEF Held, Placed, Found, Loaded, OnlyRebuilding,
                              Reconciling, InHand, Explaining, Marking
    <3>4. QED
      BY <3>1, <3>3 DEF Leaves
  <2>3. QED
    BY <2>1, <2>2
<1>8. QED
  BY <1>3, <1>4, <1>5, <1>6, <1>7

\* What may be found of a case are rows of it, each id once.
LEMMA FoundIsOfTheCase ==
  ASSUME NEW c \in Cases, deployed \in 1..MaxVersion, NEW found \in Discoveries[c][deployed]
  PROVE  /\ found \subseteq Rows /\ IsFiniteSet(found)
         /\ \A row \in found : CaseOf[row[1]] = c
<1>1. Discoveries \in [Cases -> [1..MaxVersion -> SUBSET SUBSET Rows]]
  BY InputAssumption, Zenon
<1>2. \A d \in Cases, v \in 1..MaxVersion : \A x \in Discoveries[d][v] :
        IsFiniteSet(x) /\ \A row \in x : CaseOf[row[1]] = d
  BY InputAssumption, Zenon
<1>3. Discoveries[c] \in [1..MaxVersion -> SUBSET SUBSET Rows]
  BY <1>1, Zenon
<1>4. Discoveries[c][deployed] \in SUBSET SUBSET Rows
  BY <1>3, Zenon
<1>5. found \subseteq Rows
  BY <1>4, Zenon
<1>6. QED
  BY <1>2, <1>5, Zenon

\* A transition, and the start of a reconciliation.
LEMMA RouteLeaves ==
  ASSUME TypeInv, NEW k \in Workers,
         RouteTransition(k) \/ RouteReconcile(k) \/ RouteExplain(k) \/ ExplainLoads(k)
  PROVE  Leaves(k)
<1> DEFINE r == worker[k]
<1>1. r \in WorkerRecords /\ Placed(r) /\ Found(r) /\ Loaded(r)
  BY DEF TypeInv, Held
<1>2. deployed' = deployed
  BY DEF RouteTransition, RouteReconcile, RouteExplain, ExplainLoads
<1>3. CASE Become(k, Idle)
  BY <1>2, <1>3, Ending
<1>4. CASE RouteReconcile(k) \/ RouteExplain(k) \/ ExplainLoads(k)
  BY <1>2, <1>3, <1>4, MoveLeaves DEF RouteReconcile, RouteExplain, ExplainLoads, At, Fail
<1>5. CASE RouteTransition(k) /\ ~Become(k, Idle)
  <2> DEFINE target == r.asked.target
             q == [r EXCEPT !.at = "delete_case", !.target = target]
  <2>1. worker' = [worker EXCEPT ![k] = q] /\ r.at = "route" /\ r.asked.op = "transition"
    BY <1>5 DEF RouteTransition, Become, At
  <2>2. target \in States \union {NoCase}
    BY <1>1, <2>1 DEF Placed, AskedRecords
  <2> HIDE DEF target
  <2>3. /\ q \in WorkerRecords /\ q.at = "delete_case" /\ q.phase = r.phase
        /\ q.left = r.left /\ q.asked = r.asked /\ q.found = r.found /\ q.loaded = r.loaded
    BY <1>1, <2>2 DEF WorkerRecords, Labels
  <2> HIDE DEF q
  <2>4. Held(q)
    BY <1>1, <2>1, <2>3 DEF Held, Placed, Found, Loaded, OnlyRebuilding, Building, Retelling,
                            Reconciling, InHand, Explaining, Marking
  <2>5. QED
    BY <2>1, <2>4 DEF Leaves
<1>6. QED
  BY <1>3, <1>4, <1>5

\* What a reconciliation reads before it writes is typed.
LEMMA ReconcileLoadsLeaves == ASSUME TypeInv, NEW k \in Workers, ReconcileLoads(k) PROVE Leaves(k)
<1> DEFINE r == worker[k]
<1>1. r \in WorkerRecords /\ Placed(r) /\ Found(r) /\ Loaded(r)
  BY DEF TypeInv, Held
<1>2. deployed' = deployed /\ r.at = "reconcile_loads" /\ deployed \in 1..MaxVersion
  BY DEF ReconcileLoads, At, TypeInv, ExplanationsTypeOK
<1>3. CASE cases[CaseIn(k)] = NoCase
  BY <1>2, <1>3, Ending DEF ReconcileLoads, Fail
<1>4. CASE cases[CaseIn(k)] # NoCase
  <2> DEFINE target == IF cases[CaseIn(k)] \in RECONCILE_ALLOWED_STATES
                       THEN "worksheet" ELSE NoCase
             q(found) == [r EXCEPT !.at = "old_ids", !.table = "findings", !.found = found,
                                   !.target = target]
  <2>1. \E found \in Discoveries[CaseIn(k)][deployed] : worker' = [worker EXCEPT ![k] = q(found)]
    BY <1>4 DEF ReconcileLoads, Become
  <2>2. PICK found \in Discoveries[CaseIn(k)][deployed] : worker' = [worker EXCEPT ![k] = q(found)]
    BY <2>1
  <2>3. CaseIn(k) = CaseOfRequest(r) /\ CaseIn(k) \in Cases
    BY <1>1, <1>2, CaseInHand DEF CaseIn, CaseOfRequest, Marking
  <2>4. found \subseteq Rows /\ IsFiniteSet(found)
    BY <1>2, <2>3, FoundIsOfTheCase
  <2>5. target \in States \union {NoCase}
    BY DEF States
  <2> HIDE DEF target
  <2> DEFINE s == q(found)
  <2>6. /\ s \in WorkerRecords /\ s.at = "old_ids" /\ s.phase = r.phase /\ s.left = r.left
        /\ s.asked = r.asked /\ s.found = found /\ s.loaded = r.loaded
    BY <1>1, <2>4, <2>5 DEF WorkerRecords, Labels
  <2> HIDE DEF q
  <2>7. Placed(s) /\ Loaded(s)
    BY <1>1, <1>2, <2>6 DEF Placed, Loaded, OnlyRebuilding, Building, Retelling,
                            Reconciling, InHand, Explaining, Marking
  <2>8. Found(s)
    BY <2>3, <2>4, <2>6 DEF Found, Reconciling, CaseOfRequest
  <2>9. QED
    BY <2>2, <2>6, <2>7, <2>8 DEF Leaves, Held
<1>5. QED
  BY <1>3, <1>4

\* The old ids are gone that were not found again.
LEMMA OldIdsLeaves == ASSUME TypeInv, NEW k \in Workers, OldIds(k) PROVE Leaves(k)
<1> DEFINE r == worker[k]
           new == {row \in r.found : row[1] \in IdsFor(k)}
           old == OfCase(TableOf(k), CaseIn(k))
           gone == IdsOf(old) \ IdsOf(new)
           q == [r EXCEPT !.at = "delete_rows", !.rows = new, !.gone = gone]
<1>1. r \in WorkerRecords /\ Placed(r) /\ Found(r) /\ Loaded(r)
  BY DEF TypeInv, Held
<1>2. r.at = "old_ids" /\ worker' = [worker EXCEPT ![k] = q]
  BY DEF OldIds, At, Become
<1>3. CaseIn(k) = CaseOfRequest(r) /\ IdsFor(k) = IdsOfTable(r)
  BY DEF CaseIn, CaseOfRequest, IdsFor, IdsOfTable
<1>4. new \subseteq Rows /\ new = {row \in r.found : row[1] \in IdsOfTable(r)}
  BY <1>1, <1>3 DEF WorkerRecords
<1>5. /\ \A row \in old : row \in Rows /\ CaseOf[row[1]] = CaseOfRequest(r)
      /\ \A row \in old : row[1] \in IdsOfTable(r)
  BY <1>3 DEF TypeInv, ExplanationsTypeOK, TableOf, OfCase, IdsOfTable, Rows, Ids
<1>6. gone \subseteq Ids
  BY <1>5 DEF IdsOf, Rows
<1>7. ASSUME NEW id \in gone
      PROVE  id \in IdsOfTable(r) /\ CaseOf[id] = CaseOfRequest(r) /\ id \notin IdsOf(r.found)
  <2>1. PICK row \in old : id = row[1]
    BY <1>7 DEF IdsOf
  <2>2. id \in IdsOfTable(r) /\ CaseOf[id] = CaseOfRequest(r)
    BY <1>5, <2>1
  <2>3. ASSUME id \in IdsOf(r.found) PROVE FALSE
    <3>1. PICK other \in r.found : id = other[1]
      BY <2>3 DEF IdsOf
    <3>2. other \in new
      BY <1>4, <2>2, <3>1
    <3>3. QED
      BY <1>7, <3>1, <3>2 DEF IdsOf
  <2>4. QED
    BY <2>2, <2>3
<1> HIDE DEF new, gone
<1>8. /\ q \in WorkerRecords /\ q.at = "delete_rows" /\ q.phase = r.phase /\ q.left = r.left
      /\ q.asked = r.asked /\ q.found = r.found /\ q.loaded = r.loaded
      /\ q.table = r.table /\ q.rows = new /\ q.gone = gone
  BY <1>1, <1>4, <1>6 DEF WorkerRecords, Labels
<1> HIDE DEF q
<1>9. Placed(q) /\ Loaded(q)
  BY <1>1, <1>2, <1>8 DEF Placed, Loaded, OnlyRebuilding, Building, Retelling,
                          Reconciling, InHand, Explaining, Marking
<1>10. CaseOfRequest(q) = CaseOfRequest(r) /\ IdsOfTable(q) = IdsOfTable(r)
  BY <1>8 DEF CaseOfRequest, IdsOfTable
<1>11. Found(q)
  BY <1>1, <1>2, <1>4, <1>7, <1>8, <1>10 DEF Found, Reconciling
<1>12. QED
  BY <1>2, <1>8, <1>9, <1>11 DEF Leaves, Held

\* The statements of a reconciliation leave the worker typed.
LEMMA TableStepsLeave ==
  ASSUME TypeInv, NEW k \in Workers, DeleteRows(k) \/ InsertRow(k) \/ DropExplanations(k)
  PROVE  Leaves(k)
<1> DEFINE r == worker[k]
<1>1. r \in WorkerRecords /\ Placed(r) /\ Found(r) /\ Loaded(r)
  BY DEF TypeInv, Held
<1>2. deployed' = deployed
  BY DEF DeleteRows, InsertRow, DropExplanations
<1>3. CASE DeleteRows(k)
  BY <1>2, <1>3, MoveLeaves DEF DeleteRows, At
<1>4. CASE InsertRow(k)
  <2>1. r.at = "insert_rows"
    BY <1>4 DEF InsertRow, At
  <2>2. CASE r.rows = {}
    BY <1>2, <1>4, <2>1, <2>2, MoveLeaves DEF InsertRow
  <2>3. CASE Become(k, Idle)
    BY <1>2, <2>3, Ending
  <2>4. CASE r.rows # {} /\ ~Become(k, Idle)
    <3> DEFINE row == CHOOSE x \in r.rows : TRUE
               rest == r.rows \ {row}
               q == [r EXCEPT !.rows = rest]
    <3>1. worker' = [worker EXCEPT ![k] = q]
      BY <1>4, <2>4 DEF InsertRow, Become, Fail
    <3>2. rest \subseteq r.rows /\ rest \subseteq Rows
      BY <1>1 DEF WorkerRecords
    <3> HIDE DEF rest
    <3>3. /\ q \in WorkerRecords /\ q.at = "insert_rows" /\ q.phase = r.phase /\ q.left = r.left
          /\ q.asked = r.asked /\ q.found = r.found /\ q.loaded = r.loaded
          /\ q.table = r.table /\ q.rows = rest /\ q.gone = r.gone
      BY <1>1, <2>1, <3>2 DEF WorkerRecords
    <3> HIDE DEF q
    <3>4. Placed(q) /\ Loaded(q)
      BY <1>1, <2>1, <3>3 DEF Placed, Loaded, InHand, Explaining
    <3>5. CaseOfRequest(q) = CaseOfRequest(r) /\ IdsOfTable(q) = IdsOfTable(r)
      BY <3>3 DEF CaseOfRequest, IdsOfTable
    <3>6. Found(q)
      BY <1>1, <2>1, <3>2, <3>3, <3>5 DEF Found, Reconciling
    <3>7. QED
      BY <3>1, <3>3, <3>4, <3>6 DEF Leaves, Held
  <2>5. QED
    BY <2>2, <2>3, <2>4
<1>5. CASE DropExplanations(k)
  <2>1. r.at = "drop_explanations"
    BY <1>5 DEF DropExplanations, At
  <2>2. CASE r.table = "findings"
    <3> DEFINE q == [r EXCEPT !.at = "old_ids", !.table = "ties", !.gone = {}]
    <3>1. worker' = [worker EXCEPT ![k] = q]
      BY <1>5, <2>2 DEF DropExplanations, Become
    <3>2. /\ q \in WorkerRecords /\ q.at = "old_ids" /\ q.phase = r.phase /\ q.left = r.left
          /\ q.asked = r.asked /\ q.found = r.found /\ q.loaded = r.loaded
      BY <1>1 DEF WorkerRecords, Labels
    <3> HIDE DEF q
    <3>3. Placed(q) /\ Loaded(q)
      BY <1>1, <2>1, <3>2 DEF Placed, Loaded, OnlyRebuilding, Building, Retelling,
                              Reconciling, InHand, Explaining, Marking
    <3>4. Found(q)
      BY <1>1, <2>1, <3>2 DEF Found, Reconciling, CaseOfRequest
    <3>5. QED
      BY <3>1, <3>2, <3>3, <3>4 DEF Leaves, Held
  <2>3. CASE r.table # "findings"
    BY <1>2, <1>5, <2>1, <2>3, MoveLeaves, AfterReconcileLeaves DEF DropExplanations
  <2>4. QED
    BY <2>2, <2>3
<1>6. QED
  BY <1>3, <1>4, <1>5

\* A finite set of rows has finitely many ids.
LEMMA IdsAreFinite ==
  ASSUME NEW rows, IsFiniteSet(rows)
  PROVE  IsFiniteSet(IdsOf(rows))
<1> DEFINE f == [row \in rows |-> row[1]]
<1>1. f \in Surjection(rows, IdsOf(rows))
  BY DEF Surjection, IdsOf
<1>2. QED
  BY <1>1, FS_Surjection

\* The rows of a case, one table after the other.
LEMMA LoadLeaves == ASSUME TypeInv, NEW k \in Workers, LoadFindings(k) \/ LoadTies(k) PROVE Leaves(k)
<1> DEFINE r == worker[k]
<1>1. r \in WorkerRecords /\ Placed(r) /\ Found(r) /\ Loaded(r)
  BY DEF TypeInv, Held
<1>2. r.at \in {"load_findings", "load_ties"}
  BY DEF LoadFindings, LoadTies, At
<1>3. CaseIn(k) \in Cases
  BY <1>1, <1>2, CaseInHand DEF CaseIn, CaseOfRequest, Marking
<1>4. /\ OfCase(findings, CaseIn(k)) \subseteq Rows /\ OfCase(ties, CaseIn(k)) \subseteq Rows
      /\ IsFiniteSet(OfCase(findings, CaseIn(k))) /\ IsFiniteSet(OfCase(ties, CaseIn(k)))
  BY <1>3 DEF TypeInv, ExplanationsTypeOK, FiniteCases, OfCase, Rows, Ids
<1>5. CASE LoadFindings(k)
  <2> DEFINE loaded == OfCase(findings, CaseIn(k))
             q == [r EXCEPT !.at = "load_ties", !.loaded = loaded]
  <2>1. worker' = [worker EXCEPT ![k] = q] /\ r.at = "load_findings"
    BY <1>5 DEF LoadFindings, Become, At
  <2>2. loaded \subseteq Rows /\ IsFiniteSet(loaded)
    BY <1>4
  <2> HIDE DEF loaded
  <2>3. /\ q \in WorkerRecords /\ q.at = "load_ties" /\ q.phase = r.phase /\ q.left = r.left
        /\ q.asked = r.asked /\ q.found = r.found /\ q.loaded = loaded
    BY <1>1, <2>2 DEF WorkerRecords, Labels
  <2> HIDE DEF q
  <2>4. Held(q)
    BY <1>1, <2>1, <2>2, <2>3 DEF Held, Placed, Found, Loaded, OnlyRebuilding, Building, Retelling,
                                  Reconciling, InHand, Explaining, Marking
  <2>5. QED
    BY <2>1, <2>4 DEF Leaves
<1>6. CASE LoadTies(k)
  <2> DEFINE loaded == r.loaded \union OfCase(ties, CaseIn(k))
             todo == IF r.phase = "explain" THEN SetToSeq(IdsOf(loaded))
                     ELSE IF r.asked.id \in IdsOf(loaded) THEN <<r.asked.id>> ELSE <<>>
             q == [r EXCEPT !.at = "next_observation", !.loaded = loaded, !.todo = todo]
  <2>1. worker' = [worker EXCEPT ![k] = q] /\ r.at = "load_ties"
    BY <1>6 DEF LoadTies, Become, At
  <2>2. loaded \subseteq Rows /\ IsFiniteSet(loaded)
    BY <1>1, <1>4, FS_Union DEF Loaded, WorkerRecords
  <2> HIDE DEF loaded
  <2>3. IdsOf(loaded) \subseteq Ids
    BY <2>2 DEF IdsOf, Rows
  <2>4. IsFiniteSet(IdsOf(loaded))
    BY <2>2, IdsAreFinite
  <2>5. todo \in Seq(Ids) /\ ToSet(todo) \subseteq IdsOf(loaded)
    <3>1. CASE r.phase = "explain"
      BY <2>3, <2>4, <3>1, SetAsSequence
    <3>2. CASE r.phase # "explain" /\ r.asked.id \in IdsOf(loaded)
      BY <2>3, <3>2 DEF ToSet
    <3>3. CASE r.phase # "explain" /\ r.asked.id \notin IdsOf(loaded)
      BY <3>3 DEF ToSet
    <3>4. QED
      BY <3>1, <3>2, <3>3
  <2> HIDE DEF todo
  <2>6. /\ q \in WorkerRecords /\ q.at = "next_observation" /\ q.phase = r.phase
        /\ q.left = r.left /\ q.asked = r.asked /\ q.found = r.found /\ q.loaded = loaded
        /\ q.todo = todo
    BY <1>1, <2>2, <2>5 DEF WorkerRecords, Labels
  <2> HIDE DEF q
  <2>7. Held(q)
    BY <1>1, <2>1, <2>2, <2>5, <2>6
       DEF Held, Placed, Found, Loaded, OnlyRebuilding, Building, Retelling,
           Reconciling, InHand, Explaining, Marking
  <2>8. QED
    BY <2>1, <2>7 DEF Leaves
<1>7. QED
  BY <1>5, <1>6

\* What is hashed is a document.
LEMMA DocumentsAreTyped ==
  ASSUME NEW loaded, loaded \subseteq Rows, IsFiniteSet(loaded), NEW id \in IdsOf(loaded)
  PROVE  DocumentOf(id, loaded) \in Documents
<1> DEFINE others(text) == {row \in loaded : row[1] # id /\ row[2] = text}
<1>1. (CHOOSE row \in loaded : row[1] = id)[2] \in Recitations
  <2>1. \E row \in loaded : row[1] = id
    BY DEF IdsOf
  <2>2. (CHOOSE row \in loaded : row[1] = id) \in loaded
    BY <2>1
  <2>3. QED
    BY <2>2 DEF Rows
<1>2. ASSUME NEW text \in Recitations PROVE Cardinality(others(text)) \in Nat
  <2>1. others(text) \subseteq loaded
    OBVIOUS
  <2>2. IsFiniteSet(others(text))
    BY <2>1, FS_Subset
  <2>3. QED
    BY <2>2, FS_CardinalityType
<1>3. [text \in Recitations |-> Cardinality(others(text))] \in [Recitations -> Nat]
  BY <1>2
<1>4. QED
  BY <1>1, <1>3 DEF DocumentOf, Documents

\* What a request has in hand is among what it loaded.
LEMMA ObservationInHand ==
  ASSUME NEW k \in Workers, TypeInv, Sound(worker[k]), worker[k].at \in Explaining
  PROVE  /\ worker[k].todo \in Seq(Ids) /\ worker[k].todo # <<>>
         /\ Observation(k) \in Ids /\ Observation(k) \in IdsOf(worker[k].loaded)
         /\ HashInHand(k) \in Documents
<1> DEFINE r == worker[k]
<1>1. r \in WorkerRecords /\ Loaded(r)
  BY DEF TypeInv, Held
<1>2. r.todo \in Seq(Ids) /\ r.todo # <<>> /\ r.loaded \subseteq Rows
  BY <1>1 DEF Sound, WorkerRecords
<1>3. Head(r.todo) \in Ids /\ Head(r.todo) \in ToSet(r.todo)
  BY <1>2, HeadAndTail
<1>4. Observation(k) \in IdsOf(r.loaded) /\ IsFiniteSet(r.loaded)
  BY <1>1, <1>3 DEF Loaded, InHand, Observation
<1>5. HashInHand(k) \in Documents
  BY <1>2, <1>4, DocumentsAreTyped DEF HashInHand, EvidenceHash
<1>6. QED
  BY <1>2, <1>3, <1>4, <1>5 DEF Observation

\* Going on to the next observation leaves the worker typed.
LEMMA NextObservationLeaves == ASSUME TypeInv, NEW k \in Workers, NextObservation(k) PROVE Leaves(k)
<1> DEFINE r == worker[k]
<1>1. r \in WorkerRecords /\ Placed(r) /\ Found(r) /\ Loaded(r)
  BY DEF TypeInv, Held
<1>2. deployed' = deployed /\ r.at = "next_observation"
  BY DEF NextObservation, At
<1>3. CASE r.todo # <<>>
  BY <1>2, <1>3, MoveLeaves DEF NextObservation
<1>4. CASE r.todo = <<>> /\ r.phase = "route"
  BY <1>2, <1>4, Ending DEF NextObservation
<1>5. CASE r.todo = <<>> /\ r.phase # "route"
  <2>1. r.left \in Seq(ToSet(DemoCases)) /\ r.left # <<>> /\ IsInjective(r.left)
        /\ r.phase = "explain"
    BY <1>1, <1>2, <1>5 DEF WorkerRecords, Placed, Marking, Building, Reconciling
  <2> DEFINE rest == Tail(r.left)
  <2>2. rest \in Seq(ToSet(DemoCases)) /\ IsInjective(rest)
    BY <2>1, HeadAndTail
  <2>3. IsFiniteSet({})
    BY FS_EmptySet
  <2>4. CASE rest # <<>>
    <3> DEFINE q == [r EXCEPT !.left = rest, !.at = "explain_loads", !.loaded = {}]
    <3>1. worker' = [worker EXCEPT ![k] = q]
      BY <1>5, <2>4 DEF NextObservation, Become
    <3> HIDE DEF rest
    <3>2. /\ q \in WorkerRecords /\ q.at = "explain_loads" /\ q.phase = r.phase /\ q.left = rest
          /\ q.asked = r.asked /\ q.found = r.found /\ q.loaded = {}
      BY <1>1, <2>2 DEF WorkerRecords, Labels
    <3> HIDE DEF q
    <3>3. Held(q)
      BY <1>1, <1>2, <2>1, <2>2, <2>3, <2>4, <3>2
         DEF Held, Placed, Found, Loaded, Retelling, Reconciling, InHand, Explaining, Marking
    <3>4. QED
      BY <3>1, <3>3 DEF Leaves
  <2>5. CASE rest = <<>>
    <3> DEFINE none == <<>>
               q == [r EXCEPT !.at = "delete_marker", !.left = none, !.loaded = {}]
    <3>1. worker' = [worker EXCEPT ![k] = q]
      BY <1>5, <2>5 DEF NextObservation, Become
    <3>2. none \in Seq(ToSet(DemoCases)) /\ none = <<>> /\ Len(none) = 0
      OBVIOUS
    <3> HIDE DEF none
    <3>3. DOMAIN none = {}
      BY <3>2
    <3>4. IsInjective(none)
      BY <3>3 DEF IsInjective
    <3>5. /\ q \in WorkerRecords /\ q.at = "delete_marker" /\ q.phase = r.phase /\ q.left = none
          /\ q.asked = r.asked /\ q.found = r.found /\ q.loaded = {}
      BY <1>1, <3>2 DEF WorkerRecords, Labels
    <3> HIDE DEF q
    <3>6. Held(q)
      BY <1>1, <1>2, <2>1, <2>3, <3>2, <3>4, <3>5
         DEF Held, Placed, Found, Loaded, Retelling, Reconciling, InHand, Explaining, Marking
    <3>7. QED
      BY <3>1, <3>6 DEF Leaves
  <2>6. QED
    BY <2>4, <2>5
<1>6. QED
  BY <1>3, <1>4, <1>5

\* What explain returns is a row of explanations.
LEMMA ExplainedLeaves ==
  ASSUME TypeInv, NEW k \in Workers, Sound(worker[k]), worker[k].at \in Explaining,
         deployed' = deployed, NEW row \in ExplanationRows, Explained(k, row)
  PROVE  Leaves(k)
<1> DEFINE r == worker[k]
<1>1. r \in WorkerRecords /\ Placed(r) /\ Found(r) /\ Loaded(r)
  BY DEF TypeInv, Held
<1>2. NoSentence \in ResponseRecords
  BY DEF NoSentence, ResponseRecords
<1>3. CASE r.phase = "route"
  <2> DEFINE q == [r EXCEPT !.at = "answer", !.answer = row, !.attempt = 0,
                            !.sentence = NoSentence]
  <2>1. worker' = [worker EXCEPT ![k] = q]
    BY <1>3 DEF Explained, Become
  <2>2. /\ q \in WorkerRecords /\ q.at = "answer" /\ q.phase = "route" /\ q.left = r.left
        /\ q.asked = r.asked /\ q.found = r.found /\ q.loaded = r.loaded
    BY <1>1, <1>2, <1>3 DEF WorkerRecords, Labels
  <2> HIDE DEF q
  <2>3. Held(q)
    BY <1>1, <2>2
       DEF Held, Placed, Found, Loaded, OnlyRebuilding, Reconciling, InHand, Explaining, Marking
  <2>4. QED
    BY <2>1, <2>3 DEF Leaves
<1>4. CASE r.phase # "route"
  <2> DEFINE rest == Tail(r.todo)
             q == [r EXCEPT !.at = "next_observation", !.todo = rest, !.attempt = 0,
                            !.sentence = NoSentence]
  <2>1. worker' = [worker EXCEPT ![k] = q]
    BY <1>4 DEF Explained, Become
  <2>2. r.todo \in Seq(Ids) /\ r.todo # <<>>
    BY ObservationInHand
  <2>3. rest \in Seq(Ids) /\ ToSet(rest) \subseteq ToSet(r.todo)
    BY <2>2, HeadAndTail
  <2> HIDE DEF rest
  <2>4. /\ q \in WorkerRecords /\ q.at = "next_observation" /\ q.phase = r.phase
        /\ q.left = r.left /\ q.asked = r.asked /\ q.found = r.found /\ q.loaded = r.loaded
        /\ q.todo = rest
    BY <1>1, <1>2, <2>3 DEF WorkerRecords, Labels
  <2> HIDE DEF q
  <2>5. Held(q)
    BY <1>1, <1>4, <2>3, <2>4
       DEF Held, Placed, Found, Loaded, Retelling, Building, Reconciling, InHand, Explaining, Marking
  <2>6. QED
    BY <2>1, <2>5 DEF Leaves
<1>5. QED
  BY <1>3, <1>4

\* Loading, drafting, storing and answering an explanation leave the worker typed.
LEMMA ExplainLeaves ==
  ASSUME TypeInv, NEW k \in Workers, Sound(worker[k]),
         \/ LoadCached(k) \/ Generate(k) \/ GenerateFails(k)
         \/ DeleteExplanation(k) \/ InsertExplanation(k) \/ Answer(k)
  PROVE  Leaves(k)
<1> DEFINE r == worker[k]
<1>1. r \in WorkerRecords /\ Placed(r) /\ Found(r) /\ Loaded(r)
  BY DEF TypeInv, Held
<1>2. deployed' = deployed
  BY DEF LoadCached, Generate, GenerateFails, DeleteExplanation, InsertExplanation, Answer
<1>3. CASE Become(k, Idle)
  BY <1>2, <1>3, Ending
<1>4. CASE LoadCached(k) /\ ~Become(k, Idle)
  <2> DEFINE cached == Cached(Observation(k), HashInHand(k))
             row == CHOOSE x \in cached : TRUE
  <2>1. r.at = "load_cached"
    BY <1>4 DEF LoadCached, At
  <2>2. CASE cached # {}
    <3>1. row \in cached
      BY <2>2
    <3>2. row \in ExplanationRows
      BY <3>1 DEF Cached, TypeInv, ExplanationsTypeOK
    <3>3. Explained(k, row)
      BY <1>4, <2>2 DEF LoadCached
    <3> HIDE DEF row
    <3>4. QED
      BY <1>2, <2>1, <3>2, <3>3, ExplainedLeaves DEF Explaining
  <2>3. CASE cached = {}
    BY <1>2, <1>4, <2>1, <2>3, MoveLeaves DEF LoadCached
  <2>4. QED
    BY <2>2, <2>3
<1>5. CASE Generate(k)
  <2>1. r.at = "generate"
    BY <1>5 DEF Generate, At
  <2>2. PICK response \in Responses \union {NoSentence} :
          \/ Become(k, [r EXCEPT !.at = "delete_explanation", !.sentence = response])
          \/ Become(k, [r EXCEPT !.attempt = r.attempt + 1])
          \/ GoTo(k, "delete_explanation")
    BY <1>5 DEF Generate, Become
  <2>3. response \in ResponseRecords
    <3>1. Responses \subseteq ResponseRecords
      BY InputAssumption, Zenon
    <3>2. NoSentence \in ResponseRecords
      BY DEF NoSentence, ResponseRecords
    <3>3. QED
      BY <3>1, <3>2
  <2>4. CASE Become(k, [r EXCEPT !.at = "delete_explanation", !.sentence = response])
    <3> DEFINE q == [r EXCEPT !.at = "delete_explanation", !.sentence = response]
    <3>1. worker' = [worker EXCEPT ![k] = q]
      BY <2>4 DEF Become
    <3>2. /\ q \in WorkerRecords /\ q.at = "delete_explanation" /\ q.phase = r.phase
          /\ q.left = r.left /\ q.asked = r.asked /\ q.found = r.found /\ q.loaded = r.loaded
          /\ q.todo = r.todo
      BY <1>1, <2>3 DEF WorkerRecords, Labels
    <3> HIDE DEF q
    <3>3. Held(q)
      BY <1>1, <2>1, <3>2
         DEF Held, Placed, Found, Loaded, OnlyRebuilding, Retelling, Building, Reconciling, InHand,
             Explaining, Marking
    <3>4. QED
      BY <3>1, <3>3 DEF Leaves
  <2>5. CASE Become(k, [r EXCEPT !.attempt = r.attempt + 1])
    <3> DEFINE attempt == r.attempt + 1
               q == [r EXCEPT !.attempt = attempt]
    <3>1. worker' = [worker EXCEPT ![k] = q]
      BY <2>5 DEF Become
    <3>2. attempt \in Nat
      BY <1>1 DEF WorkerRecords
    <3> HIDE DEF attempt
    <3>3. /\ q \in WorkerRecords /\ q.at = "generate" /\ q.phase = r.phase
          /\ q.left = r.left /\ q.asked = r.asked /\ q.found = r.found /\ q.loaded = r.loaded
          /\ q.todo = r.todo
      BY <1>1, <2>1, <3>2 DEF WorkerRecords
    <3> HIDE DEF q
    <3>4. Held(q)
      BY <1>1, <2>1, <3>3
         DEF Held, Placed, Found, Loaded, OnlyRebuilding, Retelling, Building, Reconciling, InHand,
             Explaining, Marking
    <3>5. QED
      BY <3>1, <3>4 DEF Leaves
  <2>6. CASE GoTo(k, "delete_explanation")
    BY <1>2, <2>1, <2>6, MoveLeaves
  <2>7. QED
    BY <2>2, <2>4, <2>5, <2>6
<1>6. CASE GenerateFails(k) \/ Answer(k)
  BY <1>3, <1>6 DEF GenerateFails, Answer, Fail, Finish
<1>7. CASE DeleteExplanation(k)
  BY <1>2, <1>7, MoveLeaves DEF DeleteExplanation, At
<1>8. CASE InsertExplanation(k) /\ ~Become(k, Idle)
  <2> DEFINE row == [of |-> Observation(k), hash |-> HashInHand(k), sentence |-> r.sentence,
                     about |-> DocumentOf(Observation(k), r.loaded)]
  <2>1. r.at = "insert_explanation" /\ Explained(k, row)
    BY <1>8 DEF InsertExplanation, At, Fail
  <2>2. row \in ExplanationRows
    BY <1>1, <2>1, ObservationInHand
       DEF ExplanationRows, Explaining, HashInHand, EvidenceHash, WorkerRecords
  <2> HIDE DEF row
  <2>3. QED
    BY <1>2, <2>1, <2>2, ExplainedLeaves DEF Explaining
<1>9. QED
  BY <1>3, <1>4, <1>5, <1>6, <1>7, <1>8

-----------------------------------------------------------------------------
(* Types of the tables. *)

\* What the steps of a request leave in the tables.
TablesOK ==
  /\ cases \in [Cases -> States \union {NoCase}]
  /\ findings \subseteq FindingIds \X Recitations
  /\ ties \subseteq TieIds \X Recitations
  /\ explanations \subseteq ExplanationRows
  /\ marker \in 0..MaxVersion
  /\ spoiled \in BOOLEAN
  /\ FiniteCases

\* The rows of a table that is written: some of it, and one row at most.
LEMMA TableWritten ==
  ASSUME TypeInv, NEW k \in Workers, NEW rows, WriteTable(k, rows),
         \/ rows \subseteq TableOf(k)
         \/ \E row \in IdsFor(k) \X Recitations : rows = TableOf(k) \union {row}
  PROVE  /\ findings' \subseteq FindingIds \X Recitations
         /\ ties' \subseteq TieIds \X Recitations
         /\ FiniteCases'
<1>1. /\ findings \subseteq FindingIds \X Recitations /\ ties \subseteq TieIds \X Recitations
      /\ FiniteCases
  BY DEF TypeInv, ExplanationsTypeOK
<1>2. ASSUME NEW c \in Cases PROVE IsFiniteSet(OfCase(rows, c))
  <2>1. IsFiniteSet(OfCase(TableOf(k), c))
    BY <1>1 DEF FiniteCases, TableOf
  <2>2. PICK row : rows \subseteq TableOf(k) \union {row}
    OBVIOUS
  <2>3. IsFiniteSet(OfCase(TableOf(k), c) \union {row})
    BY <2>1, FS_AddElement
  <2>4. OfCase(rows, c) \subseteq OfCase(TableOf(k), c) \union {row}
    BY <2>2 DEF OfCase
  <2>5. QED
    BY <2>3, <2>4, FS_Subset
<1>3. CASE worker[k].table = "findings"
  <2>1. findings' = rows /\ ties' = ties /\ TableOf(k) = findings /\ IdsFor(k) = FindingIds
    BY <1>3 DEF WriteTable, TableOf, IdsFor
  <2>2. QED
    BY <1>1, <1>2, <2>1 DEF FiniteCases, OfCase
<1>4. CASE worker[k].table # "findings"
  <2>1. ties' = rows /\ findings' = findings /\ TableOf(k) = ties /\ IdsFor(k) = TieIds
    BY <1>4 DEF WriteTable, TableOf, IdsFor
  <2>2. QED
    BY <1>1, <1>2, <2>1 DEF FiniteCases, OfCase
<1>5. QED
  BY <1>3, <1>4

\* No step of a request puts anything of another type into a table.
LEMMA TablesStayTyped ==
  ASSUME TypeInv, NEW k \in Workers, Sound(worker[k]), Step(k)
  PROVE  TablesOK' /\ UNCHANGED <<deployed, bounds, raced>>
<1> DEFINE r == worker[k]
<1>1. TablesOK
  BY DEF TablesOK, TypeInv, ExplanationsTypeOK
<1>2. r \in WorkerRecords /\ Placed(r) /\ Found(r) /\ Loaded(r)
  BY DEF TypeInv, Held
<1>3. deployed \in 1..MaxVersion
  BY DEF TypeInv, ExplanationsTypeOK
<1>rest. ASSUME UNCHANGED <<cases, findings, ties, explanations, marker>>, spoiled' \in BOOLEAN
         PROVE  TablesOK'
  BY <1>1, <1>rest DEF TablesOK, FiniteCases, OfCase
<1>fail. ASSUME Fail(k) PROVE spoiled' \in BOOLEAN /\ raced' = raced
  BY <1>1, <1>fail DEF Fail, TablesOK
<1>4. CASE \/ LookForCase(k) \/ LookForMarker(k) \/ RouteTransition(k) \/ RouteReconcile(k)
           \/ OldIds(k) \/ RouteExplain(k) \/ LoadFindings(k) \/ LoadTies(k)
           \/ NextObservation(k) \/ LoadCached(k) \/ Generate(k) \/ Answer(k)
  <2>1. UNCHANGED <<tables, deployed, bounds, history>>
    BY <1>4 DEF LookForCase, LookForMarker, RouteTransition, RouteReconcile, OldIds, RouteExplain,
                LoadFindings, LoadTies, NextObservation, LoadCached, Generate, Answer, Finish
  <2>2. QED
    BY <1>1, <1>rest, <2>1 DEF tables, history, TablesOK
<1>5. CASE SaveCollides(k) \/ ReconcileLoads(k) \/ ExplainLoads(k) \/ GenerateFails(k)
  <2>1. UNCHANGED <<tables, deployed, bounds>> /\ (Fail(k) \/ UNCHANGED history)
    BY <1>5 DEF SaveCollides, ReconcileLoads, ExplainLoads, GenerateFails
  <2>2. spoiled' \in BOOLEAN /\ raced' = raced
    BY <1>1, <1>fail, <2>1 DEF history, TablesOK
  <2>3. QED
    BY <1>rest, <2>1, <2>2 DEF tables
<1>6. CASE WipeFindings(k) \/ WipeTies(k) \/ WipeExplanations(k)
  <2>1. /\ findings' \subseteq findings /\ ties' \subseteq ties /\ explanations' \subseteq explanations
        /\ UNCHANGED <<cases, marker, deployed, bounds, history>>
    BY <1>6 DEF WipeFindings, WipeTies, WipeExplanations
  <2>2. ASSUME NEW c \in Cases PROVE IsFiniteSet(OfCase(findings', c)) /\ IsFiniteSet(OfCase(ties', c))
    <3>1. OfCase(findings', c) \subseteq OfCase(findings, c) /\ OfCase(ties', c) \subseteq OfCase(ties, c)
      BY <2>1 DEF OfCase
    <3>2. QED
      BY <1>1, <3>1, FS_Subset DEF TablesOK, FiniteCases
  <2>3. FiniteCases'
    BY <2>2 DEF FiniteCases, OfCase
  <2>4. QED
    BY <1>1, <2>1, <2>3 DEF TablesOK, history
<1>7. CASE DeleteCase(k) \/ InsertCase(k)
  <2>1. r.target \in States \union {NoCase}
    BY <1>2 DEF WorkerRecords
  <2>2. /\ UNCHANGED <<findings, ties, explanations, marker, deployed, bounds>>
        /\ Fail(k) \/ UNCHANGED history
        /\ \E value \in States \union {NoCase} :
             cases' = cases \/ cases' = [cases EXCEPT ![CaseIn(k)] = value]
    BY <1>7, <2>1 DEF DeleteCase, InsertCase
  <2>3. cases' \in [Cases -> States \union {NoCase}]
    BY <1>1, <2>2 DEF TablesOK
  <2>4. spoiled' \in BOOLEAN /\ raced' = raced
    BY <1>1, <1>fail, <2>2 DEF history, TablesOK
  <2>5. QED
    BY <1>1, <2>2, <2>3, <2>4 DEF TablesOK, FiniteCases, OfCase
<1>8. CASE DeleteMarker(k) \/ InsertMarker(k)
  <2>1. /\ UNCHANGED <<cases, findings, ties, explanations, deployed, bounds>>
        /\ marker' \in {0, deployed, marker}
    BY <1>8 DEF DeleteMarker, InsertMarker
  <2>2. spoiled' \in BOOLEAN /\ raced' = raced
    <3>1. \/ Fail(k) \/ UNCHANGED history
          \/ spoiled' = (spoiled /\ ~worker[k].alone) /\ UNCHANGED raced
      BY <1>8 DEF DeleteMarker, InsertMarker
    <3>2. QED
      BY <1>1, <1>fail, <3>1 DEF history, TablesOK
  <2>3. marker' \in 0..MaxVersion
    <3>1. MaxVersion \in Nat
      BY InputAssumption, Zenon
    <3>2. QED
      BY <1>1, <1>3, <2>1, <3>1 DEF TablesOK
  <2>4. QED
    BY <1>1, <2>1, <2>2, <2>3 DEF TablesOK, FiniteCases, OfCase
<1>9. CASE DeleteRows(k)
  <2>1. /\ WriteTable(k, TableOf(k) \ OfCase(TableOf(k), CaseIn(k)))
        /\ UNCHANGED <<cases, explanations, marker, deployed, bounds, history>>
    BY <1>9 DEF DeleteRows
  <2>2. QED
    BY <1>1, <2>1, TableWritten DEF TablesOK, history
<1>10. CASE InsertRow(k)
  <2>1. UNCHANGED <<cases, explanations, marker, deployed, bounds>>
    BY <1>10 DEF InsertRow
  <2>2. CASE UNCHANGED <<findings, ties>>
    <3>1. Fail(k) \/ UNCHANGED history
      BY <1>10 DEF InsertRow
    <3>2. spoiled' \in BOOLEAN /\ raced' = raced
      BY <1>1, <1>fail, <3>1 DEF history, TablesOK
    <3>3. QED
      BY <1>rest, <2>1, <2>2, <3>2
  <2>3. CASE ~UNCHANGED <<findings, ties>>
    <3> DEFINE row == CHOOSE x \in r.rows : TRUE
    <3>1. r.rows # {} /\ WriteTable(k, TableOf(k) \union {row}) /\ UNCHANGED history
          /\ r.at = "insert_rows"
      BY <1>10, <2>3 DEF InsertRow, At
    <3>2. row \in r.rows
      BY <3>1
    <3>3. row \in Rows /\ row[1] \in IdsFor(k)
      BY <1>2, <3>1, <3>2 DEF Found, WorkerRecords, IdsFor, IdsOfTable
    <3>4. row \in IdsFor(k) \X Recitations
      BY <3>3 DEF Rows
    <3> HIDE DEF row
    <3>5. QED
      BY <1>1, <2>1, <3>1, <3>4, TableWritten DEF TablesOK, history
  <2>4. QED
    BY <2>2, <2>3
<1>11. CASE DropExplanations(k) \/ DeleteExplanation(k)
  <2>1. /\ explanations' \subseteq explanations
        /\ UNCHANGED <<cases, findings, ties, marker, deployed, bounds, history>>
    BY <1>11 DEF DropExplanations, DeleteExplanation
  <2>2. QED
    BY <1>1, <2>1 DEF TablesOK, FiniteCases, OfCase, history
<1>12. CASE InsertExplanation(k)
  <2> DEFINE row == [of |-> Observation(k), hash |-> HashInHand(k), sentence |-> r.sentence,
                     about |-> DocumentOf(Observation(k), r.loaded)]
  <2>1. /\ explanations' \in {explanations, explanations \union {row}}
        /\ UNCHANGED <<cases, findings, ties, marker, deployed, bounds>>
        /\ Fail(k) \/ UNCHANGED history
        /\ r.at = "insert_explanation"
    BY <1>12 DEF InsertExplanation, At
  <2>2. row \in ExplanationRows
    BY <1>2, <2>1, ObservationInHand
       DEF ExplanationRows, Explaining, HashInHand, EvidenceHash, WorkerRecords
  <2>3. spoiled' \in BOOLEAN /\ raced' = raced
    BY <1>1, <1>fail, <2>1 DEF history, TablesOK
  <2> HIDE DEF row
  <2>4. QED
    BY <1>1, <2>1, <2>2, <2>3 DEF TablesOK, FiniteCases, OfCase
<1>13. QED
  BY <1>4, <1>5, <1>6, <1>7, <1>8, <1>9, <1>10, <1>11, <1>12 DEF Step

\* Every step of a request leaves a record that holds.
LEMMA StepsLeave ==
  ASSUME TypeInv, NEW k \in Workers, Sound(worker[k]), Step(k)
  PROVE  Leaves(k)
BY LookLeaves, RebuildStepsLeave, RouteLeaves, ReconcileLoadsLeaves, OldIdsLeaves, TableStepsLeave,
   LoadLeaves, NextObservationLeaves, ExplainLeaves DEF Step

\* A step of a request keeps the type invariant.
LEMMA StepKeepsTypes ==
  ASSUME TypeInv, NEW k \in Workers, Sound(worker[k]), Step(k)
  PROVE  TypeInv'
<1>1. TablesOK' /\ UNCHANGED <<deployed, bounds, raced>>
  BY TablesStayTyped
<1>2. PICK q : worker' = [worker EXCEPT ![k] = q] /\ Held(q)
  BY StepsLeave DEF Leaves
<1>3. worker \in [Workers -> WorkerRecords]
  BY DEF TypeInv, ExplanationsTypeOK
<1>4. \A j \in Workers : Held(worker'[j])
  BY <1>2, <1>3 DEF TypeInv
<1>5. \A j \in Workers : Held(worker[j])'
  BY <1>1, <1>4 DEF Held, Placed, Found, Loaded
<1>6. worker' \in [Workers -> WorkerRecords]
  BY <1>2, <1>3 DEF Held
<1>7. QED
  BY <1>1, <1>5, <1>6 DEF TypeInv, ExplanationsTypeOK, TablesOK, bounds

\* Every fixture the process may start on is typed.
LEMMA InitIsTyped == Init => TypeInv
<1> SUFFICES ASSUME Init PROVE TypeInv
  OBVIOUS
<1>1. PICK found \in [Cases -> (UNION {Discoveries[c][1] : c \in Cases}) \union {{}}] :
        /\ \A c \in Cases : found[c] = {} \/ found[c] \in Discoveries[c][1]
        /\ findings = {row \in UNION {found[c] : c \in Cases} : row[1] \in FindingIds}
        /\ ties = {row \in UNION {found[c] : c \in Cases} : row[1] \in TieIds}
  BY DEF Init
<1>2. deployed \in 1..MaxVersion /\ marker \in 0..MaxVersion
  <2>1. MaxVersion \in Nat \ {0}
    BY InputAssumption, Zenon
  <2>2. QED
    BY <2>1 DEF Init
<1>3. ASSUME NEW c \in Cases
      PROVE  /\ found[c] \subseteq Rows /\ IsFiniteSet(found[c])
             /\ \A row \in found[c] : CaseOf[row[1]] = c
  <2>1. CASE found[c] = {}
    BY <2>1, FS_EmptySet
  <2>2. CASE found[c] \in Discoveries[c][1]
    <3>1. deployed = 1
      BY DEF Init
    <3>2. QED
      BY <1>2, <2>2, <3>1, FoundIsOfTheCase
  <2>3. QED
    BY <1>1, <2>1, <2>2
<1>4. ASSUME NEW row \in findings \union ties PROVE row \in Rows /\ row \in found[CaseOf[row[1]]]
  <2>1. PICK c \in Cases : row \in found[c]
    BY <1>1
  <2>2. QED
    BY <1>3, <2>1
<1>5. findings \subseteq FindingIds \X Recitations /\ ties \subseteq TieIds \X Recitations
  BY <1>1, <1>4 DEF Rows
<1>6. FiniteCases
  <2>1. ASSUME NEW c \in Cases PROVE IsFiniteSet(OfCase(findings, c)) /\ IsFiniteSet(OfCase(ties, c))
    <3>1. OfCase(findings, c) \subseteq found[c] /\ OfCase(ties, c) \subseteq found[c]
      BY <1>4 DEF OfCase
    <3>2. QED
      BY <1>3, <3>1, FS_Subset
  <2>2. QED
    BY <2>1 DEF FiniteCases
<1>7. cases \in [Cases -> States \union {NoCase}]
  <2>1. FirstStates \subseteq [Cases -> States \union {NoCase}]
    BY InputAssumption, Zenon
  <2>2. QED
    BY <2>1 DEF Init
<1>8. worker \in [Workers -> WorkerRecords] /\ \A k \in Workers : Held(worker[k])
  BY IdleIsHeld DEF Init
<1>9. QED
  BY <1>2, <1>5, <1>6, <1>7, <1>8 DEF TypeInv, ExplanationsTypeOK, Init

\* A new request keeps the type invariant.
LEMMA AskKeepsTypes ==
  ASSUME TypeInv, NEW k \in Workers, NEW asked \in Asks, Ask(k, asked)
  PROVE  TypeInv'
<1> DEFINE at == IF IsDemo(asked.case) THEN "look_case" ELSE "route"
           q == [Idle EXCEPT !.asked = asked, !.left = DemoCases, !.at = at]
<1>1. /\ worker' = [j \in Workers |-> IF j = k THEN q ELSE [worker[j] EXCEPT !.alone = FALSE]]
      /\ UNCHANGED <<tables, deployed, crashes>>
      /\ overlaps' \in {overlaps, overlaps + 1} /\ writes' \in {writes, writes + 1}
  BY DEF Ask
<1>2. asked \in AskedRecords
  <2>1. Asks \subseteq AskedRecords
    BY InputAssumption, Zenon
  <2>2. QED
    BY <2>1
<1>3. (at = "look_case" /\ DemoCases # <<>>) \/ at = "route"
  BY DemosAreCases
<1> HIDE DEF at
<1>4. /\ q \in WorkerRecords /\ q.at = at /\ q.phase = "route" /\ q.asked = asked
      /\ q.found = {} /\ q.loaded = {}
  <2>1. Idle \in WorkerRecords /\ Idle.phase = "route" /\ Idle.found = {} /\ Idle.loaded = {}
    BY IdleIsHeld DEF Idle
  <2>2. at \in Labels
    BY <1>3 DEF Labels
  <2>3. QED
    BY <1>2, <2>1, <2>2, DemosAreCases DEF WorkerRecords
<1> HIDE DEF q
<1>5. Held(q)
  <2>1. IsFiniteSet({})
    BY FS_EmptySet
  <2>2. QED
    BY <1>2, <1>3, <1>4, <2>1
       DEF Held, Placed, Found, Loaded, OnlyRebuilding, Reconciling, InHand, Explaining, Marking
<1>6. ASSUME NEW j \in Workers
      PROVE  /\ [worker[j] EXCEPT !.alone = FALSE] \in WorkerRecords
             /\ Held([worker[j] EXCEPT !.alone = FALSE])
  <2> DEFINE r == worker[j]
             s == [r EXCEPT !.alone = FALSE]
  <2>1. r \in WorkerRecords /\ Placed(r) /\ Found(r) /\ Loaded(r)
    BY DEF TypeInv, Held
  <2>2. /\ s \in WorkerRecords /\ s.at = r.at
        /\ s.phase = r.phase /\ s.asked = r.asked /\ s.left = r.left
        /\ s.table = r.table /\ s.rows = r.rows /\ s.found = r.found /\ s.gone = r.gone
        /\ s.loaded = r.loaded /\ s.todo = r.todo
    BY <2>1 DEF WorkerRecords
  <2> HIDE DEF s
  <2>3. Placed(s) /\ Loaded(s)
    BY <2>1, <2>2 DEF Placed, Loaded
  <2>4. CaseOfRequest(s) = CaseOfRequest(r) /\ IdsOfTable(s) = IdsOfTable(r)
    BY <2>2 DEF CaseOfRequest, IdsOfTable
  <2>5. Found(s)
    BY <2>1, <2>2, <2>4 DEF Found
  <2>6. Held(s)
    BY <2>2, <2>3, <2>5 DEF Held
  <2>7. QED
    BY <2>2, <2>6 DEF s
<1>7. worker' \in [Workers -> WorkerRecords] /\ \A j \in Workers : Held(worker'[j])
  BY <1>1, <1>4, <1>5, <1>6
<1>8. \A j \in Workers : Held(worker[j])'
  BY <1>1, <1>7 DEF Held, Placed, Found, Loaded
<1>9. raced' \in BOOLEAN
  BY DEF Ask, TypeInv, ExplanationsTypeOK
<1>10. spoiled' \in BOOLEAN
  BY DEF Ask, TypeInv, ExplanationsTypeOK
<1>11. overlaps' \in Nat /\ writes' \in Nat
  BY <1>1 DEF TypeInv, ExplanationsTypeOK
<1>12. FiniteCases'
  BY <1>1 DEF TypeInv, FiniteCases, OfCase, tables
<1>13. QED
  BY <1>1, <1>7, <1>8, <1>9, <1>10, <1>11, <1>12 DEF TypeInv, ExplanationsTypeOK, tables

\* A crash and a deployment keep the type invariant.
LEMMA RestartKeepsTypes == ASSUME TypeInv, Crash \/ Deploy PROVE TypeInv'
<1>1. /\ worker' = [k \in Workers |-> Idle]
      /\ UNCHANGED <<tables, overlaps, writes, raced>>
      /\ crashes' = crashes + 1
  BY DEF Crash, Deploy
<1>2. deployed' \in 1..MaxVersion
  <2>1. MaxVersion \in Nat
    BY InputAssumption, Zenon
  <2>2. QED
    BY <2>1 DEF Crash, Deploy, TypeInv, ExplanationsTypeOK
<1>3. spoiled' \in BOOLEAN
  BY DEF Crash, Deploy, TypeInv, ExplanationsTypeOK
<1>4. \A k \in Workers : Held(worker[k])'
  <2>1. Held(Idle)'
    BY IdleIsHeld DEF Held, Placed, Found, Loaded, Idle, Reconciling
  <2>2. QED
    BY <1>1, <2>1
<1>5. FiniteCases'
  BY <1>1 DEF TypeInv, FiniteCases, OfCase, tables
<1>6. crashes' \in Nat /\ worker' \in [Workers -> WorkerRecords]
  BY <1>1, IdleIsHeld DEF TypeInv, ExplanationsTypeOK
<1>7. QED
  BY <1>1, <1>2, <1>3, <1>4, <1>5, <1>6 DEF TypeInv, ExplanationsTypeOK, tables

\* What every request holds fits where it is, through every overlap, death and
\* deployment.
THEOREM AlwaysTyped == Spec => []TypeInv
<1>1. TypeInv /\ Inv /\ [Next]_vars => TypeInv'
  <2> SUFFICES ASSUME TypeInv, Inv, [Next]_vars PROVE TypeInv'
    OBVIOUS
  <2>1. ASSUME NEW k \in Workers, Step(k) PROVE TypeInv'
    BY <2>1, StepKeepsTypes DEF Inv
  <2>2. CASE UNCHANGED vars
    BY <2>2 DEF vars, tables, bounds, history, TypeInv, ExplanationsTypeOK, FiniteCases, OfCase,
                Held, Placed, Found, Loaded
  <2>3. QED
    BY <2>1, <2>2, AskKeepsTypes, RestartKeepsTypes DEF Next
<1>2. QED
  BY <1>1, InitIsTyped, AlwaysSound, PTL DEF Spec

\* The tables and the requests keep their types: a served or saved explanation is
\* of an observation that was loaded, and what is left of a rebuild are demo cases.
THEOREM ExplanationsKeepTypes == Spec => []ExplanationsTypeOK
<1>1. TypeInv => ExplanationsTypeOK
  BY DEF TypeInv
<1>2. QED
  BY <1>1, AlwaysTyped, PTL

-----------------------------------------------------------------------------
(* What a reconciliation removes stays away until its explanations go. *)

\* A step keeps what was asked, or ends the request.
LEMMA StepsKeepRequest ==
  ASSUME TypeInv, NEW k \in Workers, Step(k)
  PROVE  /\ worker[k].at # "idle"
         /\ \A j \in Workers \ {k} : worker'[j] = worker[j]
         /\ \/ worker'[k] = Idle
            \/ /\ worker'[k].asked = worker[k].asked
               /\ \/ Rebuild(k) /\ worker[k].at \in {"look_case", "look_marker"}
                  \/ /\ worker'[k].alone = worker[k].alone
                     /\ worker'[k].phase # "route" => worker[k].phase # "route"
         /\ worker'[k].at \in {"insert_rows", "drop_explanations"} =>
              DeleteRows(k) \/ InsertRow(k)
<1> DEFINE r == worker[k]
<1>1. r \in WorkerRecords /\ worker \in [Workers -> WorkerRecords]
  BY DEF TypeInv, ExplanationsTypeOK
<1>idle. Idle.at = "idle"
  BY DEF Idle
<1> DEFINE Same(q) == /\ q.asked = r.asked
                      /\ \/ Rebuild(k) /\ r.at \in {"look_case", "look_marker"}
                         \/ q.alone = r.alone /\ (q.phase # "route" => r.phase # "route")
           Goal(q) == /\ q = Idle \/ Same(q)
                      /\ q.at \in {"insert_rows", "drop_explanations"} =>
                           DeleteRows(k) \/ InsertRow(k)
<1>2. ASSUME NEW q, Become(k, q)
      PROVE  worker'[k] = q /\ \A j \in Workers \ {k} : worker'[j] = worker[j]
  BY <1>1, <1>2 DEF Become
<1>3. SUFFICES /\ r.at # "idle" /\ \E q : Become(k, q) /\ Goal(q)
  BY <1>2
<1>end. ASSUME Become(k, Idle) PROVE \E q : Become(k, q) /\ Goal(q)
  BY <1>end, <1>idle
<1>goto. ASSUME NEW label, GoTo(k, label),
                label \in {"insert_rows", "drop_explanations"} => DeleteRows(k) \/ InsertRow(k)
         PROVE \E q : Become(k, q) /\ Goal(q)
  <2> DEFINE q == [r EXCEPT !.at = label]
  <2>1. /\ Become(k, q) /\ q.at = label /\ q.asked = r.asked /\ q.alone = r.alone
        /\ q.phase = r.phase
    BY <1>1, <1>goto DEF GoTo, WorkerRecords
  <2>2. QED
    BY <1>goto, <2>1
<1>after. ASSUME AfterReconcile(k) PROVE \E q : Become(k, q) /\ Goal(q)
  <2> DEFINE rest == Tail(r.left)
             q1 == [r EXCEPT !.left = rest, !.at = "wipe_findings"]
             q2 == [r EXCEPT !.phase = "explain", !.left = DemoCases, !.at = "explain_loads"]
  <2>1. Become(k, Idle) \/ (r.phase # "route" /\ (Become(k, q1) \/ Become(k, q2)))
    BY <1>after DEF AfterReconcile
  <2> HIDE DEF rest
  <2>2. r.phase # "route" => Goal(q1) /\ Goal(q2)
    BY <1>1 DEF WorkerRecords
  <2>3. QED
    BY <1>end, <2>1, <2>2
<1>rebuild. ASSUME Rebuild(k), r.at \in {"look_case", "look_marker"} PROVE \E q : Become(k, q) /\ Goal(q)
  <2> DEFINE alone == Busy = {k}
             q == [r EXCEPT !.phase = "build", !.left = DemoCases, !.at = "wipe_findings",
                            !.alone = alone]
  <2>1. Become(k, q)
    BY <1>rebuild DEF Rebuild
  <2>2. q.asked = r.asked /\ q.at = "wipe_findings" /\ q.alone = alone
    <3> HIDE DEF alone
    <3>1. QED
      BY <1>1 DEF WorkerRecords
  <2>3. Goal(q)
    BY <1>rebuild, <2>2
  <2>4. QED
    BY <2>1, <2>3
<1>explained. ASSUME NEW row, Explained(k, row) PROVE \E q : Become(k, q) /\ Goal(q)
  <2> DEFINE rest == Tail(r.todo)
             q1 == [r EXCEPT !.at = "answer", !.answer = row, !.attempt = 0,
                             !.sentence = NoSentence]
             q2 == [r EXCEPT !.at = "next_observation", !.todo = rest,
                             !.attempt = 0, !.sentence = NoSentence]
  <2>1. Become(k, q1) \/ Become(k, q2)
    BY <1>explained DEF Explained
  <2> HIDE DEF rest
  <2>2. Goal(q1) /\ Goal(q2)
    BY <1>1 DEF WorkerRecords
  <2>3. QED
    BY <2>1, <2>2
<1>4. CASE LookForCase(k)
  <2> DEFINE rest == Tail(r.left)
             q == [r EXCEPT !.left = rest]
  <2>1. r.at = "look_case" /\ (GoTo(k, "look_marker") \/ Rebuild(k) \/ Become(k, q))
    BY <1>4 DEF LookForCase, At
  <2> HIDE DEF rest
  <2>2. Goal(q)
    BY <1>1, <2>1 DEF WorkerRecords
  <2>3. QED
    BY <1>goto, <1>rebuild, <2>1, <2>2
<1>5. CASE LookForMarker(k)
  BY <1>5, <1>goto, <1>rebuild DEF LookForMarker, At
<1>6. CASE WipeFindings(k) \/ WipeTies(k) \/ DeleteCase(k) \/ DeleteMarker(k)
  BY <1>6, <1>goto DEF WipeFindings, WipeTies, DeleteCase, DeleteMarker, At
<1>7. CASE WipeExplanations(k)
  <2> DEFINE q == [r EXCEPT !.at = "delete_case", !.target = "intake"]
  <2>1. Become(k, q) /\ r.at = "wipe_explanations"
    BY <1>7 DEF WipeExplanations, At
  <2>2. Goal(q)
    BY <1>1 DEF WorkerRecords
  <2>3. QED
    BY <2>1, <2>2
<1>8. CASE SaveCollides(k)
  BY <1>8, <1>end DEF SaveCollides, SavesSubject, Fail, At
<1>9. CASE InsertCase(k)
  BY <1>9, <1>end, <1>goto, <1>after DEF InsertCase, Fail, At
<1>10. CASE InsertMarker(k)
  <2> DEFINE q == [r EXCEPT !.phase = "route", !.at = "route"]
  <2>1. r.at = "insert_marker" /\ (Become(k, q) \/ Become(k, Idle))
    BY <1>10 DEF InsertMarker, Fail, At
  <2>2. Goal(q)
    BY <1>1 DEF WorkerRecords
  <2>3. QED
    BY <1>end, <2>1, <2>2
<1>11. CASE RouteTransition(k)
  <2> DEFINE target == r.asked.target
             q == [r EXCEPT !.at = "delete_case", !.target = target]
  <2>1. r.at = "route" /\ (Become(k, q) \/ Become(k, Idle))
    BY <1>11 DEF RouteTransition, At
  <2> HIDE DEF target
  <2>2. Goal(q)
    BY <1>1 DEF WorkerRecords
  <2>3. QED
    BY <1>end, <2>1, <2>2
<1>12. CASE RouteReconcile(k) \/ RouteExplain(k) \/ ExplainLoads(k)
  BY <1>12, <1>end, <1>goto DEF RouteReconcile, RouteExplain, ExplainLoads, Fail, At
<1>13. CASE ReconcileLoads(k)
  <2> DEFINE target == IF cases[CaseIn(k)] \in RECONCILE_ALLOWED_STATES
                       THEN "worksheet" ELSE NoCase
             q(found) == [r EXCEPT !.at = "old_ids", !.table = "findings", !.found = found,
                                   !.target = target]
  <2>1. r.at = "reconcile_loads" /\ (Become(k, Idle) \/ \E found : Become(k, q(found)))
    BY <1>13 DEF ReconcileLoads, Fail, At
  <2> HIDE DEF target
  <2>2. \A found : Goal(q(found))
    BY <1>1 DEF WorkerRecords
  <2>3. QED
    BY <1>end, <2>1, <2>2
<1>14. CASE OldIds(k)
  <2> DEFINE new == {row \in r.found : row[1] \in IdsFor(k)}
             gone == IdsOf(OfCase(TableOf(k), CaseIn(k))) \ IdsOf(new)
             q == [r EXCEPT !.at = "delete_rows", !.rows = new, !.gone = gone]
  <2>1. r.at = "old_ids" /\ Become(k, q)
    BY <1>14 DEF OldIds, At
  <2> HIDE DEF new, gone
  <2>2. Goal(q)
    BY <1>1 DEF WorkerRecords
  <2>3. QED
    BY <2>1, <2>2
<1>15. CASE DeleteRows(k)
  <2>1. r.at = "delete_rows" /\ GoTo(k, "insert_rows")
    BY <1>15 DEF DeleteRows, At
  <2>2. QED
    BY <1>15, <1>goto, <2>1
<1>16. CASE InsertRow(k)
  <2> DEFINE row == CHOOSE x \in r.rows : TRUE
             rest == r.rows \ {row}
             q == [r EXCEPT !.rows = rest]
  <2>1. r.at = "insert_rows" /\ (GoTo(k, "drop_explanations") \/ Become(k, Idle) \/ Become(k, q))
    BY <1>16 DEF InsertRow, Fail, At
  <2> HIDE DEF rest
  <2>2. Goal(q)
    BY <1>1, <1>16 DEF WorkerRecords
  <2>3. QED
    BY <1>16, <1>end, <1>goto, <2>1, <2>2
<1>17. CASE DropExplanations(k)
  <2> DEFINE q == [r EXCEPT !.at = "old_ids", !.table = "ties", !.gone = {}]
  <2>1. r.at = "drop_explanations"
        /\ (Become(k, q) \/ GoTo(k, "delete_case") \/ AfterReconcile(k))
    BY <1>17 DEF DropExplanations, At
  <2>2. Goal(q)
    BY <1>1 DEF WorkerRecords
  <2>3. QED
    BY <1>goto, <1>after, <2>1, <2>2
<1>18. CASE LoadFindings(k)
  <2> DEFINE loaded == OfCase(findings, CaseIn(k))
             q == [r EXCEPT !.at = "load_ties", !.loaded = loaded]
  <2>1. r.at = "load_findings" /\ Become(k, q)
    BY <1>18 DEF LoadFindings, At
  <2> HIDE DEF loaded
  <2>2. Goal(q)
    BY <1>1 DEF WorkerRecords
  <2>3. QED
    BY <2>1, <2>2
<1>19. CASE LoadTies(k)
  <2> DEFINE loaded == r.loaded \union OfCase(ties, CaseIn(k))
             todo == IF r.phase = "explain" THEN SetToSeq(IdsOf(loaded))
                     ELSE IF r.asked.id \in IdsOf(loaded) THEN <<r.asked.id>> ELSE <<>>
             q == [r EXCEPT !.at = "next_observation", !.loaded = loaded, !.todo = todo]
  <2>1. r.at = "load_ties" /\ Become(k, q)
    BY <1>19 DEF LoadTies, At
  <2> HIDE DEF loaded, todo
  <2>2. Goal(q)
    BY <1>1 DEF WorkerRecords
  <2>3. QED
    BY <2>1, <2>2
<1>20. CASE NextObservation(k)
  <2> DEFINE rest == Tail(r.left)
             q1 == [r EXCEPT !.left = rest, !.at = "explain_loads", !.loaded = {}]
             q2 == [r EXCEPT !.at = "delete_marker", !.left = <<>>, !.loaded = {}]
  <2>1. r.at = "next_observation" /\ (\/ GoTo(k, "load_cached") \/ Become(k, Idle)
                                     \/ Become(k, q1) \/ Become(k, q2))
    BY <1>20 DEF NextObservation, At
  <2> HIDE DEF rest
  <2>2. Goal(q1) /\ Goal(q2)
    BY <1>1 DEF WorkerRecords
  <2>3. QED
    BY <1>end, <1>goto, <2>1, <2>2
<1>21. CASE LoadCached(k)
  <2>1. r.at = "load_cached" /\ (\/ GoTo(k, "generate") \/ Become(k, Idle)
                                \/ \E row : Explained(k, row))
    BY <1>21 DEF LoadCached, At
  <2>2. QED
    BY <1>end, <1>goto, <1>explained, <2>1
<1>22. CASE Generate(k)
  <2> DEFINE q1(response) == [r EXCEPT !.at = "delete_explanation", !.sentence = response]
             attempt == r.attempt + 1
             q2 == [r EXCEPT !.attempt = attempt]
  <2>1. r.at = "generate" /\ (\/ GoTo(k, "delete_explanation") \/ Become(k, q2)
                             \/ \E response : Become(k, q1(response)))
    BY <1>22 DEF Generate, At
  <2> HIDE DEF attempt
  <2>2. Goal(q2) /\ \A response : Goal(q1(response))
    BY <1>1, <2>1 DEF WorkerRecords
  <2>3. QED
    BY <1>goto, <2>1, <2>2
<1>23. CASE GenerateFails(k) \/ Answer(k)
  BY <1>23, <1>end DEF GenerateFails, Answer, Fail, Finish, At
<1>24. CASE DeleteExplanation(k)
  BY <1>24, <1>goto DEF DeleteExplanation, At
<1>25. CASE InsertExplanation(k)
  <2>1. r.at = "insert_explanation" /\ (Become(k, Idle) \/ \E row : Explained(k, row))
    BY <1>25 DEF InsertExplanation, Fail, At
  <2>2. QED
    BY <1>end, <1>explained, <2>1
<1>26. QED
  BY <1>4, <1>5, <1>6, <1>7, <1>8, <1>9, <1>10, <1>11, <1>12, <1>13, <1>14, <1>15, <1>16,
     <1>17, <1>18, <1>19, <1>20, <1>21, <1>22, <1>23, <1>24, <1>25 DEF Step

\* Two POST reconciles are never in progress at once.
OneReconciles ==
  \A j, k \in Workers :
    /\ worker[j].at # "idle" /\ worker[j].asked.op = "reconcile"
    /\ worker[k].at # "idle" /\ worker[k].asked.op = "reconcile"
    => j = k

\* What a reconciliation removes is in neither table once it is deleted.
GoneStaysAway ==
  \A k \in Workers : worker[k].at \in {"insert_rows", "drop_explanations"} =>
    \A id \in worker[k].gone : id \notin IdsOf(findings \union ties)

Apart == raced \/ (OneReconciles /\ GoneStaysAway)

\* Of a demo case, the same is found by all.
LEMMA DemoFoundOnce ==
  ASSUME NEW c, IsDemo(c), deployed \in 1..MaxVersion,
         NEW F \in Discoveries[c][deployed], NEW G \in Discoveries[c][deployed]
  PROVE  F = G
<1>1. \A d \in ToSet(DemoCases), v \in 1..MaxVersion :
        \E found \in Discoveries[d][v] : Discoveries[d][v] = {found}
  BY InputAssumption, Zenon
<1>2. PICK found : Discoveries[c][deployed] = {found}
  BY <1>1 DEF IsDemo
<1>3. QED
  BY <1>2

\* No id that a reconciliation removes is among those another one, or itself,
\* may insert.
LEMMA NoneInsertsWhatIsGone ==
  ASSUME TypeInv, OneReconciles, NEW j \in Workers, NEW k \in Workers,
         worker[j].at \in {"insert_rows", "drop_explanations"}, worker[k].at = "insert_rows",
         NEW row \in worker[k].rows
  PROVE  row[1] \notin worker[j].gone
<1> DEFINE r == worker[j]
           s == worker[k]
<1>1. r \in WorkerRecords /\ Placed(r) /\ Found(r) /\ s \in WorkerRecords /\ Placed(s) /\ Found(s)
      /\ deployed \in 1..MaxVersion
  BY DEF TypeInv, Held, ExplanationsTypeOK
<1>2. SUFFICES ASSUME row[1] \in r.gone PROVE FALSE
  OBVIOUS
<1>3. /\ row[1] \in IdsOfTable(r) /\ CaseOf[row[1]] = CaseOfRequest(r)
      /\ row[1] \notin IdsOf(r.found) /\ r.found \in Discoveries[CaseOfRequest(r)][deployed]
  BY <1>1, <1>2 DEF Found, Reconciling
<1>4. row \in s.found /\ s.found \in Discoveries[CaseOfRequest(s)][deployed]
  BY <1>1 DEF Found, Reconciling
<1>5. /\ CaseOfRequest(s) \in Cases /\ CaseOfRequest(r) \in Cases
      /\ s.phase # "route" => IsDemo(CaseOfRequest(s))
      /\ r.phase # "route" => IsDemo(CaseOfRequest(r))
  BY <1>1, CaseInHand DEF Marking
<1>6. CaseOf[row[1]] = CaseOfRequest(s)
  BY <1>1, <1>4, <1>5, FoundIsOfTheCase
<1>7. CASE r.phase = "route" /\ s.phase = "route"
  <2>1. r.asked.op = "reconcile" /\ s.asked.op = "reconcile"
    BY <1>1, <1>7 DEF Placed, Reconciling
  <2>2. j = k
    BY <2>1 DEF OneReconciles
  <2>3. QED
    BY <1>3, <1>4, <2>2 DEF IdsOf
<1>8. CASE ~(r.phase = "route" /\ s.phase = "route")
  <2>1. r.found = s.found
    BY <1>1, <1>3, <1>4, <1>5, <1>6, <1>8, DemoFoundOnce
  <2>2. QED
    BY <1>3, <1>4, <2>1 DEF IdsOf
<1>9. QED
  BY <1>7, <1>8

\* Which steps write the tables of observations, and how.
LEMMA TablesShrink ==
  ASSUME NEW k \in Workers, Step(k), ~InsertRow(k)
  PROVE  findings' \subseteq findings /\ ties' \subseteq ties
<1>1. CASE WipeFindings(k) \/ WipeTies(k)
  BY <1>1 DEF WipeFindings, WipeTies
<1>2. CASE DeleteRows(k)
  BY <1>2 DEF DeleteRows, WriteTable, TableOf
<1>3. CASE \/ WipeExplanations(k) \/ DeleteCase(k) \/ InsertCase(k) \/ DeleteMarker(k)
           \/ InsertMarker(k) \/ DropExplanations(k) \/ DeleteExplanation(k)
           \/ InsertExplanation(k)
  BY <1>3 DEF WipeExplanations, DeleteCase, InsertCase, DeleteMarker, InsertMarker,
              DropExplanations, DeleteExplanation, InsertExplanation
<1>4. CASE \/ LookForCase(k) \/ LookForMarker(k) \/ RouteTransition(k) \/ RouteReconcile(k)
           \/ OldIds(k) \/ RouteExplain(k) \/ LoadFindings(k) \/ LoadTies(k)
           \/ NextObservation(k) \/ LoadCached(k) \/ Generate(k) \/ Answer(k)
           \/ SaveCollides(k) \/ ReconcileLoads(k) \/ ExplainLoads(k) \/ GenerateFails(k)
  <2>1. UNCHANGED tables
    BY <1>4 DEF LookForCase, LookForMarker, RouteTransition, RouteReconcile, OldIds, RouteExplain,
                LoadFindings, LoadTies, NextObservation, LoadCached, Generate, Answer,
                SaveCollides, ReconcileLoads, ExplainLoads, GenerateFails
  <2>2. QED
    BY <2>1 DEF tables
<1>5. QED
  BY <1>1, <1>2, <1>3, <1>4 DEF Step

\* A step keeps two reconciliations apart, and an interrupted one away from the tables.
LEMMA StepKeepsApart ==
  ASSUME TypeInv, OneReconciles, GoneStaysAway, NEW k \in Workers, Step(k)
  PROVE  OneReconciles' /\ GoneStaysAway'
<1> DEFINE r == worker[k]
<1>1. r \in WorkerRecords /\ Placed(r) /\ Found(r) /\ deployed \in 1..MaxVersion
  BY DEF TypeInv, Held, ExplanationsTypeOK
<1>2. /\ r.at # "idle" /\ \A j \in Workers \ {k} : worker'[j] = worker[j]
      /\ worker'[k] = Idle \/ worker'[k].asked = r.asked
      /\ worker'[k].at \in {"insert_rows", "drop_explanations"} => DeleteRows(k) \/ InsertRow(k)
  BY StepsKeepRequest
<1>3. OneReconciles'
  BY <1>2 DEF OneReconciles, Idle
<1>4. CASE InsertRow(k) /\ ~UNCHANGED <<findings, ties>>
  <2> DEFINE row == CHOOSE x \in r.rows : TRUE
             rest == r.rows \ {row}
  <2>1. /\ r.at = "insert_rows" /\ r.rows # {} /\ WriteTable(k, TableOf(k) \union {row})
        /\ Become(k, [r EXCEPT !.rows = rest])
    BY <1>4 DEF InsertRow, At, Become
  <2>2. row \in r.rows
    BY <2>1
  <2> HIDE DEF row, rest
  <2>3. findings' \union ties' \subseteq findings \union ties \union {row}
    BY <2>1 DEF WriteTable, TableOf
  <2>4. worker'[k].gone = r.gone
    BY <1>1, <2>1 DEF Become, TypeInv, ExplanationsTypeOK, WorkerRecords
  <2>5. ASSUME NEW j \in Workers, worker'[j].at \in {"insert_rows", "drop_explanations"}
        PROVE  worker'[j].gone = worker[j].gone /\ worker[j].at \in {"insert_rows", "drop_explanations"}
    BY <1>2, <2>1, <2>4, <2>5
  <2>6. ASSUME NEW j \in Workers, worker'[j].at \in {"insert_rows", "drop_explanations"},
               NEW id \in worker'[j].gone
        PROVE  id \notin IdsOf(findings' \union ties')
    <3>1. id # row[1]
      BY <2>1, <2>2, <2>5, <2>6, NoneInsertsWhatIsGone
    <3>2. id \notin IdsOf(findings \union ties)
      BY <2>5, <2>6 DEF GoneStaysAway
    <3>3. QED
      BY <2>3, <3>1, <3>2 DEF IdsOf
  <2>7. GoneStaysAway'
    BY <2>6 DEF GoneStaysAway, IdsOf
  <2>8. QED
    BY <1>3, <2>7
<1>5. CASE DeleteRows(k)
  <2>1. /\ r.at = "delete_rows" /\ Become(k, [r EXCEPT !.at = "insert_rows"])
        /\ WriteTable(k, TableOf(k) \ OfCase(TableOf(k), CaseIn(k)))
    BY <1>5 DEF DeleteRows, At, GoTo
  <2>2. worker'[k].gone = r.gone /\ CaseIn(k) = CaseOfRequest(r)
    BY <1>1, <2>1 DEF Become, TypeInv, ExplanationsTypeOK, WorkerRecords, CaseIn, CaseOfRequest
  <2>3. ASSUME NEW id \in r.gone PROVE id \notin IdsOf(findings' \union ties')
    <3>1. id \in IdsOfTable(r) /\ CaseOf[id] = CaseIn(k)
      BY <1>1, <2>1, <2>2, <2>3 DEF Found, Reconciling
    <3>2. FindingIds \intersect TieIds = {}
      BY InputAssumption, Zenon
    <3>3. /\ \A row \in findings' : row \in findings /\ row[1] \in FindingIds
          /\ \A row \in ties' : row \in ties /\ row[1] \in TieIds
      BY <2>1 DEF WriteTable, TableOf, TypeInv, ExplanationsTypeOK
    <3>4. CASE r.table = "findings"
      <4>1. findings' = findings \ OfCase(findings, CaseIn(k)) /\ id \in FindingIds
        BY <2>1, <3>1, <3>4 DEF WriteTable, TableOf, IdsOfTable
      <4>2. \A row \in findings' : row[1] # id
        BY <3>1, <4>1 DEF OfCase
      <4>3. QED
        BY <3>2, <3>3, <4>1, <4>2 DEF IdsOf
    <3>5. CASE r.table # "findings"
      <4>1. ties' = ties \ OfCase(ties, CaseIn(k)) /\ id \in TieIds
        BY <2>1, <3>1, <3>5 DEF WriteTable, TableOf, IdsOfTable
      <4>2. \A row \in ties' : row[1] # id
        BY <3>1, <4>1 DEF OfCase
      <4>3. QED
        BY <3>2, <3>3, <4>1, <4>2 DEF IdsOf
    <3>6. QED
      BY <3>4, <3>5
  <2>4. findings' \union ties' \subseteq findings \union ties
    BY <2>1 DEF WriteTable, TableOf
  <2>5. GoneStaysAway'
    BY <1>2, <2>2, <2>3, <2>4 DEF GoneStaysAway, IdsOf
  <2>6. QED
    BY <1>3, <2>5
<1>6. CASE InsertRow(k) /\ UNCHANGED <<findings, ties>>
  <2>1. r.at = "insert_rows" /\ (Become(k, Idle) \/ \E label, rest :
           Become(k, [r EXCEPT !.at = label]) \/ Become(k, [r EXCEPT !.rows = rest]))
    BY <1>6 DEF InsertRow, At, Fail, GoTo
  <2>2. worker'[k] = Idle \/ worker'[k].gone = r.gone
    BY <1>1, <2>1 DEF Become, TypeInv, ExplanationsTypeOK, WorkerRecords
  <2>3. GoneStaysAway'
    BY <1>2, <1>6, <2>1, <2>2 DEF GoneStaysAway, IdsOf, Idle
  <2>4. QED
    BY <1>3, <2>3
<1>7. CASE ~InsertRow(k) /\ ~DeleteRows(k)
  <2>1. findings' \union ties' \subseteq findings \union ties
    BY <1>7, TablesShrink
  <2>2. GoneStaysAway'
    BY <1>2, <1>7, <2>1 DEF GoneStaysAway, IdsOf
  <2>3. QED
    BY <1>3, <2>2
<1>8. QED
  BY <1>4, <1>5, <1>6, <1>7

\* Unless two POST reconciles overlapped, no id that a reconciliation is about to
\* drop the explanations of is in the tables again.
THEOREM AlwaysApart == Spec => []Apart
<1>1. Init => Apart
  BY DEF Init, Apart, OneReconciles, GoneStaysAway, Idle
<1>2. TypeInv /\ Inv /\ Apart /\ [Next]_vars => Apart'
  <2> SUFFICES ASSUME TypeInv, Inv, Apart, [Next]_vars PROVE Apart'
    OBVIOUS
  <2>1. ASSUME NEW k \in Workers, Step(k) PROVE Apart'
    <3>1. raced' = raced
      BY <2>1, TablesStayTyped DEF Inv
    <3>2. QED
      BY <2>1, <3>1, StepKeepsApart DEF Apart
  <2>2. ASSUME NEW k \in Workers, NEW asked \in Asks, Ask(k, asked) PROVE Apart'
    <3> DEFINE reconciling == {j \in Busy : worker[j].asked.op = "reconcile"}
               at == IF IsDemo(asked.case) THEN "look_case" ELSE "route"
               q == [Idle EXCEPT !.asked = asked, !.left = DemoCases, !.at = at]
    <3>1. /\ raced' = (raced \/ (asked.op = "reconcile" /\ reconciling # {}))
          /\ worker' = [j \in Workers |-> IF j = k THEN q ELSE [worker[j] EXCEPT !.alone = FALSE]]
          /\ UNCHANGED <<findings, ties>>
      BY <2>2 DEF Ask, tables
    <3>2. q.at \in {"look_case", "route"} /\ q.asked = asked
      BY DEF Idle
    <3> HIDE DEF q, at
    <3>3. ASSUME NEW j \in Workers \ {k}
          PROVE  /\ worker'[j].at = worker[j].at /\ worker'[j].asked = worker[j].asked
                 /\ worker'[j].gone = worker[j].gone
      BY <3>1 DEF TypeInv, ExplanationsTypeOK, WorkerRecords
    <3>4. worker'[k] = q
      BY <3>1
    <3>5. CASE ~raced'
      <4>1. OneReconciles /\ GoneStaysAway /\ (asked.op = "reconcile" => reconciling = {})
        BY <3>1, <3>5 DEF Apart
      <4>2. GoneStaysAway'
        BY <3>1, <3>2, <3>3, <3>4, <4>1 DEF GoneStaysAway
      <4>3. OneReconciles'
        BY <3>2, <3>3, <3>4, <4>1 DEF OneReconciles, Busy
      <4>4. QED
        BY <4>2, <4>3 DEF Apart
    <3>6. QED
      BY <3>5 DEF Apart
  <2>3. CASE Crash \/ Deploy
    BY <2>3 DEF Crash, Deploy, Apart, OneReconciles, GoneStaysAway, Idle
  <2>4. CASE UNCHANGED vars
    BY <2>4 DEF vars, tables, history, Apart, OneReconciles, GoneStaysAway
  <2>5. QED
    BY <2>1, <2>2, <2>3, <2>4 DEF Next
<1>3. QED
  BY <1>1, <1>2, AlwaysTyped, AlwaysSound, PTL DEF Spec

\* Which steps take explanations away.
LEMMA ExplanationsGo ==
  ASSUME NEW k \in Workers, Step(k), ~(explanations \subseteq explanations')
  PROVE  \/ WipeExplanations(k) \/ DropExplanations(k) \/ DeleteExplanation(k)
<1>1. CASE \/ WipeFindings(k) \/ WipeTies(k) \/ DeleteCase(k) \/ InsertCase(k) \/ DeleteMarker(k)
           \/ InsertMarker(k) \/ DeleteRows(k) \/ InsertRow(k) \/ InsertExplanation(k)
  BY <1>1 DEF WipeFindings, WipeTies, DeleteCase, InsertCase, DeleteMarker, InsertMarker,
              DeleteRows, InsertRow, InsertExplanation
<1>2. CASE \/ LookForCase(k) \/ LookForMarker(k) \/ RouteTransition(k) \/ RouteReconcile(k)
           \/ OldIds(k) \/ RouteExplain(k) \/ LoadFindings(k) \/ LoadTies(k)
           \/ NextObservation(k) \/ LoadCached(k) \/ Generate(k) \/ Answer(k)
           \/ SaveCollides(k) \/ ReconcileLoads(k) \/ ExplainLoads(k) \/ GenerateFails(k)
  <2>1. UNCHANGED tables
    BY <1>2 DEF LookForCase, LookForMarker, RouteTransition, RouteReconcile, OldIds, RouteExplain,
                LoadFindings, LoadTies, NextObservation, LoadCached, Generate, Answer,
                SaveCollides, ReconcileLoads, ExplainLoads, GenerateFails
  <2>2. QED
    BY <2>1 DEF tables
<1>3. QED
  BY <1>1, <1>2 DEF Step

\* What was generated for an observation that a case still has stays cached through
\* any reconciliation, of its own or of another case, as long as no two POST
\* reconciles overlapped (replace_findings, replace_ties).
THEOREM PaidForExplanationsStay == Spec => CachedCarriesForward
<1> DEFINE Kept1 == \A x \in explanations \ explanations' : raced
              \/ x.of \notin IdsOf(findings \union ties)
              \/ \E k \in Workers : \/ At(k, "delete_explanation") /\ Observation(k) = x.of
                                    \/ At(k, "wipe_explanations")
<1>1. Apart /\ [Next]_vars => [Kept1]_vars
  <2> SUFFICES ASSUME Apart, Next, NEW x \in explanations \ explanations', ~raced
               PROVE  \/ x.of \notin IdsOf(findings \union ties)
                      \/ \E k \in Workers : \/ At(k, "delete_explanation") /\ Observation(k) = x.of
                                            \/ At(k, "wipe_explanations")
    OBVIOUS
  <2>1. ASSUME ~\E k \in Workers : Step(k) PROVE FALSE
    BY <2>1 DEF Next, Ask, Crash, Deploy, tables
  <2>2. PICK k \in Workers : Step(k)
    BY <2>1
  <2>3. CASE WipeExplanations(k)
    BY <2>3 DEF WipeExplanations
  <2>4. CASE DropExplanations(k)
    BY <2>4 DEF DropExplanations, Apart, GoneStaysAway, At
  <2>5. CASE DeleteExplanation(k)
    BY <2>5 DEF DeleteExplanation, Cached
  <2>6. QED
    BY <2>2, <2>3, <2>4, <2>5, ExplanationsGo
<1>2. QED
  BY <1>1, AlwaysApart, PTL DEF Spec, CachedCarriesForward

-----------------------------------------------------------------------------
(* The demo cases: what is missing of them, somebody at work will write. *)

\* What reconciling a demo case finds, with the fixtures deployed.
Fixture(c) == CHOOSE found \in Discoveries[c][deployed] : TRUE

\* A rebuild has dealt with the observation, and inserts it if it is to be.
Dealt(r, c, id) ==
  \/ c \notin ToSet(r.left)
  \/ /\ c = Head(r.left)
     /\ \/ r.at \in {"insert_rows", "drop_explanations"} /\ (r.table = "ties" \/ id \in FindingIds)
        \/ r.at \in {"old_ids", "delete_rows"} /\ r.table = "ties" /\ id \in FindingIds
        \/ r.at \in {"delete_case", "insert_case"} /\ r.target # "intake"

\* A request will still see to a row of a demo case.
WillWrite(r, c, row) ==
  \/ r.phase = "build" /\ ~Dealt(r, c, row[1])
  \/ r.at = "insert_rows" /\ row \in r.rows

\* A request will still see that an observation of a demo case is explained.
WillExplain(r, c, id) ==
  \/ r.phase = "build"
  \/ /\ r.phase = "explain" /\ c \in ToSet(r.left)
     /\ \/ c # Head(r.left)
        \/ r.at \in {"explain_loads", "load_findings"}
        \/ r.at = "load_ties" /\ r.loaded = {row \in Fixture(c) : row[1] \in FindingIds}
  \/ /\ r.phase = "explain" /\ r.at \in InHand /\ id \in ToSet(r.todo)
     /\ DocumentOf(id, r.loaded) = DocumentOf(id, Fixture(c))
  \/ /\ r.at = "insert_explanation" /\ id = Head(r.todo)
     /\ DocumentOf(id, r.loaded) = DocumentOf(id, Fixture(c))

Right(c, row) == row \in Fixture(c) <=> row \in findings \union ties
Explains(c, id) == Cached(id, DocumentOf(id, Fixture(c))) # {}

\* Nothing was broken off, and the marker says the demo is built; or a rebuild
\* is under way, and nothing was broken off or the rebuild is alone.
Owed ==
  \/ ~spoiled /\ marker = deployed
  \/ \E k \in Workers : worker[k].phase # "route" /\ (~spoiled \/ worker[k].alone)

RowsAreSeenTo ==
  \A c \in ToSet(DemoCases), row \in Rows : CaseOf[row[1]] = c =>
    Right(c, row) \/ \E k \in Workers : WillWrite(worker[k], c, row)

IdsAreSeenTo ==
  \A c \in ToSet(DemoCases) : \A id \in IdsOf(Fixture(c)) :
    Explains(c, id) \/ \E k \in Workers : WillExplain(worker[k], c, id)

\* A request that is marked alone is, and so is a POST reconcile unless it is
\* held against the database.
Lone ==
  /\ \A j, k \in Workers : worker[j].alone /\ worker[k].at # "idle" => j = k
  /\ \A j, k \in Workers :
       /\ ~spoiled /\ worker[j].at # "idle" /\ worker[j].asked.op = "reconcile"
       /\ worker[k].at # "idle"
       => j = k
  /\ marker <= deployed

SeenTo == Owed => RowsAreSeenTo /\ IdsAreSeenTo

\* Whatever version is deployed, what a demo case discovers is the fixture of that case.
LEMMA FixtureIsFound ==
  ASSUME TypeInv, NEW c, IsDemo(c)
  PROVE  /\ c \in Cases /\ Fixture(c) \in Discoveries[c][deployed]
         /\ \A found \in Discoveries[c][deployed] : found = Fixture(c)
         /\ Fixture(c) \subseteq Rows /\ \A row \in Fixture(c) : CaseOf[row[1]] = c
<1>1. \A d \in ToSet(DemoCases), v \in 1..MaxVersion :
        \E found \in Discoveries[d][v] : Discoveries[d][v] = {found}
  BY InputAssumption, Zenon
<1>2. deployed \in 1..MaxVersion /\ c \in Cases
  BY DemosAreCases DEF TypeInv, ExplanationsTypeOK, IsDemo
<1>3. PICK found : Discoveries[c][deployed] = {found}
  BY <1>1, <1>2 DEF IsDemo
<1>4. Fixture(c) = found
  BY <1>3 DEF Fixture
<1>5. QED
  BY <1>2, <1>3, <1>4, FoundIsOfTheCase

\* A phase goes with being at work.
LEMMA PhaseMeansBusy ==
  ASSUME NEW r, r \in WorkerRecords, Placed(r)
  PROVE  /\ r.phase # "route" => r.at # "idle"
         /\ r.at = "insert_rows" => r.phase \in {"route", "build"}
         /\ r.at \in Marking => r.phase = "explain"
         /\ r.phase \in {"route", "build", "explain"}
BY DEF WorkerRecords, Placed, Building, Retelling, Marking, InHand, Explaining, Reconciling,
       OnlyRebuilding

\* How a step may change what is held against the database, and the marker.
LEMMA SpoiledSteps ==
  ASSUME NEW k \in Workers, Step(k)
  PROVE  /\ deployed' = deployed
         /\ \/ marker' \in {0, marker} /\ (spoiled' = spoiled \/ Fail(k))
            \/ /\ worker[k].at = "insert_marker" /\ marker' = deployed
               /\ spoiled' = (spoiled /\ ~worker[k].alone)
<1>1. CASE InsertMarker(k)
  BY <1>1 DEF InsertMarker, At
<1>2. CASE DeleteMarker(k)
  BY <1>2 DEF DeleteMarker, history
<1>3. CASE \/ WipeFindings(k) \/ WipeTies(k) \/ WipeExplanations(k) \/ DeleteCase(k)
           \/ InsertCase(k) \/ DeleteRows(k) \/ InsertRow(k) \/ DropExplanations(k)
           \/ DeleteExplanation(k) \/ InsertExplanation(k)
  BY <1>3 DEF WipeFindings, WipeTies, WipeExplanations, DeleteCase, InsertCase, DeleteRows, InsertRow,
              DropExplanations, DeleteExplanation, InsertExplanation, history
<1>4. CASE \/ LookForCase(k) \/ LookForMarker(k) \/ RouteTransition(k) \/ RouteReconcile(k)
           \/ OldIds(k) \/ RouteExplain(k) \/ LoadFindings(k) \/ LoadTies(k)
           \/ NextObservation(k) \/ LoadCached(k) \/ Generate(k) \/ Answer(k)
           \/ SaveCollides(k) \/ ReconcileLoads(k) \/ ExplainLoads(k) \/ GenerateFails(k)
  <2>1. UNCHANGED <<tables, deployed>> /\ (Fail(k) \/ UNCHANGED history)
    BY <1>4 DEF LookForCase, LookForMarker, RouteTransition, RouteReconcile, OldIds, RouteExplain,
                LoadFindings, LoadTies, NextObservation, LoadCached, Generate, Answer, Finish,
                SaveCollides, ReconcileLoads, ExplainLoads, GenerateFails
  <2>2. QED
    BY <2>1 DEF tables, history
<1>5. QED
  BY <1>1, <1>2, <1>3, <1>4 DEF Step

\* A step of a request brings no second reconciliation into the tables.
LEMMA StepKeepsLone ==
  ASSUME TypeInv, Lone, NEW k \in Workers, Step(k)
  PROVE  Lone'
<1> DEFINE r == worker[k]
<1>1. /\ r.at # "idle" /\ \A j \in Workers \ {k} : worker'[j] = worker[j]
      /\ \/ worker'[k] = Idle
         \/ worker'[k].asked = r.asked /\ (worker'[k].alone = r.alone \/ Rebuild(k))
  BY StepsKeepRequest
<1>2. Rebuild(k) => worker'[k].alone = (Busy = {k})
  <2> DEFINE alone == Busy = {k}
  <2>1. ASSUME Rebuild(k) PROVE worker'[k] = [r EXCEPT !.phase = "build", !.left = DemoCases,
                                                 !.at = "wipe_findings", !.alone = alone]
    BY <2>1 DEF Rebuild, Become, TypeInv, ExplanationsTypeOK
  <2> HIDE DEF alone
  <2>2. Rebuild(k) => worker'[k].alone = alone
    BY <2>1 DEF TypeInv, ExplanationsTypeOK, WorkerRecords
  <2>3. QED
    BY <2>2 DEF alone
<1>3. /\ Idle.alone = FALSE /\ Idle.at = "idle"
      /\ \A j \in Workers : worker[j].alone \in BOOLEAN
  BY DEF Idle, TypeInv, ExplanationsTypeOK, WorkerRecords
<1>4. \A j \in Workers : worker'[j].at # "idle" => worker[j].at # "idle"
  BY <1>1
<1>5. ASSUME NEW i \in Workers, NEW j \in Workers, worker'[i].alone, worker'[j].at # "idle"
      PROVE  i = j
  <2>1. CASE worker[i].alone
    BY <1>4, <1>5, <2>1 DEF Lone
  <2>2. CASE ~worker[i].alone
    <3>1. i = k /\ Rebuild(k)
      BY <1>1, <1>3, <1>5, <2>2
    <3>2. Busy = {k}
      BY <1>2, <1>5, <3>1
    <3>3. j \in Busy
      BY <1>4, <1>5 DEF Busy
    <3>4. QED
      BY <3>1, <3>2, <3>3
  <2>3. QED
    BY <2>1, <2>2
<1>6. ASSUME NEW i \in Workers, NEW j \in Workers, ~spoiled', worker'[i].at # "idle",
             worker'[i].asked.op = "reconcile", worker'[j].at # "idle"
      PROVE  i = j
  <2>1. worker[i].at # "idle" /\ worker[j].at # "idle" /\ worker[i].asked.op = "reconcile"
    BY <1>1, <1>3, <1>4, <1>6
  <2>2. CASE ~spoiled
    BY <2>1, <2>2 DEF Lone
  <2>3. CASE spoiled
    <3>1. worker[k].alone
      BY <1>6, <2>3, SpoiledSteps DEF Fail
    <3>2. QED
      BY <2>1, <3>1 DEF Lone
  <2>4. QED
    BY <2>2, <2>3 DEF TypeInv, ExplanationsTypeOK
<1>7. marker' <= deployed'
  BY SpoiledSteps DEF Lone, TypeInv, ExplanationsTypeOK
<1>8. QED
  BY <1>5, <1>6, <1>7 DEF Lone

\* Unless it breaks off what it was writing, a step owes only what was owed
\* before, or what a rebuild has just set out to do.
LEMMA OwedBefore ==
  ASSUME TypeInv, Lone, NEW k \in Workers, Step(k), Owed'
  PROVE  /\ Owed \/ Rebuild(k)
         /\ ~(Fail(k) /\ Writes(k))
<1> DEFINE r == worker[k]
<1>1. /\ r.at # "idle" /\ \A j \in Workers \ {k} : worker'[j] = worker[j]
      /\ \/ worker'[k] = Idle
         \/ Rebuild(k)
         \/ worker'[k].alone = r.alone /\ (worker'[k].phase # "route" => r.phase # "route")
  BY StepsKeepRequest
<1>2. Idle.phase = "route" /\ spoiled \in BOOLEAN
  BY DEF Idle, TypeInv, ExplanationsTypeOK
<1>3. \A j \in Workers : worker[j].phase # "route" => worker[j].at # "idle"
  BY PhaseMeansBusy DEF TypeInv, Held
<1>4. worker[k].at = "insert_marker" => worker[k].phase # "route"
  BY PhaseMeansBusy DEF TypeInv, Held, Marking
<1>5. ~spoiled' => ~spoiled \/ (worker[k].at = "insert_marker" /\ worker[k].alone)
  BY SpoiledSteps DEF Fail
<1>6. CASE ~spoiled' /\ marker' = deployed'
  <2>0. ~(Fail(k) /\ Writes(k))
    BY <1>6 DEF Fail
  <2>1. CASE marker' \in {0, marker}
    <3>1. deployed # 0 /\ deployed' = deployed
      BY SpoiledSteps DEF TypeInv, ExplanationsTypeOK
    <3>2. marker = deployed
      BY <1>6, <2>1, <3>1
    <3>3. QED
      BY <1>4, <1>5, <1>6, <2>0, <3>2 DEF Owed
  <2>2. CASE worker[k].at = "insert_marker" /\ spoiled' = (spoiled /\ ~worker[k].alone)
    BY <1>2, <1>4, <1>6, <2>0, <2>2 DEF Owed
  <2>3. QED
    BY <2>1, <2>2, SpoiledSteps
<1>7. ASSUME NEW j \in Workers, worker'[j].phase # "route", ~spoiled' \/ worker'[j].alone
      PROVE  (Owed \/ Rebuild(k)) /\ ~(Fail(k) /\ Writes(k))
  <2>1. CASE j = k
    <3>1. worker'[k] # Idle
      BY <1>2, <1>7, <2>1
    <3>2. ~Fail(k)
      BY <3>1 DEF Fail, Become, TypeInv, ExplanationsTypeOK
    <3>3. Rebuild(k) \/ (r.phase # "route" /\ worker'[k].alone = r.alone)
      BY <1>1, <1>7, <2>1, <3>1
    <3>4. QED
      BY <1>4, <1>5, <1>7, <2>1, <3>2, <3>3 DEF Owed
  <2>2. CASE j # k
    <3>1. worker[j].phase # "route" /\ worker[j].at # "idle" /\ worker'[j].alone = worker[j].alone
      BY <1>1, <1>3, <1>7, <2>2
    <3>2. ~worker[j].alone
      BY <1>1, <2>2 DEF Lone
    <3>3. ~spoiled'
      BY <1>7, <3>1, <3>2
    <3>4. Owed
      BY <1>4, <1>5, <3>1, <3>3 DEF Owed
    <3>5. QED
      BY <3>3, <3>4 DEF Fail
  <2>3. QED
    BY <2>1, <2>2
<1>8. QED
  BY <1>6, <1>7 DEF Owed

\* The rows of one case only are touched.
LEMMA OtherCases ==
  ASSUME NEW k \in Workers, NEW row, row[1] \in Ids, CaseOf[row[1]] # CaseIn(k),
         \/ WipeFindings(k) \/ WipeTies(k) \/ DeleteRows(k)
  PROVE  row \in findings' \union ties' <=> row \in findings \union ties
BY DEF WipeFindings, WipeTies, DeleteRows, WriteTable, TableOf, OfCase

\* The cases a rebuild is not done with.
LEMMA CasesLeft ==
  ASSUME NEW r, r \in WorkerRecords, Placed(r), r.phase # "route", r.at \notin Marking
  PROVE  /\ r.left \in Seq(ToSet(DemoCases)) /\ r.left # <<>>
         /\ CaseOfRequest(r) = Head(r.left) /\ Head(r.left) \in ToSet(r.left)
         /\ Tail(r.left) \in Seq(ToSet(DemoCases)) /\ Head(r.left) \notin ToSet(Tail(r.left))
         /\ \A c : c \in ToSet(r.left) <=> c = Head(r.left) \/ c \in ToSet(Tail(r.left))
<1>1. r.left \in Seq(ToSet(DemoCases)) /\ r.left # <<>> /\ IsInjective(r.left)
  BY DEF WorkerRecords, Placed
<1>2. QED
  BY <1>1, HeadAndTail DEF CaseOfRequest

\* What a step does about a row of a demo case: it keeps it right, or it will
\* see to it; and what it was to see to it does, or still will.
Carries(k, c, row) ==
  Right(c, row) \/ WillWrite(worker[k], c, row) =>
    (row \in Fixture(c) <=> row \in findings' \union ties') \/ WillWrite(worker'[k], c, row)

\* A request that stays where it was in its rebuild, with no row written.
LEMMA CarriesOn ==
  ASSUME TypeInv, NEW k \in Workers, NEW c, NEW row,
         UNCHANGED <<findings, ties>>, worker[k].at # "insert_rows",
         worker[k].phase = "build" =>
           /\ worker'[k].phase = "build"
           /\ Dealt(worker'[k], c, row[1]) => Dealt(worker[k], c, row[1])
  PROVE  Carries(k, c, row)
BY DEF Carries, Right, WillWrite

\* Once a case is reconciled, its rows are dealt with.
LEMMA AfterReconcileCarries ==
  ASSUME TypeInv, NEW k \in Workers, AfterReconcile(k), UNCHANGED <<findings, ties>>,
         NEW c \in ToSet(DemoCases), NEW row \in Rows,
         \/ worker[k].at = "drop_explanations" /\ worker[k].table # "findings"
         \/ worker[k].at = "insert_case"
            /\ (worker[k].phase = "build" => worker[k].target # "intake")
  PROVE  Carries(k, c, row)
<1> DEFINE r == worker[k]
<1>1. r \in WorkerRecords /\ Placed(r) /\ worker \in [Workers -> WorkerRecords]
  BY DEF TypeInv, Held, ExplanationsTypeOK
<1>2. CASE r.phase = "route"
  BY <1>2, CarriesOn
<1>3. CASE r.phase # "route"
  <2>1. r.phase = "build" /\ r.table \in {"findings", "ties"}
    BY <1>1, <1>3 DEF Placed, WorkerRecords, Retelling, InHand, Explaining, Marking
  <2>2. /\ \A d : d \in ToSet(r.left) <=> d = Head(r.left) \/ d \in ToSet(Tail(r.left))
        /\ Head(r.left) \notin ToSet(Tail(r.left))
        /\ Tail(r.left) \in Seq(ToSet(DemoCases))
    BY <1>1, <1>3, CasesLeft DEF Marking
  <2>3. c = Head(r.left) => Dealt(r, c, row[1])
    BY <2>1 DEF Dealt
  <2> DEFINE rest == Tail(r.left)
  <2>4. CASE rest # <<>>
    <3> DEFINE q == [r EXCEPT !.left = rest, !.at = "wipe_findings"]
    <3>1. worker'[k] = q
      BY <1>1, <1>3, <2>4 DEF AfterReconcile, Become
    <3>2. q.at = "wipe_findings" /\ q.left = rest /\ q.phase = "build"
      <4> HIDE DEF rest
      <4>1. QED
        BY <1>1, <2>1 DEF WorkerRecords
    <3>3. Dealt(q, c, row[1]) => c \notin ToSet(rest)
      BY <3>2 DEF Dealt
    <3>4. Dealt(q, c, row[1]) => Dealt(r, c, row[1])
      BY <2>2, <2>3, <3>3 DEF Dealt
    <3>5. QED
      BY <3>1, <3>2, <3>4, CarriesOn
  <2>5. CASE rest = <<>>
    <3>1. ToSet(rest) = {}
      <4>1. Len(rest) = 0 /\ rest \in Seq(ToSet(DemoCases))
        BY <2>2, <2>5
      <4> HIDE DEF rest
      <4>2. DOMAIN rest = {}
        BY <4>1
      <4>3. QED
        BY <4>2 DEF ToSet
    <3>2. Dealt(r, c, row[1])
      BY <2>2, <2>3, <3>1 DEF Dealt
    <3>3. ~WillWrite(r, c, row)
      BY <3>2 DEF WillWrite
    <3>4. QED
      BY <3>3 DEF Carries, Right
  <2>6. QED
    BY <2>4, <2>5
<1>4. QED
  BY <1>2, <1>3

\* Four steps write the tables of observations.
LEMMA TablesStay ==
  ASSUME NEW k \in Workers, Step(k),
         ~WipeFindings(k), ~WipeTies(k), ~DeleteRows(k), ~InsertRow(k)
  PROVE  UNCHANGED <<findings, ties>>
<1>1. CASE \/ WipeExplanations(k) \/ DeleteCase(k) \/ InsertCase(k) \/ DeleteMarker(k)
           \/ InsertMarker(k) \/ DropExplanations(k) \/ DeleteExplanation(k)
           \/ InsertExplanation(k)
  BY <1>1 DEF WipeExplanations, DeleteCase, InsertCase, DeleteMarker, InsertMarker,
              DropExplanations, DeleteExplanation, InsertExplanation
<1>2. CASE \/ LookForCase(k) \/ LookForMarker(k) \/ RouteTransition(k) \/ RouteReconcile(k)
           \/ OldIds(k) \/ RouteExplain(k) \/ LoadFindings(k) \/ LoadTies(k)
           \/ NextObservation(k) \/ LoadCached(k) \/ Generate(k) \/ Answer(k)
           \/ SaveCollides(k) \/ ReconcileLoads(k) \/ ExplainLoads(k) \/ GenerateFails(k)
  <2>1. UNCHANGED tables
    BY <1>2 DEF LookForCase, LookForMarker, RouteTransition, RouteReconcile, OldIds, RouteExplain,
                LoadFindings, LoadTies, NextObservation, LoadCached, Generate, Answer,
                SaveCollides, ReconcileLoads, ExplainLoads, GenerateFails
  <2>2. QED
    BY <2>1 DEF tables
<1>3. QED
  BY <1>1, <1>2 DEF Step

\* The steps of a rebuild up to the case's first row.
LEMMA RebuildCarries ==
  ASSUME TypeInv, NEW k \in Workers, NEW c \in ToSet(DemoCases), NEW row \in Rows,
         CaseOf[row[1]] = c, worker[k].phase = "build",
         \/ WipeFindings(k) \/ WipeTies(k) \/ WipeExplanations(k) \/ DeleteCase(k)
         \/ InsertCase(k) \/ ReconcileLoads(k) \/ OldIds(k) \/ DropExplanations(k),
         ~Become(k, Idle)
  PROVE  Carries(k, c, row)
<1> DEFINE r == worker[k]
<1>1. r \in WorkerRecords /\ Placed(r) /\ worker \in [Workers -> WorkerRecords]
  BY DEF TypeInv, Held, ExplanationsTypeOK
<1>2. r.at \in Building
  BY <1>1 DEF Placed
<1>3. /\ CaseIn(k) = Head(r.left) /\ Head(r.left) \in ToSet(r.left)
  BY <1>1, <1>2, CasesLeft DEF CaseIn, CaseOfRequest, Marking, Building, Reconciling
<1>4. row[1] \in Ids
  BY DEF Rows
<1>5. CASE WipeFindings(k) \/ WipeTies(k)
  <2>1. PICK label \in {"wipe_ties", "wipe_explanations"} : worker'[k] = [r EXCEPT !.at = label]
    BY <1>1, <1>5 DEF WipeFindings, WipeTies, GoTo, Become
  <2> DEFINE q == [r EXCEPT !.at = label]
  <2> HIDE DEF q
  <2>2. q.at = label /\ q.phase = "build" /\ q.left = r.left
    BY <1>1 DEF q, WorkerRecords
  <2>3. ~(c = Head(r.left) /\ Dealt(q, c, row[1]))
    BY <1>3, <2>2 DEF Dealt
  <2>4. r.at \in {"wipe_findings", "wipe_ties"}
    BY <1>5 DEF WipeFindings, WipeTies, At
  <2>5. CASE c = Head(r.left)
    BY <2>1, <2>2, <2>3, <2>5 DEF Carries, WillWrite, q
  <2>6. CASE c # Head(r.left)
    <3>1. row \in findings' \union ties' <=> row \in findings \union ties
      BY <1>3, <1>4, <1>5, <2>6, OtherCases
    <3>2. WillWrite(r, c, row) => WillWrite(q, c, row)
      BY <2>2, <2>4, <2>6 DEF WillWrite, Dealt
    <3>3. QED
      BY <2>1, <3>1, <3>2 DEF Carries, Right, q
  <2>7. QED
    BY <2>5, <2>6
<1>6. CASE WipeExplanations(k)
  <2> DEFINE q == [r EXCEPT !.at = "delete_case", !.target = "intake"]
  <2>1. worker'[k] = q /\ r.at = "wipe_explanations" /\ UNCHANGED <<findings, ties>>
    BY <1>1, <1>6 DEF WipeExplanations, Become, At
  <2>2. q.at = "delete_case" /\ q.target = "intake" /\ q.phase = "build" /\ q.left = r.left
    BY <1>1 DEF WorkerRecords
  <2> HIDE DEF q
  <2>3. Dealt(q, c, row[1]) => Dealt(r, c, row[1])
    BY <2>2 DEF Dealt
  <2>4. QED
    BY <2>1, <2>2, <2>3, CarriesOn
<1>7. CASE DeleteCase(k)
  <2> DEFINE q == [r EXCEPT !.at = "insert_case"]
  <2>1. worker'[k] = q /\ r.at = "delete_case" /\ UNCHANGED <<findings, ties>>
    BY <1>1, <1>7 DEF DeleteCase, GoTo, Become, At
  <2>2. q.at = "insert_case" /\ q.target = r.target /\ q.phase = "build" /\ q.left = r.left
    BY <1>1 DEF WorkerRecords
  <2> HIDE DEF q
  <2>3. Dealt(q, c, row[1]) => Dealt(r, c, row[1])
    BY <2>1, <2>2 DEF Dealt
  <2>4. QED
    BY <2>1, <2>2, <2>3, CarriesOn
<1>8. CASE InsertCase(k)
  <2>1. r.at = "insert_case" /\ UNCHANGED <<findings, ties>>
    BY <1>8 DEF InsertCase, At
  <2>2. CASE r.target = "intake"
    <3> DEFINE q == [r EXCEPT !.at = "reconcile_loads"]
    <3>1. worker'[k] = q
      BY <1>1, <1>8, <2>2 DEF InsertCase, GoTo, Become, Fail
    <3>2. q.at = "reconcile_loads" /\ q.phase = "build" /\ q.left = r.left
      BY <1>1 DEF WorkerRecords
    <3> HIDE DEF q
    <3>3. Dealt(q, c, row[1]) => Dealt(r, c, row[1])
      BY <3>2 DEF Dealt
    <3>4. QED
      BY <2>1, <3>1, <3>2, <3>3, CarriesOn
  <2>3. CASE r.target # "intake"
    <3>1. AfterReconcile(k)
      BY <1>8, <2>3 DEF InsertCase, Fail
    <3>2. QED
      BY <2>1, <2>3, <3>1, AfterReconcileCarries
  <2>4. QED
    BY <2>2, <2>3
<1>9. CASE ReconcileLoads(k)
  <2> DEFINE target == IF cases[CaseIn(k)] \in RECONCILE_ALLOWED_STATES
                       THEN "worksheet" ELSE NoCase
             q(found) == [r EXCEPT !.at = "old_ids", !.table = "findings", !.found = found,
                                   !.target = target]
  <2>1. UNCHANGED <<findings, ties>> /\ r.at = "reconcile_loads"
        /\ \E found : worker'[k] = q(found)
    BY <1>1, <1>9 DEF ReconcileLoads, Become, Fail, At, tables
  <2>2. PICK found : worker'[k] = q(found)
    BY <2>1
  <2> HIDE DEF target
  <2>3. q(found).at = "old_ids" /\ q(found).table = "findings" /\ q(found).phase = "build"
        /\ q(found).left = r.left
    BY <1>1 DEF WorkerRecords
  <2> HIDE DEF q
  <2>4. Dealt(q(found), c, row[1]) => Dealt(r, c, row[1])
    BY <2>3 DEF Dealt
  <2>5. QED
    BY <2>1, <2>2, <2>3, <2>4, CarriesOn
<1>10. CASE OldIds(k)
  <2> DEFINE new == {x \in r.found : x[1] \in IdsFor(k)}
             gone == IdsOf(OfCase(TableOf(k), CaseIn(k))) \ IdsOf(new)
             q == [r EXCEPT !.at = "delete_rows", !.rows = new, !.gone = gone]
  <2>1. worker'[k] = q /\ r.at = "old_ids" /\ UNCHANGED <<findings, ties>>
    BY <1>1, <1>10 DEF OldIds, Become, At, tables
  <2> HIDE DEF new, gone
  <2>2. q.at = "delete_rows" /\ q.table = r.table /\ q.phase = "build" /\ q.left = r.left
    BY <1>1 DEF WorkerRecords
  <2> HIDE DEF q
  <2>3. Dealt(q, c, row[1]) => Dealt(r, c, row[1])
    BY <2>1, <2>2 DEF Dealt
  <2>4. QED
    BY <2>1, <2>2, <2>3, CarriesOn
<1>11. CASE DropExplanations(k)
  <2>1. r.at = "drop_explanations" /\ UNCHANGED <<findings, ties>>
    BY <1>11 DEF DropExplanations, At
  <2>2. CASE r.table = "findings"
    <3> DEFINE q == [r EXCEPT !.at = "old_ids", !.table = "ties", !.gone = {}]
    <3>1. worker'[k] = q
      BY <1>1, <1>11, <2>2 DEF DropExplanations, Become
    <3>2. q.at = "old_ids" /\ q.table = "ties" /\ q.phase = "build" /\ q.left = r.left
      BY <1>1 DEF WorkerRecords
    <3> HIDE DEF q
    <3>3. Dealt(q, c, row[1]) => Dealt(r, c, row[1])
      BY <2>1, <3>2 DEF Dealt
    <3>4. QED
      BY <2>1, <3>1, <3>2, <3>3, CarriesOn
  <2>3. CASE r.table # "findings" /\ AfterReconcile(k)
    BY <2>1, <2>3, AfterReconcileCarries
  <2>4. CASE r.table # "findings" /\ ~AfterReconcile(k)
    <3> DEFINE q == [r EXCEPT !.at = "delete_case"]
    <3>1. worker'[k] = q
      BY <1>1, <1>11, <2>4 DEF DropExplanations, GoTo, Become
    <3>2. q.at = "delete_case" /\ q.phase = "build" /\ q.left = r.left
      BY <1>1 DEF WorkerRecords
    <3>3. r.table = "ties"
      BY <1>1, <2>4 DEF WorkerRecords
    <3> HIDE DEF q
    <3>4. Dealt(q, c, row[1]) => Dealt(r, c, row[1])
      BY <2>1, <3>2, <3>3 DEF Dealt
    <3>5. QED
      BY <2>1, <3>1, <3>2, <3>4, CarriesOn
  <2>5. QED
    BY <2>2, <2>3, <2>4
<1>12. QED
  BY <1>5, <1>6, <1>7, <1>8, <1>9, <1>10, <1>11

\* The rows of a table are deleted, to be inserted one by one.
LEMMA DeleteRowsCarries ==
  ASSUME TypeInv, NEW k \in Workers, NEW c \in ToSet(DemoCases), NEW row \in Rows,
         CaseOf[row[1]] = c, DeleteRows(k)
  PROVE  Carries(k, c, row)
<1> DEFINE r == worker[k]
           q == [r EXCEPT !.at = "insert_rows"]
<1>1. /\ r \in WorkerRecords /\ Placed(r) /\ Found(r) /\ worker \in [Workers -> WorkerRecords]
      /\ findings \subseteq FindingIds \X Recitations /\ ties \subseteq TieIds \X Recitations
  BY DEF TypeInv, Held, ExplanationsTypeOK
<1>2. r.at = "delete_rows" /\ worker'[k] = q
  BY <1>1 DEF DeleteRows, At, GoTo, Become
<1>3. /\ q.at = "insert_rows" /\ q.phase = r.phase /\ q.left = r.left /\ q.table = r.table
      /\ q.rows = r.rows /\ r.table \in {"findings", "ties"}
  BY <1>1 DEF WorkerRecords
<1> HIDE DEF q
<1>4. row[1] \in Ids /\ FindingIds \intersect TieIds = {}
  <2>1. FindingIds \intersect TieIds = {}
    BY InputAssumption, Zenon
  <2>2. QED
    BY <2>1 DEF Rows
<1>5. CaseIn(k) = CaseOfRequest(r)
  BY DEF CaseIn, CaseOfRequest
<1>6. /\ r.found \in Discoveries[CaseOfRequest(r)][deployed]
      /\ {x \in r.found : x[1] \in IdsOfTable(r)} \subseteq r.rows
  BY <1>1, <1>2 DEF Found, Reconciling
<1>7. CASE c # CaseIn(k)
  <2>1. row \in findings' \union ties' <=> row \in findings \union ties
    BY <1>4, <1>7, OtherCases
  <2>2. c # Head(r.left) \/ r.phase # "build"
    BY <1>7 DEF CaseIn
  <2>3. WillWrite(r, c, row) => WillWrite(q, c, row)
    BY <1>2, <1>3, <2>2 DEF WillWrite, Dealt
  <2>4. QED
    BY <1>2, <2>1, <2>3 DEF Carries, Right
<1>8. CASE c = CaseIn(k) /\ row[1] \in IdsOfTable(r)
  <2>1. r.found = Fixture(c)
    BY <1>5, <1>6, <1>8, FixtureIsFound DEF IsDemo
  <2>2. row \notin findings' \union ties'
    <3>1. CASE r.table = "findings"
      BY <1>1, <1>4, <1>8, <3>1 DEF DeleteRows, WriteTable, TableOf, OfCase, IdsOfTable
    <3>2. CASE r.table = "ties"
      BY <1>1, <1>4, <1>8, <3>2 DEF DeleteRows, WriteTable, TableOf, OfCase, IdsOfTable
    <3>3. QED
      BY <1>3, <3>1, <3>2
  <2>3. row \in Fixture(c) => row \in q.rows
    BY <1>3, <1>6, <1>8, <2>1
  <2>4. QED
    BY <1>2, <1>3, <2>2, <2>3 DEF Carries, WillWrite
<1>9. CASE c = CaseIn(k) /\ row[1] \notin IdsOfTable(r)
  <2>1. row \in findings' \union ties' <=> row \in findings \union ties
    <3>1. CASE r.table = "findings"
      BY <1>1, <1>4, <1>9, <3>1 DEF DeleteRows, WriteTable, TableOf, OfCase, IdsOfTable
    <3>2. CASE r.table = "ties"
      BY <1>1, <1>4, <1>9, <3>2 DEF DeleteRows, WriteTable, TableOf, OfCase, IdsOfTable
    <3>3. QED
      BY <1>3, <3>1, <3>2
  <2>2. WillWrite(r, c, row) => WillWrite(q, c, row)
    <3>1. r.table = "findings" => row[1] \notin FindingIds
      BY <1>9 DEF IdsOfTable
    <3>2. r.table = "ties" => row[1] \in FindingIds
      BY <1>4, <1>9 DEF IdsOfTable, Ids
    <3>3. QED
      BY <1>2, <1>3, <3>1, <3>2 DEF WillWrite, Dealt
  <2>3. QED
    BY <1>2, <2>1, <2>2 DEF Carries, Right
<1>10. QED
  BY <1>7, <1>8, <1>9

\* A row is inserted, or none is left to insert.
LEMMA InsertRowCarries ==
  ASSUME TypeInv, NEW k \in Workers, NEW c \in ToSet(DemoCases), NEW row \in Rows,
         CaseOf[row[1]] = c, InsertRow(k), ~Become(k, Idle)
  PROVE  Carries(k, c, row)
<1> DEFINE r == worker[k]
<1>1. /\ r \in WorkerRecords /\ Placed(r) /\ Found(r) /\ worker \in [Workers -> WorkerRecords]
      /\ deployed \in 1..MaxVersion
  BY DEF TypeInv, Held, ExplanationsTypeOK
<1>2. r.at = "insert_rows"
  BY DEF InsertRow, At
<1>3. CASE r.rows = {}
  <2> DEFINE q == [r EXCEPT !.at = "drop_explanations"]
  <2>1. worker'[k] = q /\ UNCHANGED <<findings, ties>>
    BY <1>1, <1>3 DEF InsertRow, GoTo, Become
  <2>2. q.at = "drop_explanations" /\ q.phase = r.phase /\ q.left = r.left /\ q.table = r.table
    BY <1>1 DEF WorkerRecords
  <2> HIDE DEF q
  <2>3. WillWrite(r, c, row) => WillWrite(q, c, row)
    BY <1>2, <1>3, <2>2 DEF WillWrite, Dealt
  <2>4. QED
    BY <2>1, <2>3 DEF Carries, Right
<1>4. CASE r.rows # {}
  <2> DEFINE new == CHOOSE x \in r.rows : TRUE
             rest == r.rows \ {new}
             q == [r EXCEPT !.rows = rest]
  <2>1. worker'[k] = q /\ WriteTable(k, TableOf(k) \union {new})
    BY <1>1, <1>4 DEF InsertRow, Become, Fail
  <2>2. new \in r.rows /\ \A x \in r.rows : x = new \/ x \in rest
    BY <1>4
  <2>3. new \in r.found /\ r.found \in Discoveries[CaseOfRequest(r)][deployed]
    BY <1>1, <1>2, <2>2 DEF Found, Reconciling
  <2> HIDE DEF new, rest
  <2>4. /\ q.at = "insert_rows" /\ q.phase = r.phase /\ q.left = r.left /\ q.table = r.table
        /\ q.rows = rest
    BY <1>1, <1>2 DEF WorkerRecords
  <2> HIDE DEF q
  <2>5. findings' \union ties' = findings \union ties \union {new}
    BY <2>1 DEF WriteTable, TableOf
  <2>6. CASE row = new
    <3>1. CaseOfRequest(r) \in Cases
      BY <1>1, <1>2, CaseInHand DEF Marking
    <3>2. c = CaseOfRequest(r)
      BY <1>1, <2>3, <2>6, <3>1, FoundIsOfTheCase
    <3>3. row \in Fixture(c)
      BY <2>3, <2>6, <3>2, FixtureIsFound DEF IsDemo
    <3>4. QED
      BY <2>5, <2>6, <3>3 DEF Carries
  <2>7. CASE row # new
    <3>1. WillWrite(r, c, row) => WillWrite(q, c, row)
      BY <1>2, <2>2, <2>4, <2>7 DEF WillWrite, Dealt
    <3>2. QED
      BY <2>1, <2>5, <2>7, <3>1 DEF Carries, Right
  <2>8. QED
    BY <2>6, <2>7
<1>5. QED
  BY <1>3, <1>4

\* The steps of a request, by where it is in a reconciliation.
LEMMA BuildingSteps ==
  ASSUME NEW k \in Workers, Step(k), worker[k].at \in Building,
         ~WipeFindings(k), ~WipeTies(k), ~DeleteRows(k), ~InsertRow(k)
  PROVE  \/ WipeExplanations(k) \/ DeleteCase(k) \/ InsertCase(k) \/ ReconcileLoads(k)
         \/ OldIds(k) \/ DropExplanations(k) \/ SaveCollides(k)
BY DEF Step, At, Building, Reconciling, LookForCase, LookForMarker, DeleteMarker, InsertMarker,
       RouteTransition, RouteReconcile, RouteExplain, ExplainLoads, LoadFindings, LoadTies,
       NextObservation, LoadCached, Generate, GenerateFails, DeleteExplanation,
       InsertExplanation, Answer

\* Only InsertRow takes a step at the label of the inserts.
LEMMA InsertRowsAlone ==
  ASSUME NEW k \in Workers, Step(k), ~InsertRow(k)
  PROVE  worker[k].at # "insert_rows"
BY DEF Step, At, LookForCase, LookForMarker, DeleteMarker, InsertMarker, SaveCollides, SavesSubject,
       WipeFindings, WipeTies, WipeExplanations, DeleteCase, InsertCase, ReconcileLoads, OldIds,
       DeleteRows, DropExplanations,
       RouteTransition, RouteReconcile, RouteExplain, ExplainLoads, LoadFindings, LoadTies,
       NextObservation, LoadCached, Generate, GenerateFails, DeleteExplanation,
       InsertExplanation, Answer

\* A rebuild that does not break off is still at it.
LEMMA BuildingGoesOn ==
  ASSUME TypeInv, NEW k \in Workers, worker[k].phase = "build", ~Fail(k),
         \/ WipeExplanations(k) \/ DeleteCase(k) \/ InsertCase(k) \/ ReconcileLoads(k)
         \/ OldIds(k) \/ DropExplanations(k)
  PROVE  ~Become(k, Idle)
<1> DEFINE r == worker[k]
<1>1. r \in WorkerRecords /\ worker \in [Workers -> WorkerRecords]
  BY DEF TypeInv, Held, ExplanationsTypeOK
<1>2. worker'[k].at # "idle"
  <2>1. CASE AfterReconcile(k)
    <3> DEFINE rest == Tail(r.left)
               p == [r EXCEPT !.left = rest, !.at = "wipe_findings"]
               q == [r EXCEPT !.phase = "explain", !.left = DemoCases, !.at = "explain_loads"]
    <3>1. worker'[k] \in {p, q}
      BY <1>1, <2>1 DEF AfterReconcile, Become
    <3> HIDE DEF rest
    <3>2. p.at = "wipe_findings" /\ q.at = "explain_loads"
      BY <1>1 DEF WorkerRecords
    <3>3. QED
      BY <3>1, <3>2
  <2>2. CASE ReconcileLoads(k)
    <3> DEFINE target == IF cases[CaseIn(k)] \in RECONCILE_ALLOWED_STATES
                         THEN "worksheet" ELSE NoCase
               q(found) == [r EXCEPT !.at = "old_ids", !.table = "findings", !.found = found,
                                     !.target = target]
    <3>1. \E found : worker'[k] = q(found)
      BY <1>1, <2>2 DEF ReconcileLoads, Become
    <3> HIDE DEF target
    <3>2. \A found : q(found).at = "old_ids"
      BY <1>1 DEF WorkerRecords
    <3>3. QED
      BY <3>1, <3>2
  <2>3. CASE OldIds(k)
    <3> DEFINE new == {x \in r.found : x[1] \in IdsFor(k)}
               gone == IdsOf(OfCase(TableOf(k), CaseIn(k))) \ IdsOf(new)
               q == [r EXCEPT !.at = "delete_rows", !.rows = new, !.gone = gone]
    <3>1. worker'[k] = q
      BY <1>1, <2>3 DEF OldIds, Become
    <3> HIDE DEF new, gone
    <3>2. q.at = "delete_rows"
      BY <1>1 DEF WorkerRecords
    <3>3. QED
      BY <3>1, <3>2
  <2>4. CASE (InsertCase(k) \/ DropExplanations(k)) /\ ~AfterReconcile(k)
    <3> DEFINE p(label) == [r EXCEPT !.at = label]
               q == [r EXCEPT !.at = "old_ids", !.table = "ties", !.gone = {}]
    <3>1. worker'[k] \in {p("reconcile_loads"), p("delete_case"), q}
      BY <1>1, <2>4 DEF InsertCase, DropExplanations, GoTo, Become
    <3>2. /\ p("reconcile_loads").at = "reconcile_loads" /\ p("delete_case").at = "delete_case"
          /\ q.at = "old_ids"
      BY <1>1 DEF WorkerRecords
    <3>3. QED
      BY <3>1, <3>2
  <2>5. CASE WipeExplanations(k) \/ DeleteCase(k)
    BY <1>1, <2>5 DEF WipeExplanations, DeleteCase, GoTo, Become, WorkerRecords
  <2>6. QED
    BY <2>1, <2>2, <2>3, <2>4, <2>5
<1>3. QED
  BY <1>1, <1>2 DEF Become, Idle

\* Every step carries on, unless it breaks off what it was writing.
LEMMA StepCarriesRows ==
  ASSUME TypeInv, NEW k \in Workers, NEW c \in ToSet(DemoCases), NEW row \in Rows,
         CaseOf[row[1]] = c, Step(k), ~(Fail(k) /\ Writes(k))
  PROVE  Carries(k, c, row)
<1> DEFINE r == worker[k]
<1>1. r \in WorkerRecords /\ Placed(r)
  BY DEF TypeInv, Held
<1>2. CASE DeleteRows(k)
  BY <1>2, DeleteRowsCarries
<1>3. CASE InsertRow(k)
  <2>1. r.at = "insert_rows" /\ (Become(k, Idle) => Fail(k))
    <3>1. r.at = "insert_rows"
      BY <1>3 DEF InsertRow, At
    <3>2. ASSUME Become(k, Idle), ~Fail(k) PROVE FALSE
      <4>1. worker'[k] = Idle
        BY <3>2 DEF Become, TypeInv, ExplanationsTypeOK
      <4>2. \E label, rest : \/ Become(k, [r EXCEPT !.at = "drop_explanations"])
                             \/ Become(k, [r EXCEPT !.rows = rest])
        BY <1>3, <3>2 DEF InsertRow, GoTo
      <4>3. worker'[k].at # "idle"
        BY <1>1, <3>1, <4>2 DEF Become, TypeInv, ExplanationsTypeOK, WorkerRecords
      <4>4. QED
        BY <4>1, <4>3 DEF Idle
    <3>3. QED
      BY <3>1, <3>2
  <2>2. ~Become(k, Idle)
    BY <2>1 DEF Writes
  <2>3. QED
    BY <1>3, <2>2, InsertRowCarries
<1>4. CASE WipeFindings(k) \/ WipeTies(k)
  <2>1. r.phase = "build" /\ ~Become(k, Idle)
    <3>1. r.at \in {"wipe_findings", "wipe_ties"} /\ \E label : /\ label # "idle"
             /\ Become(k, [r EXCEPT !.at = label])
      BY <1>4 DEF WipeFindings, WipeTies, At, GoTo
    <3>2. worker'[k].at # "idle"
      BY <1>1, <3>1 DEF Become, TypeInv, ExplanationsTypeOK, WorkerRecords
    <3>3. r.phase = "build"
      BY <1>1, <3>1 DEF Placed, WorkerRecords, OnlyRebuilding, Retelling, InHand, Explaining, Marking
    <3>4. QED
      BY <3>2, <3>3 DEF Become, TypeInv, ExplanationsTypeOK, Idle
  <2>2. QED
    BY <1>4, <2>1, RebuildCarries
<1>5. CASE ~DeleteRows(k) /\ ~InsertRow(k) /\ ~WipeFindings(k) /\ ~WipeTies(k)
  <2>1. UNCHANGED <<findings, ties>>
    BY <1>5, TablesStay
  <2>2. CASE r.phase # "build"
    <3>1. r.at # "insert_rows"
      BY <1>1, <1>5, InsertRowsAlone
    <3>2. QED
      BY <2>1, <2>2, <3>1, CarriesOn
  <2>3. CASE r.phase = "build"
    <3>1. r.at \in Building
      BY <1>1, <2>3 DEF Placed
    <3>2. \/ WipeExplanations(k) \/ DeleteCase(k) \/ InsertCase(k) \/ ReconcileLoads(k)
          \/ OldIds(k) \/ DropExplanations(k) \/ SaveCollides(k)
      BY <1>5, <3>1, BuildingSteps
    <3>3. ~Fail(k) /\ ~SaveCollides(k)
      BY <2>3 DEF Writes, SaveCollides
    <3>4. ~Become(k, Idle)
      BY <2>3, <3>2, <3>3, BuildingGoesOn
    <3>5. QED
      BY <2>3, <3>2, <3>3, <3>4, RebuildCarries
  <2>4. QED
    BY <2>2, <2>3
<1>6. QED
  BY <1>2, <1>3, <1>4, <1>5

\* The fixture is that of the version deployed.
LEMMA FixtureStays ==
  ASSUME deployed' = deployed, NEW c
  PROVE  Fixture(c)' = Fixture(c)
BY DEF Fixture

\* A row that is not right of a demo case that is being explained is still to
\* be written, by another rebuild; which explains it then.
LEMMA AnotherWrites ==
  ASSUME TypeInv, Lone, Owed, RowsAreSeenTo, NEW k \in Workers, worker[k].phase = "explain",
         NEW c \in ToSet(DemoCases), NEW row \in Rows, CaseOf[row[1]] = c, ~Right(c, row), NEW id
  PROVE  \E j \in Workers \ {k} : WillExplain(worker[j], c, id)
<1>1. PICK j \in Workers : WillWrite(worker[j], c, row)
  BY DEF RowsAreSeenTo
<1>2. \A i \in Workers : worker[i] \in WorkerRecords /\ Placed(worker[i])
  BY DEF TypeInv, Held
<1>3. worker[j].phase = "build" \/ (worker[j].phase = "route" /\ worker[j].at = "insert_rows")
  BY <1>1, <1>2, PhaseMeansBusy DEF WillWrite
<1>4. CASE worker[j].phase = "build"
  BY <1>4 DEF WillExplain
<1>5. CASE worker[j].phase = "route" /\ worker[j].at = "insert_rows"
  <2>1. worker[j].asked.op = "reconcile"
    BY <1>2, <1>5 DEF Placed, Reconciling
  <2>2. worker[k].at # "idle" /\ worker[j].at # "idle" /\ j # k
    BY <1>2, <1>5, PhaseMeansBusy
  <2>3. CASE ~spoiled
    BY <2>1, <2>2, <2>3 DEF Lone
  <2>4. CASE spoiled
    <3>1. PICK i \in Workers : worker[i].phase # "route" /\ worker[i].alone
      BY <2>4 DEF Owed
    <3>2. worker[i].at # "idle"
      BY <1>2, <3>1, PhaseMeansBusy
    <3>3. i = j /\ i = k
      BY <2>2, <3>1, <3>2 DEF Lone
    <3>4. QED
      BY <2>2, <3>3
  <2>5. QED
    BY <2>3, <2>4
<1>6. QED
  BY <1>3, <1>4, <1>5

\* What a step does about an explanation of a demo case: it is there afterwards,
\* or this or another request will see to it.
Retells(k, c, id) ==
  Explains(c, id) \/ WillExplain(worker[k], c, id) =>
    \/ \E x \in explanations' : x.of = id /\ x.hash = DocumentOf(id, Fixture(c))
    \/ WillExplain(worker'[k], c, id)
    \/ \E j \in Workers \ {k} : WillExplain(worker[j], c, id)

\* A step that takes back no explanation and no intention to write one tells all that was told.
LEMMA RetellsOn ==
  ASSUME NEW k \in Workers, NEW c, NEW id, explanations \subseteq explanations',
         WillExplain(worker[k], c, id) => WillExplain(worker'[k], c, id)
  PROVE  Retells(k, c, id)
BY DEF Retells, Explains, Cached

\* The steps of a rebuild that do not break it off.
LEMMA BuildRetells ==
  ASSUME TypeInv, NEW k \in Workers, Step(k), worker[k].phase = "build",
         ~(Fail(k) /\ Writes(k)), NEW c \in ToSet(DemoCases), NEW id
  PROVE  Retells(k, c, id)
<1> DEFINE r == worker[k]
<1>1. r \in WorkerRecords /\ Placed(r) /\ worker \in [Workers -> WorkerRecords]
  BY DEF TypeInv, Held, ExplanationsTypeOK
<1>2. r.at \in Building /\ ~Fail(k)
  BY <1>1 DEF Placed, Writes
<1>3. CASE AfterReconcile(k)
  <2> DEFINE rest == Tail(r.left)
             p == [r EXCEPT !.left = rest, !.at = "wipe_findings"]
             q == [r EXCEPT !.phase = "explain", !.left = DemoCases, !.at = "explain_loads"]
  <2>1. worker'[k] \in {p, q}
    BY <1>1, <1>3 DEF AfterReconcile, Become
  <2> HIDE DEF rest
  <2>2. /\ p.phase = "build"
        /\ q.at = "explain_loads" /\ q.phase = "explain" /\ q.left = DemoCases
    BY <1>1 DEF WorkerRecords
  <2>3. WillExplain(p, c, id) /\ WillExplain(q, c, id)
    BY <2>2 DEF WillExplain
  <2>4. QED
    BY <2>1, <2>3 DEF Retells
<1>4. CASE ~AfterReconcile(k)
  <2>1. worker'[k].phase = "build"
    <3>1. CASE ReconcileLoads(k)
      <4> DEFINE target == IF cases[CaseIn(k)] \in RECONCILE_ALLOWED_STATES
                           THEN "worksheet" ELSE NoCase
                 q(found) == [r EXCEPT !.at = "old_ids", !.table = "findings", !.found = found,
                                       !.target = target]
      <4>1. \E found : worker'[k] = q(found)
        BY <1>1, <1>2, <3>1 DEF ReconcileLoads, Become
      <4> HIDE DEF target
      <4>2. \A found : q(found).phase = "build"
        BY <1>1 DEF WorkerRecords
      <4>3. QED
        BY <4>1, <4>2
    <3>2. CASE OldIds(k)
      <4> DEFINE new == {x \in r.found : x[1] \in IdsFor(k)}
                 gone == IdsOf(OfCase(TableOf(k), CaseIn(k))) \ IdsOf(new)
                 q == [r EXCEPT !.at = "delete_rows", !.rows = new, !.gone = gone]
      <4>1. worker'[k] = q
        BY <1>1, <3>2 DEF OldIds, Become
      <4> HIDE DEF new, gone
      <4>2. q.phase = "build"
        BY <1>1 DEF WorkerRecords
      <4>3. QED
        BY <4>1, <4>2
    <3>3. CASE InsertRow(k)
      <4> DEFINE rest == r.rows \ {CHOOSE x \in r.rows : TRUE}
                 p == [r EXCEPT !.at = "drop_explanations"]
                 q == [r EXCEPT !.rows = rest]
      <4>1. worker'[k] \in {p, q}
        BY <1>1, <1>2, <3>3 DEF InsertRow, GoTo, Become
      <4> HIDE DEF rest
      <4>2. p.phase = "build" /\ q.phase = "build"
        BY <1>1 DEF WorkerRecords
      <4>3. QED
        BY <4>1, <4>2
    <3>4. CASE DropExplanations(k) \/ WipeExplanations(k)
      <4> DEFINE p == [r EXCEPT !.at = "old_ids", !.table = "ties", !.gone = {}]
                 q == [r EXCEPT !.at = "delete_case"]
                 s == [r EXCEPT !.at = "delete_case", !.target = "intake"]
      <4>1. worker'[k] \in {p, q, s}
        BY <1>1, <1>4, <3>4 DEF DropExplanations, WipeExplanations, GoTo, Become
      <4>2. p.phase = "build" /\ q.phase = "build" /\ s.phase = "build"
        BY <1>1 DEF WorkerRecords
      <4>3. QED
        BY <4>1, <4>2
    <3>5. CASE \/ WipeFindings(k) \/ WipeTies(k) \/ DeleteCase(k) \/ DeleteRows(k)
               \/ InsertCase(k)
      <4>1. \E label : worker'[k] = [r EXCEPT !.at = label]
        BY <1>1, <1>2, <1>4, <3>5
           DEF WipeFindings, WipeTies, DeleteCase, DeleteRows, InsertCase, GoTo, Become
      <4>2. \A label : [r EXCEPT !.at = label].phase = "build"
        BY <1>1 DEF WorkerRecords
      <4>3. QED
        BY <4>1, <4>2
    <3>6. CASE SaveCollides(k)
      BY <1>2, <3>6 DEF SaveCollides
    <3>7. QED
      BY <1>2, <3>1, <3>2, <3>3, <3>4, <3>5, <3>6, BuildingSteps
  <2>2. QED
    BY <2>1 DEF Retells, WillExplain
<1>5. QED
  BY <1>3, <1>4

\* No explanation of a demo case's present observations is dropped.
LEMMA DropRetells ==
  ASSUME TypeInv, NEW k \in Workers, DropExplanations(k), worker[k].phase = "route",
         NEW c \in ToSet(DemoCases), NEW id \in IdsOf(Fixture(c))
  PROVE  Retells(k, c, id)
<1> DEFINE r == worker[k]
<1>1. r \in WorkerRecords /\ Placed(r) /\ Found(r) /\ r.at = "drop_explanations"
  BY DEF TypeInv, Held, DropExplanations, At
<1>2. id \notin r.gone
  <2>1. SUFFICES ASSUME id \in r.gone PROVE FALSE
    OBVIOUS
  <2>2. /\ CaseOf[id] = CaseOfRequest(r) /\ id \notin IdsOf(r.found)
        /\ r.found \in Discoveries[CaseOfRequest(r)][deployed]
    BY <1>1, <2>1 DEF Found, Reconciling
  <2>3. CaseOf[id] = c
    BY FixtureIsFound DEF IdsOf, IsDemo
  <2>4. r.found = Fixture(c)
    BY <2>2, <2>3, FixtureIsFound DEF IsDemo
  <2>5. QED
    BY <2>2, <2>4
<1>3. ~WillExplain(r, c, id)
  BY <1>1 DEF WillExplain
<1>4. explanations' = {x \in explanations : x.of \notin r.gone}
  BY DEF DropExplanations
<1>5. QED
  BY <1>2, <1>3, <1>4 DEF Retells, Explains, Cached

\* An explanation is deleted to be inserted anew.
LEMMA DeleteRetells ==
  ASSUME TypeInv, NEW k \in Workers, DeleteExplanation(k), NEW c, NEW id
  PROVE  Retells(k, c, id)
<1> DEFINE r == worker[k]
           q == [r EXCEPT !.at = "insert_explanation"]
<1>1. r \in WorkerRecords /\ worker \in [Workers -> WorkerRecords] /\ r.at = "delete_explanation"
  BY DEF TypeInv, Held, ExplanationsTypeOK, DeleteExplanation, At
<1>2. worker'[k] = q
  BY <1>1 DEF DeleteExplanation, GoTo, Become
<1>3. /\ q.at = "insert_explanation" /\ q.phase = r.phase /\ q.left = r.left
      /\ q.loaded = r.loaded /\ q.todo = r.todo
  BY <1>1 DEF WorkerRecords
<1> HIDE DEF q
<1>4. WillExplain(r, c, id) => WillExplain(q, c, id)
  BY <1>1, <1>3 DEF WillExplain, InHand, Explaining
<1>5. CASE id = Head(r.todo) /\ DocumentOf(id, r.loaded) = DocumentOf(id, Fixture(c))
  BY <1>2, <1>3, <1>5 DEF Retells, WillExplain
<1>6. CASE ~(id = Head(r.todo) /\ DocumentOf(id, r.loaded) = DocumentOf(id, Fixture(c)))
  <2>1. \A x \in explanations : x.of = id /\ x.hash = DocumentOf(id, Fixture(c)) =>
          x \in explanations'
    BY <1>6 DEF DeleteExplanation, Cached, Observation, HashInHand, EvidenceHash
  <2>2. QED
    BY <1>2, <1>4, <2>1 DEF Retells, Explains, Cached
<1>7. QED
  BY <1>5, <1>6

\* What is explained was the first still to do.
LEMMA ExplainedRetells ==
  ASSUME TypeInv, NEW k \in Workers, Sound(worker[k]), worker[k].at \in Explaining,
         NEW row, Explained(k, row), explanations \subseteq explanations',
         \E x \in explanations' : x.of = Observation(k) /\ x.hash = HashInHand(k),
         NEW c, NEW id
  PROVE  Retells(k, c, id)
<1> DEFINE r == worker[k]
<1>1. r \in WorkerRecords /\ worker \in [Workers -> WorkerRecords] /\ Placed(r)
  BY DEF TypeInv, Held, ExplanationsTypeOK
<1>2. CASE id = Head(r.todo) /\ DocumentOf(id, r.loaded) = DocumentOf(id, Fixture(c))
  BY <1>2 DEF Retells, Observation, HashInHand, EvidenceHash
<1>3. CASE ~(id = Head(r.todo) /\ DocumentOf(id, r.loaded) = DocumentOf(id, Fixture(c)))
  <2>1. CASE r.phase # "explain"
    <3>1. ~WillExplain(r, c, id)
      <4>1. r.phase # "build"
        BY <1>1 DEF Placed, Explaining, Building, Reconciling
      <4>2. QED
        BY <1>3, <2>1, <4>1 DEF WillExplain
    <3>2. QED
      BY <3>1, RetellsOn
  <2>2. CASE r.phase = "explain"
    <3> DEFINE rest == Tail(r.todo)
               q == [r EXCEPT !.at = "next_observation", !.todo = rest, !.attempt = 0,
                              !.sentence = NoSentence]
    <3>1. worker'[k] = q
      BY <1>1, <2>2 DEF Explained, Become
    <3>2. \A x : x \in ToSet(r.todo) <=> x = Head(r.todo) \/ x \in ToSet(rest)
      BY ObservationInHand, HeadAndTail
    <3> HIDE DEF rest
    <3>3. /\ q.at = "next_observation" /\ q.phase = r.phase /\ q.left = r.left
          /\ q.loaded = r.loaded /\ q.todo = rest
      BY <1>1 DEF WorkerRecords
    <3> HIDE DEF q
    <3>4. WillExplain(r, c, id) => WillExplain(q, c, id)
      BY <1>3, <2>2, <3>2, <3>3 DEF WillExplain, InHand, Explaining
    <3>5. QED
      BY <3>1, <3>4, RetellsOn
  <2>3. QED
    BY <2>1, <2>2
<1>4. QED
  BY <1>2, <1>3

\* Storing an explanation loses no other one that is stored or about to be.
LEMMA InsertRetells ==
  ASSUME TypeInv, NEW k \in Workers, Sound(worker[k]), ~Fail(k),
         InsertExplanation(k), NEW c, NEW id
  PROVE  Retells(k, c, id)
<1> DEFINE row == [of |-> Observation(k), hash |-> HashInHand(k), sentence |-> worker[k].sentence,
                   about |-> DocumentOf(Observation(k), worker[k].loaded)]
<1>1. /\ worker[k].at = "insert_explanation" /\ Explained(k, row)
      /\ explanations' = explanations \union {row}
  BY DEF InsertExplanation, At
<1>2. row.of = Observation(k) /\ row.hash = HashInHand(k)
  OBVIOUS
<1> HIDE DEF row
<1>3. QED
  BY <1>1, <1>2, ExplainedRetells DEF Explaining

\* The case that is to be explained is loaded.
LEMMA LoadFindingsRetells ==
  ASSUME TypeInv, Lone, Owed, RowsAreSeenTo, NEW k \in Workers, worker[k].phase = "explain",
         LoadFindings(k), NEW c \in ToSet(DemoCases), NEW id
  PROVE  Retells(k, c, id)
<1> DEFINE r == worker[k]
           loaded == OfCase(findings, CaseIn(k))
           q == [r EXCEPT !.at = "load_ties", !.loaded = loaded]
           mine == {row \in Fixture(c) : row[1] \in FindingIds}
<1>1. /\ r \in WorkerRecords /\ worker \in [Workers -> WorkerRecords] /\ Placed(r)
      /\ findings \subseteq FindingIds \X Recitations /\ ties \subseteq TieIds \X Recitations
      /\ FindingIds \intersect TieIds = {}
  BY InputAssumption, Zenon DEF TypeInv, Held, ExplanationsTypeOK
<1>2. r.at = "load_findings" /\ worker'[k] = q /\ explanations' = explanations
  BY <1>1 DEF LoadFindings, At, Become, tables
<1> HIDE DEF loaded
<1>3. /\ q.at = "load_ties" /\ q.phase = "explain" /\ q.left = r.left /\ q.loaded = loaded
  BY <1>1 DEF WorkerRecords
<1> HIDE DEF q
<1>4. CASE c # Head(r.left) \/ c \notin ToSet(r.left)
  <2>1. WillExplain(r, c, id) => WillExplain(q, c, id)
    BY <1>2, <1>3, <1>4 DEF WillExplain, InHand, Explaining
  <2>2. QED
    BY <1>2, <2>1, RetellsOn
<1>5. CASE c = Head(r.left) /\ c \in ToSet(r.left) /\ loaded = mine
  <2>1. WillExplain(q, c, id)
    BY <1>3, <1>5 DEF WillExplain
  <2>2. QED
    BY <1>2, <2>1 DEF Retells
<1>6. CASE c = Head(r.left) /\ loaded # mine
  <2>1. CaseIn(k) = c
    BY <1>6 DEF CaseIn
  <2>2. PICK row : ~(row \in loaded <=> row \in mine)
    BY <1>6
  <2>3. row \in Rows /\ CaseOf[row[1]] = c /\ row[1] \in FindingIds
    <3>1. CASE row \in loaded
      BY <1>1, <2>1, <3>1 DEF loaded, OfCase, Rows, Ids
    <3>2. CASE row \in mine
      BY <3>2, FixtureIsFound DEF IsDemo
    <3>3. QED
      BY <2>2, <3>1, <3>2
  <2>4. row \in loaded <=> row \in findings
    BY <2>1, <2>3 DEF loaded, OfCase
  <2>5. row \notin ties
    BY <1>1, <2>3
  <2>6. ~Right(c, row)
    BY <2>2, <2>3, <2>4, <2>5 DEF Right
  <2>7. QED
    BY <2>3, <2>6, AnotherWrites DEF Retells
<1>7. QED
  BY <1>4, <1>5, <1>6

\* Once the ties are read, each finding of a demo case is among the observations to explain.
LEMMA LoadTiesRetells ==
  ASSUME TypeInv, Lone, Owed, RowsAreSeenTo, NEW k \in Workers, worker[k].phase = "explain",
         LoadTies(k), NEW c \in ToSet(DemoCases), NEW id \in IdsOf(Fixture(c))
  PROVE  Retells(k, c, id)
<1> DEFINE r == worker[k]
           loaded == r.loaded \union OfCase(ties, CaseIn(k))
           todo == SetToSeq(IdsOf(loaded))
           q == [r EXCEPT !.at = "next_observation", !.loaded = loaded, !.todo = todo]
           mine == {row \in Fixture(c) : row[1] \in FindingIds}
<1>1. /\ r \in WorkerRecords /\ worker \in [Workers -> WorkerRecords] /\ Placed(r) /\ Loaded(r)
      /\ findings \subseteq FindingIds \X Recitations /\ ties \subseteq TieIds \X Recitations
      /\ FindingIds \intersect TieIds = {}
  BY InputAssumption, Zenon DEF TypeInv, Held, ExplanationsTypeOK
<1>2. r.at = "load_ties" /\ worker'[k] = q /\ explanations' = explanations
  BY <1>1 DEF LoadTies, At, Become, tables
<1>3. IsFiniteSet(Fixture(c))
  BY FixtureIsFound, FoundIsOfTheCase DEF IsDemo, TypeInv, ExplanationsTypeOK
<1> HIDE DEF loaded, todo
<1>4. /\ q.at = "next_observation" /\ q.phase = "explain" /\ q.left = r.left /\ q.loaded = loaded
      /\ q.todo = todo
  BY <1>1 DEF WorkerRecords
<1> HIDE DEF q
<1>5. CASE c # Head(r.left) \/ ~WillExplain(r, c, id)
  <2>1. WillExplain(r, c, id) => WillExplain(q, c, id)
    BY <1>2, <1>4, <1>5 DEF WillExplain, InHand, Explaining
  <2>2. QED
    BY <1>2, <2>1, RetellsOn
<1>6. CASE c = Head(r.left) /\ WillExplain(r, c, id) /\ loaded = Fixture(c)
  <2>1. todo = SetToSeq(IdsOf(Fixture(c))) /\ IsFiniteSet(IdsOf(Fixture(c)))
    BY <1>3, <1>6, IdsAreFinite DEF todo
  <2>2. id \in ToSet(todo)
    BY <2>1, SetAsSequence
  <2>3. WillExplain(q, c, id)
    BY <1>4, <1>6, <2>2 DEF WillExplain, InHand
  <2>4. QED
    BY <1>2, <2>3 DEF Retells
<1>7. CASE c = Head(r.left) /\ WillExplain(r, c, id) /\ loaded # Fixture(c)
  <2>1. CaseIn(k) = c
    BY <1>7 DEF CaseIn
  <2>2. r.loaded = mine
    BY <1>2, <1>7 DEF WillExplain, InHand, Explaining
  <2>3. PICK row : ~(row \in loaded <=> row \in Fixture(c))
    BY <1>7
  <2>4. row \in Rows /\ CaseOf[row[1]] = c
    <3>1. CASE row \in OfCase(ties, c)
      BY <1>1, <3>1 DEF OfCase, Rows, Ids
    <3>2. CASE row \in Fixture(c)
      BY <3>2, FixtureIsFound DEF IsDemo
    <3>3. QED
      BY <2>1, <2>2, <2>3, <3>1, <3>2 DEF loaded
  <2>5. row[1] \notin FindingIds
    BY <1>1, <2>1, <2>2, <2>3 DEF loaded, OfCase
  <2>6. row \notin findings /\ row \notin mine
    BY <1>1, <2>5
  <2>7. row \in loaded <=> row \in ties
    BY <2>1, <2>2, <2>4, <2>6 DEF loaded, OfCase
  <2>8. ~Right(c, row)
    BY <2>3, <2>6, <2>7 DEF Right
  <2>9. QED
    BY <2>4, <2>8, AnotherWrites DEF Retells
<1>8. QED
  BY <1>5, <1>6, <1>7

\* None is left of a case, and the rebuild goes on to the next.
LEMMA NextRetells ==
  ASSUME TypeInv, NEW k \in Workers, worker[k].phase = "explain", NextObservation(k),
         NEW c, NEW id
  PROVE  Retells(k, c, id)
<1> DEFINE r == worker[k]
<1>1. r \in WorkerRecords /\ worker \in [Workers -> WorkerRecords] /\ Placed(r)
  BY DEF TypeInv, Held, ExplanationsTypeOK
<1>2. r.at = "next_observation" /\ explanations' = explanations
  BY DEF NextObservation, At, tables
<1>3. CASE r.todo # <<>>
  <2> DEFINE q == [r EXCEPT !.at = "load_cached"]
  <2>1. worker'[k] = q
    BY <1>1, <1>3 DEF NextObservation, GoTo, Become
  <2>2. /\ q.at = "load_cached" /\ q.phase = r.phase /\ q.left = r.left /\ q.loaded = r.loaded
        /\ q.todo = r.todo
    BY <1>1 DEF WorkerRecords
  <2> HIDE DEF q
  <2>3. WillExplain(r, c, id) => WillExplain(q, c, id)
    BY <1>2, <2>2 DEF WillExplain, InHand, Explaining
  <2>4. QED
    BY <1>2, <2>1, <2>3, RetellsOn
<1>4. CASE r.todo = <<>>
  <2> DEFINE rest == Tail(r.left)
  <2>1. ToSet(r.todo) = {}
    <3> DEFINE none == r.todo
    <3>1. none \in Seq(Ids) /\ Len(none) = 0
      BY <1>1, <1>4 DEF WorkerRecords
    <3> HIDE DEF none
    <3>2. DOMAIN none = {}
      BY <3>1
    <3>3. ToSet(none) = {}
      BY <3>2 DEF ToSet
    <3>4. QED
      BY <3>3 DEF none
  <2>2. /\ rest \in Seq(ToSet(DemoCases)) /\ Head(r.left) \notin ToSet(rest)
        /\ \A d : d \in ToSet(r.left) <=> d = Head(r.left) \/ d \in ToSet(rest)
    BY <1>1, <1>2, CasesLeft DEF Marking
  <2>3. WillExplain(r, c, id) => c \in ToSet(rest)
    BY <1>2, <2>1, <2>2 DEF WillExplain
  <2>4. CASE rest # <<>>
    <3> DEFINE q == [r EXCEPT !.left = rest, !.at = "explain_loads", !.loaded = {}]
    <3>1. worker'[k] = q
      BY <1>1, <1>4, <2>4 DEF NextObservation, Become
    <3> HIDE DEF rest
    <3>2. q.at = "explain_loads" /\ q.phase = r.phase /\ q.left = rest
      BY <1>1 DEF WorkerRecords
    <3> HIDE DEF q
    <3>3. WillExplain(r, c, id) => WillExplain(q, c, id)
      BY <2>3, <3>2 DEF WillExplain
    <3>4. QED
      BY <1>2, <3>1, <3>3, RetellsOn
  <2>5. CASE rest = <<>>
    <3> HIDE DEF rest
    <3>1. Len(rest) = 0
      BY <2>5
    <3>2. DOMAIN rest = {}
      <4>1. rest \in Seq(ToSet(DemoCases))
        BY <2>2
      <4>2. QED
        BY <3>1, <4>1
    <3>3. c \notin ToSet(rest)
      BY <3>2 DEF ToSet
    <3>4. QED
      BY <1>2, <2>3, <3>3, RetellsOn
  <2>6. QED
    BY <2>4, <2>5
<1>5. QED
  BY <1>3, <1>4

\* Looking an explanation up skips it only when it is stored for the same evidence.
LEMMA LoadCachedRetells ==
  ASSUME TypeInv, NEW k \in Workers, Sound(worker[k]), worker[k].phase = "explain",
         LoadCached(k), NEW c, NEW id
  PROVE  Retells(k, c, id)
<1> DEFINE r == worker[k]
           cached == Cached(Observation(k), HashInHand(k))
           row == CHOOSE x \in cached : TRUE
<1>1. r \in WorkerRecords /\ worker \in [Workers -> WorkerRecords]
  BY DEF TypeInv, Held, ExplanationsTypeOK
<1>2. r.at = "load_cached" /\ explanations' = explanations
  BY DEF LoadCached, At, tables
<1>3. CASE cached # {}
  <2>1. \E x \in explanations' : x.of = Observation(k) /\ x.hash = HashInHand(k)
    BY <1>2, <1>3 DEF Cached
  <2>2. Explained(k, row)
    BY <1>3 DEF LoadCached
  <2> HIDE DEF row
  <2>3. QED
    BY <1>2, <2>1, <2>2, ExplainedRetells DEF Explaining
<1>4. CASE cached = {}
  <2> DEFINE q == [r EXCEPT !.at = "generate"]
  <2>1. worker'[k] = q
    BY <1>1, <1>4 DEF LoadCached, GoTo, Become
  <2>2. /\ q.at = "generate" /\ q.phase = r.phase /\ q.left = r.left /\ q.loaded = r.loaded
        /\ q.todo = r.todo
    BY <1>1 DEF WorkerRecords
  <2> HIDE DEF q
  <2>3. WillExplain(r, c, id) => WillExplain(q, c, id)
    BY <1>2, <2>2 DEF WillExplain, InHand, Explaining
  <2>4. QED
    BY <1>2, <2>1, <2>3, RetellsOn
<1>5. QED
  BY <1>3, <1>4

\* Drafting leads to the statements that store the draft.
LEMMA GenerateRetells ==
  ASSUME TypeInv, NEW k \in Workers, worker[k].phase = "explain", Generate(k), NEW c, NEW id
  PROVE  Retells(k, c, id)
<1> DEFINE r == worker[k]
<1>1. r \in WorkerRecords /\ worker \in [Workers -> WorkerRecords]
  BY DEF TypeInv, Held, ExplanationsTypeOK
<1>2. r.at = "generate" /\ explanations' = explanations
  BY DEF Generate, At, tables
<1>3. \E response, attempt :
         worker'[k] \in {[r EXCEPT !.at = "delete_explanation", !.sentence = response],
                         [r EXCEPT !.attempt = attempt], [r EXCEPT !.at = "delete_explanation"]}
  BY <1>1 DEF Generate, GoTo, Become
<1>4. /\ worker'[k].at \in {"generate", "delete_explanation"} /\ worker'[k].phase = r.phase
      /\ worker'[k].left = r.left /\ worker'[k].loaded = r.loaded /\ worker'[k].todo = r.todo
  BY <1>1, <1>2, <1>3 DEF WorkerRecords
<1>5. WillExplain(r, c, id) => WillExplain(worker'[k], c, id)
  BY <1>2, <1>4 DEF WillExplain, InHand, Explaining
<1>6. QED
  BY <1>2, <1>5, RetellsOn

\* The reads of an explanation request lose no explanation that is owed.
LEMMA ExplainLoadsRetells ==
  ASSUME TypeInv, NEW k \in Workers, worker[k].phase = "explain", ExplainLoads(k), ~Fail(k),
         NEW c, NEW id
  PROVE  Retells(k, c, id)
<1> DEFINE r == worker[k]
           q == [r EXCEPT !.at = "load_findings"]
<1>1. r \in WorkerRecords /\ worker \in [Workers -> WorkerRecords]
  BY DEF TypeInv, Held, ExplanationsTypeOK
<1>2. r.at = "explain_loads" /\ explanations' = explanations /\ worker'[k] = q
  BY <1>1 DEF ExplainLoads, At, tables, GoTo, Become
<1>3. q.at = "load_findings" /\ q.phase = r.phase /\ q.left = r.left
  BY <1>1 DEF WorkerRecords
<1> HIDE DEF q
<1>4. WillExplain(r, c, id) => WillExplain(q, c, id)
  BY <1>2, <1>3 DEF WillExplain, InHand, Explaining
<1>5. QED
  BY <1>2, <1>4, RetellsOn

\* Every step that breaks nothing off retells.
LEMMA StepRetells ==
  ASSUME TypeInv, Inv, Lone, Owed, RowsAreSeenTo, NEW k \in Workers, Step(k),
         ~(Fail(k) /\ Writes(k)), NEW c \in ToSet(DemoCases), NEW id \in IdsOf(Fixture(c))
  PROVE  Retells(k, c, id)
<1> DEFINE r == worker[k]
<1>1. r \in WorkerRecords /\ Placed(r) /\ Sound(r)
  BY DEF TypeInv, Held, Inv
<1>2. CASE r.phase = "build"
  BY <1>2, BuildRetells
<1>3. CASE r.phase = "explain" /\ r.at \in Retelling
  <2>1. ~Fail(k)
    BY <1>3 DEF Writes
  <2>2. \/ ExplainLoads(k) \/ LoadFindings(k) \/ LoadTies(k) \/ NextObservation(k) \/ LoadCached(k)
        \/ Generate(k) \/ DeleteExplanation(k) \/ InsertExplanation(k)
    BY <1>3, <2>1
       DEF Step, At, Retelling, InHand, Explaining, LookForCase, LookForMarker, WipeFindings,
           WipeTies, WipeExplanations, SaveCollides, DeleteCase, InsertCase, DeleteMarker,
           InsertMarker, RouteTransition, RouteReconcile, ReconcileLoads, OldIds, DeleteRows,
           InsertRow, DropExplanations, RouteExplain, GenerateFails, Answer
  <2>3. QED
    BY <1>1, <1>3, <2>1, <2>2, ExplainLoadsRetells, LoadFindingsRetells, LoadTiesRetells,
       NextRetells, LoadCachedRetells, GenerateRetells, DeleteRetells, InsertRetells
<1>4. CASE r.phase = "explain" /\ r.at \in Marking
  <2>1. DeleteMarker(k) \/ InsertMarker(k)
    BY <1>4 DEF Step, At, Marking, LookForCase, LookForMarker, WipeFindings, WipeTies,
                WipeExplanations, SaveCollides, SavesSubject, DeleteCase, InsertCase, RouteTransition,
                RouteReconcile, ReconcileLoads, OldIds, DeleteRows, InsertRow, DropExplanations,
                RouteExplain, GenerateFails, Answer, ExplainLoads, LoadFindings, LoadTies,
                NextObservation, LoadCached, Generate, DeleteExplanation, InsertExplanation
  <2>2. explanations' = explanations
    BY <2>1 DEF DeleteMarker, InsertMarker
  <2>3. c \notin ToSet(r.left)
    <3> DEFINE none == r.left
    <3>1. none \in Seq(ToSet(DemoCases)) /\ none = <<>>
      BY <1>1, <1>4 DEF WorkerRecords, Placed
    <3> HIDE DEF none
    <3>2. DOMAIN none = {}
      BY <3>1
    <3>3. c \notin ToSet(none)
      BY <3>2 DEF ToSet
    <3>4. QED
      BY <3>3 DEF none
  <2>4. ~WillExplain(r, c, id)
    BY <1>4, <2>3 DEF WillExplain, Marking, InHand, Explaining
  <2>5. QED
    BY <2>2, <2>4, RetellsOn
<1>5. CASE r.phase = "route"
  <2>1. CASE InsertExplanation(k)
    <3>1. ~Fail(k)
      BY <2>1 DEF Writes, InsertExplanation, At
    <3>2. QED
      BY <1>1, <2>1, <3>1, InsertRetells
  <2>2. CASE DropExplanations(k)
    BY <1>5, <2>2, DropRetells
  <2>3. CASE DeleteExplanation(k)
    BY <2>3, DeleteRetells
  <2>4. CASE ~InsertExplanation(k) /\ ~DropExplanations(k) /\ ~DeleteExplanation(k)
    <3>1. ~WipeExplanations(k)
      BY <1>1, <1>5 DEF WipeExplanations, At, Placed, OnlyRebuilding
    <3>2. explanations \subseteq explanations'
      BY <2>4, <3>1, ExplanationsGo
    <3>3. r.at # "insert_explanation"
      BY <2>4
         DEF Step, At, LookForCase, LookForMarker, WipeFindings, WipeTies,
             WipeExplanations, SaveCollides, SavesSubject, DeleteCase, InsertCase, RouteTransition,
             RouteReconcile, ReconcileLoads, OldIds, DeleteRows, InsertRow,
             RouteExplain, GenerateFails, Answer, ExplainLoads, LoadFindings, LoadTies,
             NextObservation, LoadCached, Generate, DeleteMarker, InsertMarker
    <3>4. ~WillExplain(r, c, id)
      BY <1>5, <3>3 DEF WillExplain
    <3>5. QED
      BY <3>2, <3>4, RetellsOn
  <2>5. QED
    BY <2>1, <2>2, <2>3, <2>4
<1>6. QED
  BY <1>1, <1>2, <1>3, <1>4, <1>5, PhaseMeansBusy DEF Placed

\* A step of a request leaves every finding of a marked demo case seen to.
LEMMA StepKeepsSeenTo ==
  ASSUME TypeInv, Inv, Lone, SeenTo, NEW k \in Workers, Step(k)
  PROVE  SeenTo'
<1> SUFFICES ASSUME Owed' PROVE RowsAreSeenTo' /\ IdsAreSeenTo'
  BY DEF SeenTo
<1>1. (Owed \/ Rebuild(k)) /\ ~(Fail(k) /\ Writes(k)) /\ deployed' = deployed
  BY OwedBefore, SpoiledSteps
<1>2. \A j \in Workers \ {k} : worker'[j] = worker[j]
  BY StepsKeepRequest
<1>3. \A c : Fixture(c)' = Fixture(c)
  BY <1>1, FixtureStays
<1>4. CASE Rebuild(k)
  <2> DEFINE alone == Busy = {k}
             q == [worker[k] EXCEPT !.phase = "build", !.left = DemoCases, !.at = "wipe_findings",
                                    !.alone = alone]
  <2>1. worker'[k] = q /\ worker[k] \in WorkerRecords
    BY <1>4 DEF Rebuild, Become, TypeInv, ExplanationsTypeOK
  <2> HIDE DEF alone
  <2>2. q.phase = "build" /\ q.left = DemoCases /\ q.at = "wipe_findings"
    BY <2>1 DEF WorkerRecords
  <2> HIDE DEF q
  <2>3. \A c \in ToSet(DemoCases) : \A x : ~Dealt(q, c, x)
    BY <2>2 DEF Dealt
  <2>4. \A c \in ToSet(DemoCases) : \A row : WillWrite(worker'[k], c, row)
    BY <2>1, <2>2, <2>3 DEF WillWrite
  <2>5. ASSUME NEW c, NEW id PROVE WillExplain(worker[k], c, id)'
    BY <2>1, <2>2 DEF WillExplain
  <2>6. RowsAreSeenTo'
    BY <2>4 DEF RowsAreSeenTo, WillWrite, Dealt
  <2>7. IdsAreSeenTo'
    BY <2>5 DEF IdsAreSeenTo
  <2>8. QED
    BY <2>6, <2>7
<1>5. CASE Owed
  <2>1. RowsAreSeenTo /\ IdsAreSeenTo
    BY <1>5 DEF SeenTo
  <2>2. ASSUME NEW c \in ToSet(DemoCases), NEW row \in Rows, CaseOf[row[1]] = c, ~Right(c, row)'
        PROVE  \E j \in Workers : WillWrite(worker[j], c, row)'
    <3>1. Carries(k, c, row)
      BY <1>1, <2>2, StepCarriesRows
    <3>2. Fixture(c)' = Fixture(c)
      BY <1>3
    <3>3. ~(row \in Fixture(c) <=> row \in findings' \union ties')
      BY <2>2, <3>2 DEF Right
    <3>4. CASE Right(c, row) \/ WillWrite(worker[k], c, row)
      <4>1. WillWrite(worker'[k], c, row)
        BY <3>1, <3>3, <3>4 DEF Carries
      <4>2. QED
        BY <4>1 DEF WillWrite, Dealt
    <3>5. CASE ~Right(c, row) /\ ~WillWrite(worker[k], c, row)
      <4>1. PICK j \in Workers : WillWrite(worker[j], c, row)
        BY <2>1, <2>2, <3>5 DEF RowsAreSeenTo
      <4>2. worker'[j] = worker[j]
        BY <1>2, <3>5, <4>1
      <4>3. QED
        BY <4>1, <4>2 DEF WillWrite, Dealt
    <3>6. QED
      BY <3>4, <3>5
  <2>3. ASSUME NEW c \in ToSet(DemoCases), NEW id \in IdsOf(Fixture(c)), ~Explains(c, id)'
        PROVE  \E j \in Workers : WillExplain(worker[j], c, id)'
    <3> DEFINE document == DocumentOf(id, Fixture(c))
    <3>1. Retells(k, c, id)
      BY <1>1, <1>5, <2>1, StepRetells
    <3>2. Fixture(c)' = Fixture(c)
      BY <1>3
    <3>3. ~\E x \in explanations' : x.of = id /\ x.hash = document
      BY <2>3, <3>2 DEF Explains, Cached, DocumentOf
    <3>4. \A j \in Workers : WillExplain(worker'[j], c, id) => WillExplain(worker[j], c, id)'
      BY <3>2 DEF WillExplain, DocumentOf
    <3>5. \A j \in Workers \ {k} : WillExplain(worker[j], c, id) => WillExplain(worker'[j], c, id)
      BY <1>2
    <3>6. \E j \in Workers : WillExplain(worker'[j], c, id)
      <4>1. CASE Explains(c, id) \/ WillExplain(worker[k], c, id)
        BY <3>1, <3>3, <3>5, <4>1 DEF Retells
      <4>2. CASE ~(Explains(c, id) \/ WillExplain(worker[k], c, id))
        <5>1. PICK j \in Workers : WillExplain(worker[j], c, id)
          BY <2>1, <4>2 DEF IdsAreSeenTo
        <5>2. QED
          BY <3>5, <4>2, <5>1
      <4>3. QED
        BY <4>1, <4>2
    <3>7. QED
      BY <3>4, <3>6
  <2>4. RowsAreSeenTo'
    BY <2>2 DEF RowsAreSeenTo
  <2>5. IdsAreSeenTo'
    BY <1>3, <2>3 DEF IdsAreSeenTo, IdsOf
  <2>6. QED
    BY <2>4, <2>5
<1>6. QED
  BY <1>1, <1>4, <1>5

\* A new request leaves every finding of a marked demo case seen to.
LEMMA AskKeepsSeenTo ==
  ASSUME TypeInv, Lone, SeenTo, NEW k \in Workers, NEW asked \in Asks, Ask(k, asked)
  PROVE  Lone' /\ SeenTo'
<1> DEFINE reconciling == {j \in Busy : worker[j].asked.op = "reconcile"}
           at == IF IsDemo(asked.case) THEN "look_case" ELSE "route"
           q == [Idle EXCEPT !.asked = asked, !.left = DemoCases, !.at = at]
<1>1. /\ worker' = [j \in Workers |-> IF j = k THEN q ELSE [worker[j] EXCEPT !.alone = FALSE]]
      /\ spoiled' = (\/ spoiled
                     \/ asked.op = "reconcile" /\ Busy # {}
                     \/ reconciling # {})
      /\ worker[k].at = "idle" /\ UNCHANGED <<findings, ties, explanations, marker, deployed>>
  BY DEF Ask, At, tables
<1>2. q.at \in {"look_case", "route"} /\ q.phase = "route" /\ q.asked = asked /\ q.alone = FALSE
  BY DEF Idle
<1> HIDE DEF q, at
<1>3. /\ worker'[k] = q /\ \A j \in Workers : worker'[j].alone = FALSE
      /\ \A j \in Workers : worker[j] \in WorkerRecords /\ Placed(worker[j])
  BY <1>1, <1>2 DEF TypeInv, ExplanationsTypeOK, WorkerRecords, Held
<1>4. ASSUME NEW j \in Workers \ {k}
      PROVE  /\ worker'[j].at = worker[j].at /\ worker'[j].phase = worker[j].phase
             /\ worker'[j].asked = worker[j].asked /\ worker'[j].left = worker[j].left
             /\ worker'[j].target = worker[j].target /\ worker'[j].table = worker[j].table
             /\ worker'[j].rows = worker[j].rows /\ worker'[j].loaded = worker[j].loaded
             /\ worker'[j].todo = worker[j].todo
  <2>1. worker'[j] = [worker[j] EXCEPT !.alone = FALSE]
    BY <1>1
  <2>2. QED
    BY <1>3, <2>1 DEF WorkerRecords
<1>5. Lone'
  <2>1. ASSUME NEW i \in Workers, NEW j \in Workers, ~spoiled', worker'[i].at # "idle",
               worker'[i].asked.op = "reconcile", worker'[j].at # "idle"
        PROVE  i = j
    <3>1. CASE i = k
      <4>1. Busy = {}
        BY <1>1, <1>2, <1>3, <2>1, <3>1
      <4>2. QED
        BY <1>4, <2>1, <3>1, <4>1 DEF Busy
    <3>2. CASE i # k
      <4>1. i \in reconciling
        BY <1>4, <2>1, <3>2 DEF Busy
      <4>2. QED
        BY <1>1, <2>1, <4>1
    <3>3. QED
      BY <3>1, <3>2
  <2>2. marker' <= deployed'
    BY <1>1 DEF Lone
  <2>3. QED
    BY <1>3, <2>1, <2>2 DEF Lone
<1>6. ASSUME Owed' PROVE RowsAreSeenTo' /\ IdsAreSeenTo'
  <2>1. Owed
    <3>1. CASE ~spoiled' /\ marker' = deployed'
      BY <1>1, <3>1 DEF Owed
    <3>2. ASSUME NEW j \in Workers, worker'[j].phase # "route", ~spoiled' PROVE Owed
      BY <1>1, <1>2, <1>3, <1>4, <3>2 DEF Owed
    <3>3. QED
      BY <1>3, <1>6, <3>1, <3>2 DEF Owed
  <2>2. RowsAreSeenTo /\ IdsAreSeenTo
    BY <2>1 DEF SeenTo
  <2>3. \A c : Fixture(c)' = Fixture(c)
    BY <1>1, FixtureStays
  <2>4. worker[k].phase = "route"
    BY <1>1, <1>3, PhaseMeansBusy
  <2>5. ASSUME NEW c, NEW row, NEW j \in Workers, WillWrite(worker[j], c, row)
        PROVE  WillWrite(worker[j], c, row)'
    <3>1. j # k
      BY <1>1, <2>4, <2>5 DEF WillWrite
    <3>2. QED
      BY <1>4, <2>5, <3>1 DEF WillWrite, Dealt
  <2>6. ASSUME NEW c, NEW id, NEW j \in Workers, WillExplain(worker[j], c, id)
        PROVE  WillExplain(worker[j], c, id)'
    <3>1. j # k
      BY <1>1, <2>4, <2>6 DEF WillExplain
    <3>2. Fixture(c)' = Fixture(c)
      BY <2>3
    <3>3. QED
      BY <1>4, <2>6, <3>1, <3>2 DEF WillExplain, DocumentOf
  <2>7. ASSUME NEW c PROVE /\ \A row : Right(c, row) => Right(c, row)'
                           /\ \A id : Explains(c, id) => Explains(c, id)'
                           /\ IdsOf(Fixture(c))' = IdsOf(Fixture(c))
    <3>1. Fixture(c)' = Fixture(c)
      BY <2>3
    <3>2. QED
      BY <1>1, <3>1 DEF Right, Explains, Cached, DocumentOf, IdsOf
  <2>8. RowsAreSeenTo'
    <3>1. ASSUME NEW c \in ToSet(DemoCases), NEW row \in Rows, CaseOf[row[1]] = c
          PROVE  Right(c, row)' \/ \E j \in Workers : WillWrite(worker[j], c, row)'
      BY <2>2, <2>5, <2>7, <3>1 DEF RowsAreSeenTo
    <3>2. QED
      BY <3>1 DEF RowsAreSeenTo
  <2>9. IdsAreSeenTo'
    <3>1. ASSUME NEW c \in ToSet(DemoCases), NEW id \in IdsOf(Fixture(c))'
          PROVE  Explains(c, id)' \/ \E j \in Workers : WillExplain(worker[j], c, id)'
      BY <2>2, <2>6, <2>7, <3>1 DEF IdsAreSeenTo
    <3>2. QED
      BY <3>1 DEF IdsAreSeenTo
  <2>10. QED
    BY <2>8, <2>9
<1>7. QED
  BY <1>5, <1>6 DEF SeenTo

\* A crash or a deployment keeps both: what was owed of a request that died is owed no more.
LEMMA RestartKeepsSeenTo ==
  ASSUME TypeInv, Lone, SeenTo, Crash \/ Deploy
  PROVE  Lone' /\ SeenTo'
<1>1. /\ worker' = [k \in Workers |-> Idle]
      /\ spoiled' = (spoiled \/ \E k \in Busy : Writes(k))
      /\ UNCHANGED <<findings, ties, explanations, marker>>
      /\ deployed \in Nat /\ marker \in Nat /\ (deployed' = deployed \/ deployed' = deployed + 1)
  BY DEF Crash, Deploy, tables, TypeInv, ExplanationsTypeOK
<1>2. Idle.at = "idle" /\ Idle.phase = "route" /\ Idle.alone = FALSE
  BY DEF Idle
<1>3. marker' <= deployed'
  BY <1>1 DEF Lone
<1>4. Lone'
  BY <1>1, <1>2, <1>3 DEF Lone
<1>5. ASSUME Owed' PROVE RowsAreSeenTo' /\ IdsAreSeenTo'
  <2>1. ~spoiled' /\ marker' = deployed'
    BY <1>1, <1>2, <1>5 DEF Owed
  <2>2. deployed' = deployed /\ ~spoiled /\ marker = deployed
    <3>1. marker \in Nat /\ deployed \in Nat /\ marker <= deployed /\ marker = deployed'
          /\ (deployed' = deployed \/ deployed' = deployed + 1)
      BY <1>1, <2>1 DEF Lone
    <3>2. deployed' = deployed /\ marker = deployed
      BY <3>1
    <3>3. ~spoiled
      BY <1>1, <2>1
    <3>4. QED
      BY <3>2, <3>3
  <2>3. \A k \in Workers : worker[k] \in WorkerRecords /\ Placed(worker[k])
    BY DEF TypeInv, Held
  <2>4. \A k \in Workers : worker[k].at # "idle" => ~Writes(k)
    BY <1>1, <2>1 DEF Busy
  <2>5. \A k \in Workers : worker[k].phase = "route"
    BY <2>3, <2>4, PhaseMeansBusy DEF Writes
  <2>6. \A k \in Workers : worker[k].at \notin {"insert_rows", "insert_explanation"}
    BY <2>4 DEF Writes
  <2>7. RowsAreSeenTo /\ IdsAreSeenTo
    BY <2>2 DEF SeenTo, Owed
  <2>8. ASSUME NEW c PROVE /\ \A row : Right(c, row) => Right(c, row)'
                           /\ \A id : Explains(c, id) => Explains(c, id)'
                           /\ IdsOf(Fixture(c))' = IdsOf(Fixture(c))
    <3>1. Fixture(c)' = Fixture(c)
      BY <2>2, FixtureStays
    <3>2. QED
      BY <1>1, <3>1 DEF Right, Explains, Cached, DocumentOf, IdsOf
  <2>9. \A c, row : \A k \in Workers : ~WillWrite(worker[k], c, row)
    BY <2>5, <2>6 DEF WillWrite
  <2>10. \A c, id : \A k \in Workers : ~WillExplain(worker[k], c, id)
    BY <2>5, <2>6 DEF WillExplain
  <2>11. RowsAreSeenTo'
    <3>1. ASSUME NEW c \in ToSet(DemoCases), NEW row \in Rows, CaseOf[row[1]] = c
          PROVE  Right(c, row)'
      BY <2>7, <2>8, <2>9, <3>1 DEF RowsAreSeenTo
    <3>2. QED
      BY <3>1 DEF RowsAreSeenTo
  <2>12. IdsAreSeenTo'
    <3>1. ASSUME NEW c \in ToSet(DemoCases), NEW id \in IdsOf(Fixture(c))'
          PROVE  Explains(c, id)'
      BY <2>7, <2>8, <2>10, <3>1 DEF IdsAreSeenTo
    <3>2. QED
      BY <3>1 DEF IdsAreSeenTo
  <2>13. QED
    BY <2>11, <2>12
<1>6. QED
  BY <1>4, <1>5 DEF SeenTo

\* Whatever a demo case lacks of the fixtures deployed, some request at work
\* will write, as long as the marker, or a rebuild, answers for it.
THEOREM AlwaysSeenTo == Spec => [](Lone /\ SeenTo)
<1>1. Init => Lone /\ SeenTo
  BY DEF Init, Lone, SeenTo, Owed, Idle
<1>2. TypeInv /\ Inv /\ Lone /\ SeenTo /\ [Next]_vars => (Lone /\ SeenTo)'
  <2> SUFFICES ASSUME TypeInv, Inv, Lone, SeenTo, [Next]_vars PROVE Lone' /\ SeenTo'
    OBVIOUS
  <2>1. CASE \E k \in Workers : Step(k)
    BY <2>1, StepKeepsLone, StepKeepsSeenTo
  <2>2. CASE \E k \in Workers, asked \in Asks : Ask(k, asked)
    BY <2>2, AskKeepsSeenTo
  <2>3. CASE Crash \/ Deploy
    BY <2>3, RestartKeepsSeenTo
  <2>4. CASE UNCHANGED vars
    <3>1. UNCHANGED <<findings, ties, explanations, marker, deployed, worker, spoiled>>
      BY <2>4 DEF vars, tables, history
    <3>2. Lone'
      BY <3>1 DEF Lone
    <3>3. \A c : Fixture(c)' = Fixture(c)
      BY <3>1, FixtureStays
    <3>4. Owed' => Owed
      BY <3>1 DEF Owed
    <3>5. ASSUME RowsAreSeenTo PROVE RowsAreSeenTo'
      <4>1. ASSUME NEW c \in ToSet(DemoCases), NEW row \in Rows, CaseOf[row[1]] = c
            PROVE  Right(c, row)' \/ \E j \in Workers : WillWrite(worker[j], c, row)'
        <5>1. Right(c, row)' = Right(c, row)
          <6>1. Fixture(c)' = Fixture(c)
            BY <3>3
          <6>2. QED
            BY <3>1, <6>1 DEF Right
        <5>2. \A j \in Workers : WillWrite(worker[j], c, row)' = WillWrite(worker[j], c, row)
          BY <3>1 DEF WillWrite, Dealt
        <5>3. QED
          BY <3>5, <4>1, <5>1, <5>2 DEF RowsAreSeenTo
      <4>2. QED
        BY <4>1 DEF RowsAreSeenTo
    <3>6. ASSUME IdsAreSeenTo PROVE IdsAreSeenTo'
      <4>1. ASSUME NEW c \in ToSet(DemoCases), NEW id \in IdsOf(Fixture(c))'
            PROVE  Explains(c, id)' \/ \E j \in Workers : WillExplain(worker[j], c, id)'
        <5>0. Fixture(c)' = Fixture(c)
          BY <3>3
        <5>1. Explains(c, id) => Explains(c, id)'
          BY <3>1, <5>0 DEF Explains, Cached, DocumentOf
        <5>2. \A j \in Workers : WillExplain(worker[j], c, id) => WillExplain(worker[j], c, id)'
          BY <3>1, <5>0 DEF WillExplain, DocumentOf
        <5>3. id \in IdsOf(Fixture(c))
          BY <5>0 DEF IdsOf
        <5>4. QED
          BY <3>6, <4>1, <5>1, <5>2, <5>3 DEF IdsAreSeenTo
      <4>2. QED
        BY <4>1 DEF IdsAreSeenTo
    <3>7. QED
      BY <3>2, <3>4, <3>5, <3>6 DEF SeenTo
  <2>5. QED
    BY <2>1, <2>2, <2>3, <2>4 DEF Next
<1>3. QED
  BY <1>1, <1>2, AlwaysTyped, AlwaysSound, PTL DEF Spec

\* With the marker of the running version, nobody at work and nothing broken
\* off, every demo case has just the observations of the fixtures, and each of
\* them an explanation a visitor's GET will find (_ensure_demo_case_exists).
THEOREM MarkedDemosAreWhole == Spec => []MarkedDemoIsWhole
<1>1. TypeInv /\ Lone /\ SeenTo => MarkedDemoIsWhole
  <2> SUFFICES ASSUME TypeInv, SeenTo, Busy = {}, ~spoiled, marker = deployed,
                      NEW c \in ToSet(DemoCases)
               PROVE  LET shown == OfCase(findings \union ties, c)
                      IN /\ shown \in Discoveries[c][deployed]
                         /\ \A id \in IdsOf(shown) : Cached(id, EvidenceHash(id, shown)) # {}
    BY DEF MarkedDemoIsWhole, DemoIsWhole
  <2> DEFINE shown == OfCase(findings \union ties, c)
  <2>1. RowsAreSeenTo /\ IdsAreSeenTo
    BY DEF SeenTo, Owed
  <2>2. \A k \in Workers : worker[k].at = "idle"
    BY DEF Busy
  <2>3. \A k \in Workers : worker[k] \in WorkerRecords /\ Placed(worker[k])
    BY DEF TypeInv, Held
  <2>4. \A k \in Workers : worker[k].phase = "route"
    BY <2>2, <2>3, PhaseMeansBusy
  <2>5. ASSUME NEW row \in Rows, CaseOf[row[1]] = c PROVE Right(c, row)
    BY <2>1, <2>2, <2>4, <2>5 DEF RowsAreSeenTo, WillWrite
  <2>6. ASSUME NEW id \in IdsOf(Fixture(c)) PROVE Explains(c, id)
    BY <2>1, <2>2, <2>4 DEF IdsAreSeenTo, WillExplain
  <2>7. findings \union ties \subseteq Rows
    BY DEF TypeInv, ExplanationsTypeOK, Rows, Ids
  <2>8. /\ Fixture(c) \in Discoveries[c][deployed]
        /\ Fixture(c) \subseteq Rows /\ \A row \in Fixture(c) : CaseOf[row[1]] = c
    BY FixtureIsFound DEF IsDemo
  <2>9. shown = Fixture(c)
    BY <2>5, <2>7, <2>8 DEF Right, OfCase
  <2>10. QED
    BY <2>6, <2>8, <2>9 DEF Explains, EvidenceHash
<1>2. QED
  BY <1>1, AlwaysTyped, AlwaysSeenTo, PTL
=============================================================================
