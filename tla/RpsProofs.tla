----------------------------- MODULE RpsProofs -----------------------------
(***************************************************************************)
(* What holds of a screening event however its requests overlap, for any   *)
(* number of requests, parties and list entries.                           *)
(***************************************************************************)
EXTENDS Rps, FiniteSetTheorems, TLAPS

\* A match that is in a table, or that a disposition in progress names.
Seen(m) ==
  \/ m \in matches
  \/ \E i \in DOMAIN dispositions : dispositions[i] = m
  \/ \E r \in Requests : At(r, "insert_disposition") /\ m \in request[r].todo

(***************************************************************************)
(* Match ids are fresh: what a screening has still to insert was never in  *)
(* the table, and no other screening in progress has the same ids.         *)
(***************************************************************************)
Fresh ==
  /\ \A m \in ScreeningMatch : Seen(m) => m.screening <= screenings
  /\ \A r \in Requests : Screening(r) => request[r].number \in 1..screenings
  /\ \A r, q \in Requests :
       Screening(r) /\ Screening(q) /\ r # q => request[r].number # request[q].number
  /\ \A r \in Requests : request[r].at \in {"delete_matches", "insert_matches"} =>
       \A m \in request[r].todo : m.screening = request[r].number
  /\ \A r \in Requests : request[r].at \in {"screen_parties", "delete_matches"} =>
       \A m \in ScreeningMatch : Seen(m) => m.screening # request[r].number
  /\ \A r \in Requests : At(r, "insert_matches") =>
       \A m \in request[r].todo : ~Seen(m)

\* No screening met another writer, and the process lived.
Quiet == ~overlapped /\ crashes = 0

\* Request r is about to replace the matches, or has begun to.
Replacing(r) == request[r].at \in {"delete_matches", "insert_matches"}

(***************************************************************************)
(* While nothing overlaps, the one writer accounts for what it has done,   *)
(* and the manifest stays true until matches are replaced: a screening     *)
(* whose list file fails leaves it as true as it was.                      *)
(***************************************************************************)
Counted ==
  /\ \A m \in matches : m.party \in parties
  /\ \A r \in Requests : request[r].at \in {"delete_matches", "insert_matches"} =>
       \A m \in request[r].todo : m.party \in parties
  /\ ~event => ~manifest.written /\ \A r \in Requests : ~Writing(r)
  /\ Quiet =>
       /\ \A r, q \in Requests : Writing(r) /\ Writing(q) => r = q
       /\ \A r \in Requests : At(r, "insert_parties") => ~manifest.written
       /\ \A r \in Requests : At(r, "delete_matches") =>
            /\ request[r].parties = parties
            /\ IsFiniteSet(request[r].todo)
            /\ Cardinality(request[r].todo) = request[r].found
       /\ \A r \in Requests : At(r, "insert_matches") =>
            /\ request[r].parties = parties
            /\ Cardinality(matches \union request[r].todo) = request[r].found
       /\ manifest.written /\ (\A r \in Requests : ~Replacing(r)) =>
            /\ manifest.party_count = Cardinality(parties)
            /\ manifest.match_count = Cardinality(matches)

IInv == RpsTypeOK /\ Fresh /\ LatestHitsAreKept /\ Counted /\ ManifestTellsTheMatches

-----------------------------------------------------------------------------
(***************************************************************************)
(* A set of parties is finite, and counted by a natural number.            *)
(***************************************************************************)
LEMMA PartiesAreFinite ==
  ASSUME NEW S \in SUBSET Parties
  PROVE  IsFiniteSet(S) /\ Cardinality(S) \in Nat
BY InputAssumption, FS_Subset, FS_CardinalityType

(***************************************************************************)
(* So is a set of hits, and the matches made of it are as many.            *)
(***************************************************************************)
LEMMA HitsBecomeMatches ==
  ASSUME NEW hits \in SUBSET (Parties \X Entries), NEW n \in Nat
  PROVE  LET made == {[screening |-> n, party |-> hit[1], entry |-> hit[2]] : hit \in hits}
         IN /\ Cardinality(hits) \in Nat
            /\ made \subseteq ScreeningMatch
            /\ IsFiniteSet(made)
            /\ Cardinality(made) = Cardinality(hits)
<1> DEFINE made == {[screening |-> n, party |-> hit[1], entry |-> hit[2]] : hit \in hits}
           F == [hit \in hits |-> [screening |-> n, party |-> hit[1], entry |-> hit[2]]]
<1>1. IsFiniteSet(hits)
  BY InputAssumption, FS_Product, FS_Subset
<1>2. made \subseteq ScreeningMatch
  BY DEF ScreeningMatch
<1>3. F \in [hits -> made]
  OBVIOUS
<1>4. \A g, h \in hits : F[g] = F[h] => g = h
  <2> SUFFICES ASSUME NEW g \in hits, NEW h \in hits, F[g] = F[h] PROVE g = h
    OBVIOUS
  <2>1. g[1] = h[1] /\ g[2] = h[2]
    BY DEF F
  <2>2. g \in Parties \X Entries /\ h \in Parties \X Entries
    OBVIOUS
  <2>3. QED
    BY <2>1, <2>2
<1>5. \A m \in made : \E hit \in hits : F[hit] = m
  OBVIOUS
<1>6. F \in Bijection(hits, made)
  BY <1>3, <1>4, <1>5 DEF Bijection, Injection, Surjection, IsInjective
<1>7. IsFiniteSet(made) /\ Cardinality(made) = Cardinality(hits)
  <2> HIDE DEF made, F
  <2>1. ExistsBijection(hits, made)
    BY <1>6 DEF ExistsBijection
  <2>2. QED
    BY <1>1, <2>1, FS_Bijection
<1>8. Cardinality(hits) \in Nat
  BY <1>1, FS_CardinalityType
<1>9. QED
  BY <1>2, <1>7, <1>8

-----------------------------------------------------------------------------
(***************************************************************************)
(* A step after which request r stands at label, holds these sets and      *)
(* numbers, and the other requests are where they were.                    *)
(***************************************************************************)
Becomes(r, label, partySet, matchSet, found, number) ==
  /\ request' \in [Requests -> RequestRecords]
  /\ request'[r].at = label
  /\ request'[r].parties = partySet
  /\ request'[r].todo = matchSet
  /\ request'[r].found = found
  /\ request'[r].number = number
  /\ \A s \in Requests \ {r} : request'[s] = request[s]

(***************************************************************************)
(* What a creation makes of its request (create_event).                    *)
(***************************************************************************)
LEMMA CreateBecomes ==
  ASSUME RpsTypeOK, NEW r \in Requests, NEW named \in SUBSET Parties,
         CreateEvent(r, named)
  PROVE  Becomes(r, "insert_parties", named, request[r].todo,
                 request[r].found, request[r].number)
<1> DEFINE q == [request[r] EXCEPT !.at = "insert_parties", !.parties = named]
<1>1. request[r] \in RequestRecords
  BY DEF RpsTypeOK
<1>2. request' = [request EXCEPT ![r] = q]
  BY DEF CreateEvent, RpsTypeOK
<1>3. /\ q \in RequestRecords /\ q.at = "insert_parties" /\ q.parties = named
      /\ q.todo = request[r].todo /\ q.found = request[r].found /\ q.number = request[r].number
  BY <1>1 DEF RequestRecords, Labels, RpsTypeOK, CreateEvent
<1> HIDE DEF q
<1>4. QED
  BY <1>2, <1>3 DEF RpsTypeOK, Becomes

(***************************************************************************)
(* What the start of a screening makes of its request.                     *)
(***************************************************************************)
LEMMA ScreenBecomes ==
  ASSUME RpsTypeOK, NEW r \in Requests, ScreenEvent(r)
  PROVE  Becomes(r, "screen_parties", request[r].parties, request[r].todo,
                 request[r].found, screenings + 1)
<1> DEFINE q == [request[r] EXCEPT !.at = "screen_parties", !.number = screenings + 1]
<1>1. request[r] \in RequestRecords
  BY DEF RpsTypeOK
<1>2. request' = [request EXCEPT ![r] = q]
  BY DEF ScreenEvent, RpsTypeOK
<1>3. /\ q \in RequestRecords /\ q.at = "screen_parties" /\ q.parties = request[r].parties
      /\ q.todo = request[r].todo /\ q.found = request[r].found /\ q.number = screenings + 1
  <2>1. screenings + 1 \in Nat
    BY DEF RpsTypeOK
  <2>2. QED
    BY <1>1, <2>1 DEF RequestRecords, Labels
<1> HIDE DEF q
<1>4. QED
  BY <1>2, <1>3 DEF RpsTypeOK, Becomes

(***************************************************************************)
(* What the check before a disposition makes of its request.               *)
(***************************************************************************)
LEMMA DispositionBecomes ==
  ASSUME RpsTypeOK, NEW r \in Requests, NEW m \in matches, DispositionChecks(r, m)
  PROVE  Becomes(r, "insert_disposition", request[r].parties, {m},
                 request[r].found, request[r].number)
<1> DEFINE q == [request[r] EXCEPT !.at = "insert_disposition", !.todo = {m}]
<1>1. request[r] \in RequestRecords
  BY DEF RpsTypeOK
<1>2. request' = [request EXCEPT ![r] = q]
  BY DEF DispositionChecks, RpsTypeOK
<1>3. /\ q \in RequestRecords /\ q.at = "insert_disposition" /\ q.parties = request[r].parties
      /\ q.todo = {m} /\ q.found = request[r].found /\ q.number = request[r].number
  BY <1>1 DEF RequestRecords, Labels, RpsTypeOK, DispositionChecks
<1> HIDE DEF q
<1>4. QED
  BY <1>2, <1>3 DEF RpsTypeOK, Becomes

(***************************************************************************)
(* What the comparison with the lists makes of its request.                *)
(***************************************************************************)
LEMMA ScreenPartiesBecomes ==
  ASSUME RpsTypeOK, NEW r \in Requests, NEW hits \in SUBSET (parties \X Entries),
         ScreenParties(r, hits)
  PROVE  LET made == {[screening |-> request[r].number, party |-> hit[1],
                       entry |-> hit[2]] : hit \in hits}
         IN /\ Becomes(r, "delete_matches", parties, made, Cardinality(hits),
                       request[r].number)
            /\ IsFiniteSet(made)
            /\ Cardinality(made) = Cardinality(hits)
<1> DEFINE made == {[screening |-> request[r].number, party |-> hit[1],
                     entry |-> hit[2]] : hit \in hits}
           q == [request[r] EXCEPT !.at = "delete_matches", !.parties = parties,
                                   !.found = Cardinality(hits), !.todo = made]
<1>1. request[r] \in RequestRecords /\ parties \in SUBSET Parties
  BY DEF RpsTypeOK
<1>2. request[r].number \in Nat /\ hits \in SUBSET (Parties \X Entries)
  BY <1>1 DEF RequestRecords
<1>3. /\ Cardinality(hits) \in Nat /\ made \in SUBSET ScreeningMatch
      /\ IsFiniteSet(made) /\ Cardinality(made) = Cardinality(hits)
  BY <1>2, HitsBecomeMatches
<1>4. request' = [request EXCEPT ![r] = q]
  BY DEF ScreenParties, RpsTypeOK
<1> HIDE DEF made
<1>5. /\ q \in RequestRecords /\ q.at = "delete_matches" /\ q.parties = parties
      /\ q.todo = made /\ q.found = Cardinality(hits)
      /\ q.number = request[r].number
  BY <1>1, <1>3 DEF RequestRecords, Labels
<1> HIDE DEF q
<1>6. QED
  BY <1>3, <1>4, <1>5 DEF RpsTypeOK, Becomes, made

(***************************************************************************)
(* What the DELETE of replace_matches makes of its request.                *)
(***************************************************************************)
LEMMA DeleteBecomes ==
  ASSUME RpsTypeOK, NEW r \in Requests, DeleteMatches(r)
  PROVE  Becomes(r, "insert_matches", request[r].parties, request[r].todo,
                 request[r].found, request[r].number)
<1> DEFINE q == [request[r] EXCEPT !.at = "insert_matches"]
<1>1. request[r] \in RequestRecords
  BY DEF RpsTypeOK
<1>2. request' = [request EXCEPT ![r] = q]
  BY DEF DeleteMatches, RpsTypeOK
<1>3. /\ q \in RequestRecords /\ q.at = "insert_matches" /\ q.parties = request[r].parties
      /\ q.todo = request[r].todo /\ q.found = request[r].found /\ q.number = request[r].number
  BY <1>1 DEF RequestRecords, Labels, RpsTypeOK, DeleteMatches
<1> HIDE DEF q
<1>4. QED
  BY <1>2, <1>3 DEF RpsTypeOK, Becomes

(***************************************************************************)
(* What one row of the INSERT makes of its request.                        *)
(***************************************************************************)
LEMMA InsertMatchBecomes ==
  ASSUME RpsTypeOK, NEW r \in Requests, NEW m \in request[r].todo, InsertMatch(r, m)
  PROVE  Becomes(r, "insert_matches", request[r].parties, request[r].todo \ {m},
                 request[r].found, request[r].number)
<1> DEFINE q == [request[r] EXCEPT !.todo = request[r].todo \ {m}]
<1>1. request[r] \in RequestRecords
  BY DEF RpsTypeOK
<1>2. request' = [request EXCEPT ![r] = q]
  BY DEF InsertMatch, At, RpsTypeOK
<1>3. /\ q \in RequestRecords /\ q.at = "insert_matches" /\ q.parties = request[r].parties
      /\ q.todo = request[r].todo \ {m} /\ q.found = request[r].found /\ q.number = request[r].number
  BY <1>1 DEF RequestRecords, Labels, RpsTypeOK, InsertMatch, At
<1> HIDE DEF q
<1>4. QED
  BY <1>2, <1>3 DEF RpsTypeOK, Becomes

(***************************************************************************)
(* A request that ends is idle.                                            *)
(***************************************************************************)
LEMMA EndsBecomes ==
  ASSUME RpsTypeOK, NEW r \in Requests, Ends(r)
  PROVE  Becomes(r, "idle", {}, {}, 0, 0)
<1>1. Idle \in RequestRecords
  BY DEF Idle, RequestRecords, Labels
<1>2. Idle.at = "idle" /\ Idle.parties = {} /\ Idle.todo = {} /\ Idle.found = 0
        /\ Idle.number = 0
  BY DEF Idle
<1>3. QED
  BY <1>1, <1>2 DEF RpsTypeOK, Becomes, Ends

(***************************************************************************)
(* A row of the parties' INSERT: its request goes on, or ends with the last. *)
(***************************************************************************)
LEMMA InsertPartyBecomes ==
  ASSUME RpsTypeOK, NEW r \in Requests, NEW p \in Parties, InsertParty(r, p)
  PROVE  \/ Becomes(r, "idle", {}, {}, 0, 0)
         \/ Becomes(r, "insert_parties", request[r].parties \ {p}, request[r].todo,
                    request[r].found, request[r].number)
<1> DEFINE q == [request[r] EXCEPT !.parties = request[r].parties \ {p}]
<1>1. CASE Ends(r)
  BY <1>1, EndsBecomes
<1>2. CASE request' = [request EXCEPT ![r].parties = @ \ {p}]
  <2>1. request[r] \in RequestRecords
    BY DEF RpsTypeOK
  <2>2. request' = [request EXCEPT ![r] = q]
    BY <1>2 DEF RpsTypeOK
  <2>3. /\ q \in RequestRecords /\ q.at = "insert_parties"
        /\ q.parties = request[r].parties \ {p}
        /\ q.todo = request[r].todo /\ q.found = request[r].found
        /\ q.number = request[r].number
    BY <2>1 DEF RequestRecords, InsertParty, At
  <2> HIDE DEF q
  <2>4. QED
    BY <2>2, <2>3 DEF RpsTypeOK, Becomes
<1>3. QED
  BY <1>1, <1>2 DEF InsertParty

-----------------------------------------------------------------------------
(***************************************************************************)
(* Each step keeps requests and tables well typed.                         *)
(***************************************************************************)
LEMMA TypesAreKept ==
  ASSUME RpsTypeOK, [Next]_vars
  PROVE  RpsTypeOK'
<1> USE DEF RpsTypeOK, tables, history
<1>1. CASE Crash
  <2>1. Idle \in RequestRecords
    BY DEF Idle, RequestRecords, Labels
  <2>2. QED
    BY <1>1, <2>1 DEF Crash
<1>2. ASSUME NEW r \in Requests, NEW named \in SUBSET Parties, CreateEvent(r, named)
      PROVE  RpsTypeOK'
  BY <1>2, CreateBecomes DEF CreateEvent, Becomes
<1>3. ASSUME NEW r \in Requests, ScreenEvent(r)
      PROVE  RpsTypeOK'
  <2>1. overlapped' = (overlapped \/ \E q \in Requests : Writing(q))
    BY <1>3 DEF ScreenEvent
  <2>2. overlapped' \in BOOLEAN
    BY <2>1, Zenon
  <2>3. screenings' \in Nat /\ UNCHANGED <<tables, reported, unread, latest, crashes>>
    BY <1>3 DEF ScreenEvent
  <2>4. request' \in [Requests -> RequestRecords]
    BY <1>3, ScreenBecomes DEF Becomes
  <2>5. QED
    BY <2>2, <2>3, <2>4
<1>4. ASSUME NEW r \in Requests, NEW m \in matches, DispositionChecks(r, m)
      PROVE  RpsTypeOK'
  BY <1>4, DispositionBecomes DEF DispositionChecks, Becomes
<1>5. ASSUME NEW r \in Requests, NEW p \in Parties, InsertParty(r, p)
      PROVE  RpsTypeOK'
  BY <1>5, InsertPartyBecomes DEF InsertParty, Becomes
<1>6. ASSUME NEW r \in Requests, NEW hits \in SUBSET (parties \X Entries),
             ScreenParties(r, hits)
      PROVE  RpsTypeOK'
  BY <1>6, ScreenPartiesBecomes DEF ScreenParties, Becomes
<1>7. ASSUME NEW r \in Requests, DeleteMatches(r)
      PROVE  RpsTypeOK'
  <2>1. request[r].todo \subseteq ScreeningMatch
    BY DEF RequestRecords
  <2>2. QED
    BY <1>7, <2>1, DeleteBecomes DEF DeleteMatches, Becomes
<1>8. ASSUME NEW r \in Requests, NEW m \in request[r].todo, InsertMatch(r, m)
      PROVE  RpsTypeOK'
  <2>1. m \in ScreeningMatch
    BY DEF RequestRecords
  <2>2. QED
    BY <1>8, <2>1, InsertMatchBecomes DEF InsertMatch, Becomes
<1>9. ASSUME NEW r \in Requests, NEW m \in request[r].todo, InsertDisposition(r, m)
      PROVE  RpsTypeOK'
  <2>1. m \in ScreeningMatch
    BY DEF RequestRecords
  <2>2. QED
    BY <1>9, <2>1, EndsBecomes DEF InsertDisposition, Becomes
<1>10. ASSUME NEW r \in Requests, WriteManifest(r)
       PROVE  RpsTypeOK'
  <2>1. /\ Cardinality(request[r].parties) \in Nat /\ request[r].found \in Nat
        /\ request[r].number \in Nat
    BY PartiesAreFinite DEF RequestRecords
  <2>2. QED
    BY <1>10, <2>1, EndsBecomes DEF WriteManifest, ManifestOf, Becomes
<1>15. ASSUME NEW r \in Requests, ListFails(r)
       PROVE  RpsTypeOK'
  <2>1. request[r].number \in Nat
    BY DEF RequestRecords
  <2>2. QED
    BY <1>15, <2>1, EndsBecomes DEF ListFails, Becomes
<1>11. CASE UNCHANGED vars
  BY <1>11 DEF vars
<1> HIDE DEF RpsTypeOK
<1>12. ASSUME NEW r \in Requests, Begin(r) PROVE RpsTypeOK'
  BY <1>2, <1>3, <1>4, <1>12 DEF Begin
<1>13. ASSUME NEW r \in Requests, Continue(r) PROVE RpsTypeOK'
  BY <1>5, <1>6, <1>7, <1>8, <1>9, <1>10, <1>13, <1>15 DEF Continue
<1>14. QED
  BY <1>1, <1>11, <1>12, <1>13 DEF Next

-----------------------------------------------------------------------------
(***************************************************************************)
(* LatestHitsAreKept, one match at a time: m is in the table or a request  *)
(* has still to insert it.                                                 *)
(***************************************************************************)
Kept(m) == \/ m \in matches
           \/ \E r \in Requests : At(r, "insert_matches") /\ m \in request[r].todo

\* The property, read hit by hit.
LEMMA LatestIsKept == LatestHitsAreKept <=> (crashes = 0 => \A m \in latest : Kept(m))
BY DEF LatestHitsAreKept, Kept

(***************************************************************************)
(* A request that is at no INSERT of matches can move without losing one.  *)
(***************************************************************************)
LEMMA KeptByOthers ==
  ASSUME NEW r \in Requests, ~At(r, "insert_matches"), UNCHANGED matches,
         \A s \in Requests \ {r} : request'[s] = request[s]
  PROVE  \A m : Kept(m) => Kept(m)'
BY DEF Kept, At

(***************************************************************************)
(* No step loses a hit of the latest screening.                            *)
(***************************************************************************)
LEMMA LatestHitsStayKept ==
  ASSUME RpsTypeOK, LatestHitsAreKept, [Next]_vars
  PROVE  LatestHitsAreKept'
<1>1. SUFFICES crashes' = 0 => \A m \in latest' : Kept(m)'
  BY LatestIsKept DEF LatestHitsAreKept, Kept
<1>2. CASE Crash
  BY <1>2 DEF Crash, RpsTypeOK
<1>3. ASSUME NEW r \in Requests, Begin(r)
      PROVE  crashes' = 0 => \A m \in latest' : Kept(m)'
  <2>1. ~At(r, "insert_matches") /\ UNCHANGED <<matches, latest, crashes>>
    BY <1>3 DEF Begin, CreateEvent, ScreenEvent, DispositionChecks, At, tables, history
  <2>2. \A s \in Requests \ {r} : request'[s] = request[s]
    BY <1>3, CreateBecomes, ScreenBecomes, DispositionBecomes DEF Begin, Becomes
  <2>3. QED
    BY <2>1, <2>2, KeptByOthers, LatestIsKept
<1>4. ASSUME NEW r \in Requests, Continue(r)
      PROVE  crashes' = 0 => \A m \in latest' : Kept(m)'
  <2>1. CASE \E p \in Parties : InsertParty(r, p)
    <3>1. ~At(r, "insert_matches") /\ UNCHANGED <<matches, latest, crashes>>
      BY <2>1 DEF InsertParty, At, history
    <3>2. \A s \in Requests \ {r} : request'[s] = request[s]
      BY <2>1, InsertPartyBecomes DEF Becomes
    <3>3. QED
      BY <3>1, <3>2, KeptByOthers, LatestIsKept
  <2>2. CASE \E hits \in SUBSET (parties \X Entries) : ScreenParties(r, hits)
    <3>1. ~At(r, "insert_matches") /\ UNCHANGED <<matches, latest, crashes>>
      BY <2>2 DEF ScreenParties, At, tables, history
    <3>2. \A s \in Requests \ {r} : request'[s] = request[s]
      BY <2>2, ScreenPartiesBecomes DEF Becomes
    <3>3. QED
      BY <3>1, <3>2, KeptByOthers, LatestIsKept
  <2>3. CASE DeleteMatches(r)
    <3>1. Becomes(r, "insert_matches", request[r].parties, request[r].todo,
                  request[r].found, request[r].number)
      BY <2>3, DeleteBecomes
    <3>2. CASE request[r].parties = {}
      <4>1. matches' = matches /\ latest' = latest /\ crashes' = crashes
        BY <2>3, <3>2 DEF DeleteMatches
      <4>2. ~At(r, "insert_matches")
        BY <2>3 DEF DeleteMatches, At
      <4>3. QED
        BY <3>1, <4>1, <4>2, KeptByOthers, LatestIsKept DEF Becomes
    <3>3. CASE request[r].parties # {}
      BY <2>3, <3>1, <3>3 DEF DeleteMatches, Becomes, Kept, At
    <3>4. QED
      BY <3>2, <3>3
  <2>4. CASE \E m \in request[r].todo : InsertMatch(r, m)
    <3>1. PICK m \in request[r].todo : InsertMatch(r, m)
      BY <2>4
    <3>2. Becomes(r, "insert_matches", request[r].parties, request[r].todo \ {m},
                  request[r].found, request[r].number)
      BY <3>1, InsertMatchBecomes
    <3>3. /\ matches' = matches \union {m}
          /\ UNCHANGED <<latest, crashes>>
      BY <3>1 DEF InsertMatch, history
    <3>4. \A n : Kept(n) => Kept(n)'
      BY <3>2, <3>3 DEF Kept, At, Becomes
    <3>5. QED
      BY <3>3, <3>4, LatestIsKept
  <2>5. CASE \E m \in request[r].todo : InsertDisposition(r, m)
    <3>1. ~At(r, "insert_matches") /\ UNCHANGED <<matches, latest, crashes>>
      BY <2>5 DEF InsertDisposition, At, history
    <3>2. \A s \in Requests \ {r} : request'[s] = request[s]
      BY <2>5, EndsBecomes DEF InsertDisposition, Becomes
    <3>3. QED
      BY <3>1, <3>2, KeptByOthers, LatestIsKept
  <2>6. CASE WriteManifest(r)
    <3>1. request[r].todo = {} /\ UNCHANGED <<matches, latest, crashes>>
      BY <2>6 DEF WriteManifest, history
    <3>2. \A s \in Requests \ {r} : request'[s] = request[s]
      BY <2>6, EndsBecomes DEF WriteManifest, Becomes
    <3>3. \A n : Kept(n) => Kept(n)'
      BY <3>1, <3>2 DEF Kept, At
    <3>4. QED
      BY <3>1, <3>3, LatestIsKept
  <2>7. CASE ListFails(r)
    <3>1. ~At(r, "insert_matches") /\ UNCHANGED <<matches, latest, crashes>>
      BY <2>7 DEF ListFails, At, tables
    <3>2. \A s \in Requests \ {r} : request'[s] = request[s]
      BY <2>7, EndsBecomes DEF ListFails, Becomes
    <3>3. QED
      BY <3>1, <3>2, KeptByOthers, LatestIsKept
  <2>8. QED
    BY <1>4, <2>1, <2>2, <2>3, <2>4, <2>5, <2>6, <2>7 DEF Continue
<1>5. CASE UNCHANGED vars
  BY <1>5, LatestIsKept DEF vars, tables, history, Kept, At
<1>6. QED
  BY <1>2, <1>3, <1>4, <1>5 DEF Next

-----------------------------------------------------------------------------
(***************************************************************************)
(* Which matches a step of r makes seen: those it adds to the tables or    *)
(* holds for a disposition.                                                *)
(***************************************************************************)
LEMMA SeenByStep ==
  ASSUME NEW r \in Requests, NEW m,
         \A s \in Requests \ {r} : request'[s] = request[s],
         matches' \subseteq matches, UNCHANGED dispositions,
         request'[r].at = "insert_disposition" => request'[r].todo \subseteq matches,
         Seen(m)'
  PROVE  Seen(m)
BY DEF Seen, At

(***************************************************************************)
(* A step that makes nothing seen keeps match ids fresh, when r starts no  *)
(* screening and the ids it holds are its own.                             *)
(***************************************************************************)
LEMMA FreshByStep ==
  ASSUME Fresh, RpsTypeOK', NEW r \in Requests,
         \A s \in Requests \ {r} : request'[s] = request[s],
         screenings' = screenings,
         \A m \in ScreeningMatch : Seen(m)' => Seen(m),
         Screening(r)' => Screening(r) /\ request'[r].number = request[r].number,
         request'[r].at \in {"screen_parties", "delete_matches"} =>
           request[r].at \in {"screen_parties", "delete_matches"},
         request'[r].at \in {"delete_matches", "insert_matches"} =>
           \A m \in request'[r].todo : m.screening = request[r].number,
         At(r, "insert_matches")' => \A m \in request'[r].todo : ~Seen(m)
  PROVE  Fresh'
<1>1. \A m \in ScreeningMatch : Seen(m)' => m.screening <= screenings'
  BY DEF Fresh
<1>2. \A q \in Requests : Screening(q)' =>
        Screening(q) /\ request'[q].number = request[q].number
  BY DEF Screening
<1>3. \A q \in Requests : Screening(q)' => request'[q].number \in 1..screenings'
  BY <1>2 DEF Fresh
<1>4. \A p, q \in Requests : Screening(p)' /\ Screening(q)' /\ p # q =>
        request'[p].number # request'[q].number
  BY <1>2 DEF Fresh
<1>5. \A q \in Requests : request'[q].at \in {"delete_matches", "insert_matches"} =>
        \A m \in request'[q].todo : m.screening = request'[q].number
  BY <1>2 DEF Fresh, Screening
<1>6. \A q \in Requests : request'[q].at \in {"screen_parties", "delete_matches"} =>
        \A m \in ScreeningMatch : Seen(m)' => m.screening # request'[q].number
  BY <1>2 DEF Fresh, Screening
<1>7. \A q \in Requests : At(q, "insert_matches")' =>
        \A m \in request'[q].todo : ~Seen(m)'
  <2>1. \A q \in Requests : request'[q].todo \subseteq ScreeningMatch
    BY DEF RpsTypeOK, RequestRecords
  <2>2. QED
    BY <2>1 DEF Fresh, At
<1>8. QED
  BY <1>1, <1>3, <1>4, <1>5, <1>6, <1>7 DEF Fresh

(***************************************************************************)
(* No step gives a screening an id that was seen before.                   *)
(***************************************************************************)
LEMMA IdsStayFresh ==
  ASSUME RpsTypeOK, Fresh, [Next]_vars
  PROVE  Fresh'
<1>1. RpsTypeOK'
  BY TypesAreKept
<1>2. CASE Crash
  BY <1>2 DEF Crash, Fresh, Seen, At, Screening, Idle, tables
<1>3. ASSUME NEW r \in Requests, NEW named \in (SUBSET Parties) \ {{}}, CreateEvent(r, named)
      PROVE  Fresh'
  <2>1. Becomes(r, "insert_parties", named, request[r].todo, request[r].found,
                request[r].number)
    BY <1>3, CreateBecomes
  <2>2. UNCHANGED <<matches, dispositions, screenings>>
    BY <1>3 DEF CreateEvent, history
  <2>3. \A m \in ScreeningMatch : Seen(m)' => Seen(m)
    BY <2>1, <2>2, SeenByStep DEF Becomes
  <2>4. QED
    BY <1>1, <2>1, <2>2, <2>3, FreshByStep DEF Becomes, Screening, At
<1>4. ASSUME NEW r \in Requests, ScreenEvent(r)
      PROVE  Fresh'
  <2>1. Becomes(r, "screen_parties", request[r].parties, request[r].todo,
                request[r].found, screenings + 1)
    BY <1>4, ScreenBecomes
  <2>2. UNCHANGED <<matches, dispositions>> /\ screenings' = screenings + 1
    BY <1>4 DEF ScreenEvent, tables
  <2>3. \A m \in ScreeningMatch : Seen(m)' => Seen(m)
    BY <2>1, <2>2, SeenByStep DEF Becomes
  <2>4. \A m \in ScreeningMatch : Seen(m)' => m.screening <= screenings
    BY <2>3 DEF Fresh
  <2>5. screenings \in Nat /\ \A m \in ScreeningMatch : m.screening \in Nat
    BY DEF RpsTypeOK, ScreeningMatch
  <2>6. \A q \in Requests \ {r} : Screening(q)' => /\ Screening(q)
                                                  /\ request[q].number \in 1..screenings
    BY <2>1 DEF Becomes, Screening, Fresh
  <2>7. \A m \in ScreeningMatch : Seen(m)' => m.screening <= screenings'
    BY <2>2, <2>4, <2>5
  <2>8. \A q \in Requests : Screening(q)' => request'[q].number \in 1..screenings'
    BY <2>1, <2>2, <2>5, <2>6 DEF Becomes
  <2>9. \A p, q \in Requests : Screening(p)' /\ Screening(q)' /\ p # q =>
          request'[p].number # request'[q].number
    BY <2>1, <2>5, <2>6 DEF Becomes, Fresh
  <2>10. \A q \in Requests : request'[q].at \in {"delete_matches", "insert_matches"} =>
           \A m \in request'[q].todo : m.screening = request'[q].number
    BY <2>1 DEF Becomes, Fresh
  <2>11. \A q \in Requests : request'[q].at \in {"screen_parties", "delete_matches"} =>
           \A m \in ScreeningMatch : Seen(m)' => m.screening # request'[q].number
    BY <2>1, <2>3, <2>4, <2>5 DEF Becomes, Fresh
  <2>12. \A q \in Requests : At(q, "insert_matches")' =>
           \A m \in request'[q].todo : ~Seen(m)'
    <3>1. \A q \in Requests : request'[q].todo \subseteq ScreeningMatch
      BY <1>1 DEF RpsTypeOK, RequestRecords
    <3>2. QED
      BY <2>1, <2>3, <3>1 DEF Becomes, Fresh, At
  <2>13. QED
    BY <2>7, <2>8, <2>9, <2>10, <2>11, <2>12 DEF Fresh
<1>5. ASSUME NEW r \in Requests, NEW m \in matches, DispositionChecks(r, m)
      PROVE  Fresh'
  <2>1. Becomes(r, "insert_disposition", request[r].parties, {m}, request[r].found,
                request[r].number)
    BY <1>5, DispositionBecomes
  <2>2. UNCHANGED <<matches, dispositions, screenings>>
    BY <1>5 DEF DispositionChecks, tables, history
  <2>3. \A n \in ScreeningMatch : Seen(n)' => Seen(n)
    BY <2>1, <2>2, SeenByStep DEF Becomes
  <2>4. QED
    BY <1>1, <2>1, <2>2, <2>3, FreshByStep DEF Becomes, Screening, At
<1>6. ASSUME NEW r \in Requests, NEW p \in Parties, InsertParty(r, p)
      PROVE  Fresh'
  <2>1. \/ Becomes(r, "idle", {}, {}, 0, 0)
        \/ Becomes(r, "insert_parties", request[r].parties \ {p}, request[r].todo,
                   request[r].found, request[r].number)
    BY <1>6, InsertPartyBecomes
  <2>2. UNCHANGED <<matches, dispositions, screenings>>
    BY <1>6 DEF InsertParty, history
  <2>3. \A n \in ScreeningMatch : Seen(n)' => Seen(n)
    BY <2>1, <2>2, SeenByStep DEF Becomes
  <2>4. QED
    BY <1>1, <2>1, <2>2, <2>3, FreshByStep DEF Becomes, Screening, At
<1>7. ASSUME NEW r \in Requests, NEW hits \in SUBSET (parties \X Entries),
             ScreenParties(r, hits)
      PROVE  Fresh'
  <2> DEFINE made == {[screening |-> request[r].number, party |-> hit[1],
                       entry |-> hit[2]] : hit \in hits}
  <2>1. Becomes(r, "delete_matches", parties, made, Cardinality(hits),
                request[r].number)
    BY <1>7, ScreenPartiesBecomes
  <2>2. \A m \in made : m.screening = request[r].number
    OBVIOUS
  <2> HIDE DEF made
  <2>3. UNCHANGED <<matches, dispositions, screenings>> /\ At(r, "screen_parties")
    BY <1>7 DEF ScreenParties, tables, history
  <2>4. \A n \in ScreeningMatch : Seen(n)' => Seen(n)
    BY <2>1, <2>3, SeenByStep DEF Becomes
  <2>5. QED
    BY <1>1, <2>1, <2>2, <2>3, <2>4, FreshByStep DEF Becomes, Screening, At
<1>8. ASSUME NEW r \in Requests, DeleteMatches(r)
      PROVE  Fresh'
  <2>1. Becomes(r, "insert_matches", request[r].parties, request[r].todo,
                request[r].found, request[r].number)
    BY <1>8, DeleteBecomes
  <2>2. /\ matches' \subseteq matches /\ UNCHANGED <<dispositions, screenings>>
        /\ At(r, "delete_matches")
    BY <1>8 DEF DeleteMatches
  <2>3. \A n \in ScreeningMatch : Seen(n)' => Seen(n)
    BY <2>1, <2>2, SeenByStep DEF Becomes
  <2>4. /\ request[r].todo \subseteq ScreeningMatch
        /\ \A m \in request[r].todo : m.screening = request[r].number
    BY <2>2 DEF RpsTypeOK, RequestRecords, Fresh, At
  <2>5. \A m \in request[r].todo : ~Seen(m)
    BY <2>2, <2>4 DEF Fresh, At
  <2>6. QED
    BY <1>1, <2>1, <2>2, <2>3, <2>4, <2>5, FreshByStep DEF Becomes, Screening, At
<1>9. ASSUME NEW r \in Requests, NEW m \in request[r].todo, InsertMatch(r, m)
      PROVE  Fresh'
  <2>1. Becomes(r, "insert_matches", request[r].parties, request[r].todo \ {m},
                request[r].found, request[r].number)
    BY <1>9, InsertMatchBecomes
  <2>2. /\ matches' = matches \union {m} /\ UNCHANGED <<dispositions, screenings>>
        /\ At(r, "insert_matches")
    BY <1>9 DEF InsertMatch, history
  <2>3. m.screening = request[r].number /\ request[r].number \in 1..screenings
    BY <2>2 DEF Fresh, At, Screening
  <2>4. \A n \in ScreeningMatch : Seen(n)' => Seen(n) \/ n = m
    BY <2>1, <2>2 DEF Seen, At, Becomes
  <2>5. \A q \in Requests : Screening(q)' =>
          Screening(q) /\ request'[q].number = request[q].number
    BY <2>1, <2>2 DEF Becomes, Screening, At
  <2>6. \A n \in ScreeningMatch : Seen(n)' => n.screening <= screenings'
    BY <2>2, <2>3, <2>4 DEF Fresh, RpsTypeOK
  <2>7. /\ \A q \in Requests : Screening(q)' => request'[q].number \in 1..screenings'
        /\ \A p, q \in Requests : Screening(p)' /\ Screening(q)' /\ p # q =>
             request'[p].number # request'[q].number
    BY <2>2, <2>5 DEF Fresh
  <2>8. \A q \in Requests : request'[q].at \in {"delete_matches", "insert_matches"} =>
          \A n \in request'[q].todo : n.screening = request'[q].number
    BY <2>1, <2>2 DEF Fresh, Becomes, At
  <2>9. \A q \in Requests \ {r} : Screening(q) => request[q].number # m.screening
    BY <2>2, <2>3 DEF Fresh, Screening, At
  <2>10. \A q \in Requests : request'[q].at \in {"screen_parties", "delete_matches"} =>
           \A n \in ScreeningMatch : Seen(n)' => n.screening # request'[q].number
    BY <2>1, <2>4, <2>9 DEF Fresh, Becomes, Screening
  <2>11. \A q \in Requests : At(q, "insert_matches")' =>
           \A n \in request'[q].todo : ~Seen(n)'
    <3>1. \A q \in Requests : request'[q].todo \subseteq ScreeningMatch
      BY <1>1 DEF RpsTypeOK, RequestRecords
    <3>2. \A q \in Requests : At(q, "insert_matches")' =>
            m \notin request'[q].todo /\ \A n \in request'[q].todo : ~Seen(n)
      BY <2>1, <2>2, <2>9 DEF Fresh, Becomes, Screening, At
    <3>3. QED
      BY <2>4, <3>1, <3>2
  <2>12. QED
    BY <2>6, <2>7, <2>8, <2>10, <2>11 DEF Fresh
<1>10. ASSUME NEW r \in Requests, NEW m \in request[r].todo, InsertDisposition(r, m)
       PROVE  Fresh'
  <2>1. Becomes(r, "idle", {}, {}, 0, 0)
    BY <1>10, EndsBecomes DEF InsertDisposition
  <2>2. /\ UNCHANGED <<matches, screenings>> /\ At(r, "insert_disposition")
        /\ dispositions' = Append(dispositions, m)
    BY <1>10 DEF InsertDisposition, history
  <2>3. \A i \in DOMAIN dispositions' :
          \/ dispositions'[i] = m
          \/ i \in DOMAIN dispositions /\ dispositions'[i] = dispositions[i]
    <3>1. dispositions \in Seq(ScreeningMatch)
      BY DEF RpsTypeOK
    <3>2. /\ DOMAIN dispositions = 1..Len(dispositions)
          /\ DOMAIN dispositions' = 1..(Len(dispositions) + 1)
          /\ Len(dispositions) \in Nat
      BY <2>2, <3>1
    <3>3. /\ dispositions'[Len(dispositions) + 1] = m
          /\ \A i \in 1..Len(dispositions) : dispositions'[i] = dispositions[i]
      BY <2>2, <3>1
    <3>4. QED
      BY <3>2, <3>3
  <2>4. Seen(m)
    BY <2>2 DEF Seen
  <2>5. \A n \in ScreeningMatch : Seen(n)' => Seen(n)
    BY <2>1, <2>2, <2>3, <2>4 DEF Seen, Becomes, At
  <2>6. QED
    BY <1>1, <2>1, <2>2, <2>5, FreshByStep DEF Becomes, Screening, At
<1>11. ASSUME NEW r \in Requests, WriteManifest(r)
       PROVE  Fresh'
  <2>1. Becomes(r, "idle", {}, {}, 0, 0)
    BY <1>11, EndsBecomes DEF WriteManifest
  <2>2. UNCHANGED <<matches, dispositions, screenings>>
    BY <1>11 DEF WriteManifest, history
  <2>3. \A n \in ScreeningMatch : Seen(n)' => Seen(n)
    BY <2>1, <2>2, SeenByStep DEF Becomes
  <2>4. QED
    BY <1>1, <2>1, <2>2, <2>3, FreshByStep DEF Becomes, Screening, At
<1>16. ASSUME NEW r \in Requests, ListFails(r)
       PROVE  Fresh'
  <2>1. Becomes(r, "idle", {}, {}, 0, 0)
    BY <1>16, EndsBecomes DEF ListFails
  <2>2. UNCHANGED <<matches, dispositions, screenings>>
    BY <1>16 DEF ListFails, tables
  <2>3. \A n \in ScreeningMatch : Seen(n)' => Seen(n)
    BY <2>1, <2>2, SeenByStep DEF Becomes
  <2>4. QED
    BY <1>1, <2>1, <2>2, <2>3, FreshByStep DEF Becomes, Screening, At
<1>12. CASE UNCHANGED vars
  BY <1>12 DEF vars, tables, history, Fresh, Seen, At, Screening
<1>13. ASSUME NEW r \in Requests, Begin(r) PROVE Fresh'
  BY <1>3, <1>4, <1>5, <1>13 DEF Begin
<1>14. ASSUME NEW r \in Requests, Continue(r) PROVE Fresh'
  BY <1>6, <1>7, <1>8, <1>9, <1>10, <1>11, <1>14, <1>16 DEF Continue
<1>15. QED
  BY <1>2, <1>12, <1>13, <1>14 DEF Next

(***************************************************************************)
(* The only step that adds a match adds one that was never seen, so no     *)
(* disposed match comes back.                                              *)
(***************************************************************************)
LEMMA DisposedMatchesStayGone ==
  ASSUME RpsTypeOK, Fresh, [Next]_vars, NEW i \in DOMAIN dispositions,
         dispositions[i] \notin matches
  PROVE  dispositions[i] \notin matches'
<1>1. CASE matches' \subseteq matches
  BY <1>1
<1>2. ASSUME NEW r \in Requests, NEW m \in request[r].todo, InsertMatch(r, m)
      PROVE  dispositions[i] \notin matches'
  <2>1. At(r, "insert_matches") /\ matches' = matches \union {m}
    BY <1>2 DEF InsertMatch
  <2>2. ~Seen(m)
    BY <2>1 DEF Fresh
  <2>3. dispositions[i] # m
    BY <2>2 DEF Seen
  <2>4. QED
    BY <2>1, <2>3
<1>3. matches' \subseteq matches
        \/ \E r \in Requests : \E m \in request[r].todo : InsertMatch(r, m)
  BY DEF Next, Crash, Begin, Continue, CreateEvent, ScreenEvent, DispositionChecks,
         InsertParty, ScreenParties, ListFails, DeleteMatches, InsertDisposition,
         WriteManifest,
         vars, tables
<1>4. QED
  BY <1>1, <1>2, <1>3

-----------------------------------------------------------------------------
(***************************************************************************)
(* The writer that runs alone counts what it writes (Counted), and the     *)
(* manifest it leaves tells it.                                            *)
(***************************************************************************)
Tally == Counted /\ ManifestTellsTheMatches

(***************************************************************************)
(* A request that neither writes nor begins to is of no account.           *)
(***************************************************************************)
LEMMA TallyByOthers ==
  ASSUME Tally, NEW r \in Requests, ~Writing(r), ~Writing(r)',
         \A s \in Requests \ {r} : request'[s] = request[s],
         UNCHANGED <<event, parties, matches, manifest, overlapped, crashes>>
  PROVE  Tally'
<1>1. \A q \in Requests : Writing(q)' => request'[q] = request[q]
  OBVIOUS
<1>2. \A q \in Requests : Writing(q)' <=> Writing(q)
  BY DEF Writing, Screening, At
<1>3. \A q \in Requests : Screening(q)' <=> Screening(q)
  BY DEF Writing, Screening, At
<1>4. ManifestTellsTheMatches'
  BY <1>3 DEF Tally, ManifestTellsTheMatches
<1>5. Counted'
  <2>1. \A q \in Requests : Replacing(q)' <=> Replacing(q)
    BY <1>1, <1>2 DEF Replacing, Writing, Screening, At
  <2>2. QED
    BY <1>1, <1>2, <2>1 DEF Tally, Counted, Quiet, Writing, Screening, At
<1>6. QED
  BY <1>4, <1>5 DEF Tally

(***************************************************************************)
(* A step of a writer r keeps the tally when r itself keeps it: while      *)
(* nothing overlaps, no other request writes.                              *)
(***************************************************************************)
LEMMA TallyByWriter ==
  ASSUME Tally, NEW r \in Requests, Writing(r),
         \A s \in Requests \ {r} : request'[s] = request[s],
         UNCHANGED <<event, overlapped, crashes>>,
         parties \subseteq parties',
         \A m \in matches' : m.party \in parties',
         request'[r].at \in {"delete_matches", "insert_matches"} =>
           \A m \in request'[r].todo : m.party \in parties',
         Quiet =>
           /\ At(r, "insert_parties")' => ~manifest'.written
           /\ At(r, "delete_matches")' =>
                /\ request'[r].parties = parties'
                /\ IsFiniteSet(request'[r].todo)
                /\ Cardinality(request'[r].todo) = request'[r].found
           /\ At(r, "insert_matches")' =>
                /\ request'[r].parties = parties'
                /\ Cardinality(matches' \union request'[r].todo) = request'[r].found
           /\ manifest'.written /\ ~Replacing(r)' =>
                /\ manifest'.party_count = Cardinality(parties')
                /\ manifest'.match_count = Cardinality(matches')
  PROVE  Tally'
<1>1. event' /\ (Quiet' <=> Quiet)
  BY DEF Tally, Counted, Quiet
<1>2. ASSUME Quiet, NEW q \in Requests \ {r}
      PROVE  ~Writing(q)'
  <2>1. ~Writing(q) /\ request'[q] = request[q]
    BY <1>2 DEF Tally, Counted
  <2>2. QED
    BY <2>1 DEF Writing, Screening, At
<1>3. ManifestTellsTheMatches'
  BY <1>1 DEF ManifestTellsTheMatches, Quiet, Screening, Replacing
<1>4. \A q \in Requests : request'[q].at \in {"delete_matches", "insert_matches"} =>
        \A m \in request'[q].todo : m.party \in parties'
  BY DEF Tally, Counted
<1>5. Quiet' => \A p, q \in Requests : Writing(p)' /\ Writing(q)' => p = q
  BY <1>1, <1>2
<1>6. Quiet' =>
        /\ \A q \in Requests : At(q, "insert_parties")' => ~manifest'.written
        /\ \A q \in Requests : At(q, "delete_matches")' =>
             /\ request'[q].parties = parties'
             /\ IsFiniteSet(request'[q].todo)
             /\ Cardinality(request'[q].todo) = request'[q].found
        /\ \A q \in Requests : At(q, "insert_matches")' =>
             /\ request'[q].parties = parties'
             /\ Cardinality(matches' \union request'[q].todo) = request'[q].found
  <2>1. SUFFICES ASSUME Quiet, NEW q \in Requests
        PROVE  /\ At(q, "insert_parties")' => ~manifest'.written
               /\ At(q, "delete_matches")' =>
                    /\ request'[q].parties = parties'
                    /\ IsFiniteSet(request'[q].todo)
                    /\ Cardinality(request'[q].todo) = request'[q].found
               /\ At(q, "insert_matches")' =>
                    /\ request'[q].parties = parties'
                    /\ Cardinality(matches' \union request'[q].todo) = request'[q].found
    BY <1>1
  <2>2. CASE q = r
    BY <2>1, <2>2
  <2>3. CASE q # r
    BY <1>2, <2>1, <2>3 DEF Writing, Screening, At
  <2>4. QED
    BY <2>2, <2>3
<1>7. Counted'
  <2>1. Quiet' /\ manifest'.written /\ (\A q \in Requests : ~Replacing(q)') =>
          /\ manifest'.party_count = Cardinality(parties')
          /\ manifest'.match_count = Cardinality(matches')
    BY <1>1
  <2>2. QED
    BY <1>1, <1>4, <1>5, <1>6, <2>1 DEF Counted
<1>8. QED
  BY <1>3, <1>7 DEF Tally

(***************************************************************************)
(* No step upsets the tally.                                               *)
(***************************************************************************)
LEMMA TallyIsKept ==
  ASSUME RpsTypeOK, Tally, [Next]_vars
  PROVE  Tally'
<1>1. CASE Crash
  <2>1. ~Quiet' /\ crashes' # 0
    BY <1>1 DEF Crash, RpsTypeOK, Quiet
  <2>2. UNCHANGED <<event, parties, matches, manifest>>
    BY <1>1 DEF Crash, tables
  <2>3. \A q \in Requests : request'[q].at = "idle"
    BY <1>1 DEF Crash, Idle
  <2>4. QED
    BY <2>1, <2>2, <2>3
    DEF Tally, Counted, ManifestTellsTheMatches, Writing, Screening, At
<1>2. ASSUME NEW r \in Requests, NEW named \in (SUBSET Parties) \ {{}}, CreateEvent(r, named)
      PROVE  Tally'
  <2>1. Becomes(r, "insert_parties", named, request[r].todo, request[r].found,
                request[r].number)
    BY <1>2, CreateBecomes
  <2>2. /\ UNCHANGED <<parties, matches, manifest, overlapped, crashes>>
        /\ event' /\ ~event
    BY <1>2 DEF CreateEvent, history
  <2>3. ~manifest'.written /\ \A q \in Requests : ~Writing(q)
    BY <2>2 DEF Tally, Counted
  <2>4. \A q \in Requests \ {r} : ~Writing(q)'
    BY <2>1, <2>3 DEF Becomes, Writing, Screening, At
  <2>5. At(r, "insert_parties")'
    BY <2>1 DEF Becomes, At
  <2>6. \A q \in Requests : request'[q].at \notin {"delete_matches", "insert_matches"}
    BY <2>4, <2>5 DEF Writing, Screening, At
  <2>7. QED
    BY <2>2, <2>3, <2>4, <2>6 DEF Tally, Counted, ManifestTellsTheMatches, At
<1>3. ASSUME NEW r \in Requests, ScreenEvent(r)
      PROVE  Tally'
  <2>1. Becomes(r, "screen_parties", request[r].parties, request[r].todo,
                request[r].found, screenings + 1)
    BY <1>3, ScreenBecomes
  <2>2. /\ UNCHANGED <<event, parties, matches, manifest, crashes>> /\ event
        /\ overlapped' = (overlapped \/ \E q \in Requests : Writing(q))
        /\ At(r, "idle")
    BY <1>3 DEF ScreenEvent, tables
  <2>3. Screening(r)' /\ At(r, "screen_parties")'
    BY <2>1 DEF Becomes, Screening, At
  <2>4. ASSUME Quiet', NEW q \in Requests \ {r}
        PROVE  ~Writing(q)'
    BY <2>1, <2>2, <2>4 DEF Quiet, Becomes, Writing, Screening, At
  <2>5. \A q \in Requests : request'[q].at \in {"delete_matches", "insert_matches"} =>
          \A m \in request'[q].todo : m.party \in parties'
    BY <2>1, <2>2 DEF Becomes, Tally, Counted
  <2>6. ManifestTellsTheMatches'
    BY <2>3 DEF ManifestTellsTheMatches
  <2>7. Quiet' =>
          \A q \in Requests :
            request'[q].at \notin {"insert_parties", "delete_matches", "insert_matches"}
    BY <2>3, <2>4 DEF Writing, Screening, At
  <2>8. Quiet' /\ manifest'.written =>
          /\ manifest'.party_count = Cardinality(parties')
          /\ manifest'.match_count = Cardinality(matches')
    <3>1. SUFFICES ASSUME Quiet', manifest'.written
                   PROVE  /\ manifest.party_count = Cardinality(parties)
                          /\ manifest.match_count = Cardinality(matches)
      BY <2>2
    <3>2. Quiet /\ manifest.written
      BY <2>2, <3>1 DEF Quiet
    <3>3. \A q \in Requests : ~Replacing(q)
      BY <2>1, <2>2, <2>4, <3>1 DEF Becomes, Replacing, Writing, Screening, At
    <3>4. QED
      BY <3>2, <3>3 DEF Tally, Counted
  <2>9. QED
    BY <2>2, <2>4, <2>5, <2>6, <2>7, <2>8 DEF Tally, Counted, At
<1>4. ASSUME NEW r \in Requests, NEW m \in matches, DispositionChecks(r, m)
      PROVE  Tally'
  <2>1. Becomes(r, "insert_disposition", request[r].parties, {m}, request[r].found,
                request[r].number)
    BY <1>4, DispositionBecomes
  <2>2. ~Writing(r) /\ UNCHANGED <<event, parties, matches, manifest, overlapped, crashes>>
    BY <1>4 DEF DispositionChecks, Writing, Screening, At, tables, history
  <2>3. ~Writing(r)'
    BY <2>1 DEF Becomes, Writing, Screening, At
  <2>4. QED
    BY <2>1, <2>2, <2>3, TallyByOthers DEF Becomes
<1>5. ASSUME NEW r \in Requests, NEW p \in Parties, InsertParty(r, p)
      PROVE  Tally'
  <2>1. \/ Becomes(r, "idle", {}, {}, 0, 0)
        \/ Becomes(r, "insert_parties", request[r].parties \ {p}, request[r].todo,
                   request[r].found, request[r].number)
    BY <1>5, InsertPartyBecomes
  <2>2. /\ UNCHANGED <<event, matches, manifest, overlapped, crashes>>
        /\ parties' = parties \union {p} /\ At(r, "insert_parties")
    BY <1>5 DEF InsertParty, history
  <2>3. request'[r].at \in {"idle", "insert_parties"}
    BY <2>1 DEF Becomes
  <2>4. Quiet => ~manifest'.written
    BY <2>2 DEF Tally, Counted
  <2>5. \A s \in Requests \ {r} : request'[s] = request[s]
    BY <2>1 DEF Becomes
  <2>6. \A n \in matches' : n.party \in parties'
    BY <2>2 DEF Tally, Counted
  <2>7. Writing(r)
    BY <2>2 DEF Writing
  <2>8. QED
    BY <2>2, <2>3, <2>4, <2>5, <2>6, <2>7, TallyByWriter DEF At
<1>6. ASSUME NEW r \in Requests, NEW hits \in SUBSET (parties \X Entries),
             ScreenParties(r, hits)
      PROVE  Tally'
  <2> DEFINE made == {[screening |-> request[r].number, party |-> hit[1],
                       entry |-> hit[2]] : hit \in hits}
  <2>1. /\ Becomes(r, "delete_matches", parties, made, Cardinality(hits),
                   request[r].number)
        /\ IsFiniteSet(made) /\ Cardinality(made) = Cardinality(hits)
    BY <1>6, ScreenPartiesBecomes
  <2>2. \A m \in made : m.party \in parties
    OBVIOUS
  <2> HIDE DEF made
  <2>3. /\ UNCHANGED <<event, parties, matches, manifest, overlapped, crashes>>
        /\ At(r, "screen_parties")
    BY <1>6 DEF ScreenParties, tables, history
  <2>4. Writing(r)
    BY <2>3 DEF Writing, Screening, At
  <2>5. request'[r].at = "delete_matches" /\ Screening(r)'
    BY <2>1 DEF Becomes, Screening
  <2>6. \A m \in matches' : m.party \in parties'
    BY <2>3 DEF Tally, Counted
  <2>7. QED
    BY <2>1, <2>2, <2>3, <2>4, <2>5, <2>6, TallyByWriter DEF Becomes, Replacing, At
<1>7. ASSUME NEW r \in Requests, DeleteMatches(r)
      PROVE  Tally'
  <2>1. Becomes(r, "insert_matches", request[r].parties, request[r].todo,
                request[r].found, request[r].number)
    BY <1>7, DeleteBecomes
  <2>2. /\ UNCHANGED <<event, parties, manifest, overlapped, crashes>>
        /\ matches' = {m \in matches : m.party \notin request[r].parties}
        /\ At(r, "delete_matches")
    BY <1>7 DEF DeleteMatches
  <2>3. Writing(r)
    BY <2>2 DEF Writing, Screening, At
  <2>4. request'[r].at = "insert_matches" /\ Screening(r)'
    BY <2>1 DEF Becomes, Screening
  <2>5. \A m \in matches' : m.party \in parties'
    BY <2>2 DEF Tally, Counted
  <2>6. \A m \in request'[r].todo : m.party \in parties'
    BY <2>1, <2>2 DEF Becomes, Tally, Counted, At
  <2>7. Quiet => /\ request'[r].parties = parties'
                 /\ Cardinality(matches' \union request'[r].todo) = request'[r].found
    <3>1. SUFFICES ASSUME Quiet
                   PROVE  /\ request'[r].parties = parties'
                          /\ Cardinality(matches' \union request'[r].todo)
                               = request'[r].found
      OBVIOUS
    <3>2. /\ request[r].parties = parties
          /\ Cardinality(request[r].todo) = request[r].found
      BY <2>2, <3>1 DEF Tally, Counted
    <3>3. matches' = {}
      BY <2>2, <3>2 DEF Tally, Counted
    <3>4. matches' \union request'[r].todo = request[r].todo
      BY <2>1, <3>3 DEF Becomes
    <3>5. QED
      BY <2>1, <2>2, <3>2, <3>4 DEF Becomes
  <2>8. QED
    BY <2>1, <2>2, <2>3, <2>4, <2>5, <2>6, <2>7, TallyByWriter DEF Becomes, Replacing, At
<1>8. ASSUME NEW r \in Requests, NEW m \in request[r].todo, InsertMatch(r, m)
      PROVE  Tally'
  <2>1. Becomes(r, "insert_matches", request[r].parties, request[r].todo \ {m},
                request[r].found, request[r].number)
    BY <1>8, InsertMatchBecomes
  <2>2. /\ UNCHANGED <<event, parties, manifest, overlapped, crashes>>
        /\ matches' = matches \union {m} /\ At(r, "insert_matches")
    BY <1>8 DEF InsertMatch, history
  <2>3. Writing(r)
    BY <2>2 DEF Writing, Screening, At
  <2>4. request'[r].at = "insert_matches" /\ Screening(r)'
    BY <2>1 DEF Becomes, Screening
  <2>5. \A n \in matches' : n.party \in parties'
    BY <2>2 DEF Tally, Counted, At
  <2>6. \A n \in request'[r].todo : n.party \in parties'
    BY <2>1, <2>2 DEF Becomes, Tally, Counted, At
  <2>7. matches' \union request'[r].todo = matches \union request[r].todo
    BY <2>1, <2>2 DEF Becomes
  <2>8. Quiet => /\ request'[r].parties = parties'
                 /\ Cardinality(matches' \union request'[r].todo) = request'[r].found
    BY <2>1, <2>2, <2>7 DEF Becomes, Tally, Counted
  <2>9. QED
    BY <2>1, <2>2, <2>3, <2>4, <2>5, <2>6, <2>8, TallyByWriter DEF Becomes, Replacing, At
<1>9. ASSUME NEW r \in Requests, NEW m \in request[r].todo, InsertDisposition(r, m)
      PROVE  Tally'
  <2>1. Becomes(r, "idle", {}, {}, 0, 0)
    BY <1>9, EndsBecomes DEF InsertDisposition
  <2>2. ~Writing(r) /\ UNCHANGED <<event, parties, matches, manifest, overlapped, crashes>>
    BY <1>9 DEF InsertDisposition, Writing, Screening, At, history
  <2>3. ~Writing(r)'
    BY <2>1 DEF Becomes, Writing, Screening, At
  <2>4. QED
    BY <2>1, <2>2, <2>3, TallyByOthers DEF Becomes
<1>10. ASSUME NEW r \in Requests, WriteManifest(r)
       PROVE  Tally'
  <2>1. Becomes(r, "idle", {}, {}, 0, 0)
    BY <1>10, EndsBecomes DEF WriteManifest
  <2>2. /\ UNCHANGED <<event, parties, matches, overlapped, crashes>>
        /\ manifest' = ManifestOf(Cardinality(request[r].parties), request[r].found)
        /\ At(r, "insert_matches") /\ request[r].todo = {}
    BY <1>10 DEF WriteManifest, history
  <2>3. Writing(r)
    BY <2>2 DEF Writing, Screening, At
  <2>4. request'[r].at = "idle"
    BY <2>1 DEF Becomes
  <2>5. \A m \in matches' : m.party \in parties'
    BY <2>2 DEF Tally, Counted
  <2>6. Quiet => /\ manifest'.party_count = Cardinality(parties')
                 /\ manifest'.match_count = Cardinality(matches')
    <3>1. SUFFICES ASSUME Quiet
                   PROVE  /\ manifest'.party_count = Cardinality(parties')
                          /\ manifest'.match_count = Cardinality(matches')
      OBVIOUS
    <3>2. /\ request[r].parties = parties
          /\ Cardinality(matches \union request[r].todo) = request[r].found
      BY <2>2, <3>1 DEF Tally, Counted
    <3>3. matches \union request[r].todo = matches'
      BY <2>2
    <3>4. QED
      BY <2>2, <3>2, <3>3 DEF ManifestOf
  <2>7. QED
    BY <2>1, <2>2, <2>3, <2>4, <2>5, <2>6, TallyByWriter DEF Becomes, At
<1>15. ASSUME NEW r \in Requests, ListFails(r)
       PROVE  Tally'
  <2>1. Becomes(r, "idle", {}, {}, 0, 0)
    BY <1>15, EndsBecomes DEF ListFails
  <2>2. /\ UNCHANGED <<event, parties, matches, manifest, overlapped, crashes>>
        /\ At(r, "screen_parties")
    BY <1>15 DEF ListFails, tables
  <2>3. Writing(r) /\ ~Replacing(r)
    BY <2>2 DEF Writing, Screening, Replacing, At
  <2>4. Quiet => \A q \in Requests : ~Replacing(q)
    BY <2>3 DEF Tally, Counted, Replacing, Writing, Screening
  <2>5. Quiet /\ manifest'.written =>
          /\ manifest'.party_count = Cardinality(parties')
          /\ manifest'.match_count = Cardinality(matches')
    BY <2>2, <2>4 DEF Tally, Counted
  <2>6. \A m \in matches' : m.party \in parties'
    BY <2>2 DEF Tally, Counted
  <2>7. request'[r].at = "idle"
    BY <2>1 DEF Becomes
  <2>8. QED
    BY <2>1, <2>2, <2>3, <2>5, <2>6, <2>7, TallyByWriter DEF Becomes, At
<1>11. CASE UNCHANGED vars
  BY <1>11 DEF vars, tables, history, Tally, Counted, ManifestTellsTheMatches, Quiet,
               Replacing, Writing, Screening, At
<1>12. ASSUME NEW r \in Requests, Begin(r) PROVE Tally'
  BY <1>2, <1>3, <1>4, <1>12 DEF Begin
<1>13. ASSUME NEW r \in Requests, Continue(r) PROVE Tally'
  BY <1>5, <1>6, <1>7, <1>8, <1>9, <1>10, <1>13, <1>15 DEF Continue
<1>14. QED
  BY <1>1, <1>11, <1>12, <1>13 DEF Next

-----------------------------------------------------------------------------
(***************************************************************************)
(* The inductive invariant: types, fresh ids, the hits kept and the tally. *)
(***************************************************************************)
LEMMA InvariantAlways ==
  Spec => []IInv
<1>1. Init => IInv
  <2>1. SUFFICES ASSUME Init PROVE IInv
    OBVIOUS
  <2>2. Idle \in RequestRecords /\ Idle.at = "idle" /\ Idle.todo = {}
    BY DEF Idle, RequestRecords, Labels
  <2>3. \A r \in Requests : request[r] = Idle
    BY <2>1 DEF Init
  <2>4. RpsTypeOK
    <3>1. dispositions \in Seq(ScreeningMatch) /\ request \in [Requests -> RequestRecords]
      BY <2>1, <2>2 DEF Init
    <3>2. manifest \in [party_count : Nat, match_count : Nat, written : BOOLEAN]
      BY <2>1 DEF Init, NoManifest
    <3>3. QED
      BY <2>1, <3>1, <3>2 DEF Init, RpsTypeOK
  <2>5. \A m : ~Seen(m)
    BY <2>1, <2>2, <2>3 DEF Init, Seen, At
  <2>6. Fresh
    BY <2>2, <2>3, <2>5 DEF Fresh, Screening, At
  <2>7. LatestHitsAreKept
    BY <2>1 DEF Init, LatestHitsAreKept
  <2>8. Counted /\ ManifestTellsTheMatches
    BY <2>1, <2>2, <2>3 DEF Init, Counted, ManifestTellsTheMatches, NoManifest,
       Writing, Screening, At
  <2>9. QED
    BY <2>4, <2>6, <2>7, <2>8 DEF IInv
<1>2. IInv /\ [Next]_vars => IInv'
  BY TypesAreKept, IdsStayFresh, LatestHitsStayKept, TallyIsKept DEF IInv, Tally
<1>3. QED
  BY <1>1, <1>2, PTL DEF Spec

(***************************************************************************)
(* The rows of an event, what its requests hold and its manifest have      *)
(* their types in every reachable state.                                   *)
(***************************************************************************)
THEOREM RpsTypeCorrect == Spec => []RpsTypeOK
<1>1. IInv => RpsTypeOK
  BY DEF IInv
<1>2. QED
  BY <1>1, InvariantAlways, PTL

(***************************************************************************)
(* For any number of overlapping screenings: until the process dies, what  *)
(* the last one to delete had found is in the table or about to be.        *)
(***************************************************************************)
THEOREM LatestHitsAreNeverLost == Spec => []LatestHitsAreKept
<1>1. IInv => LatestHitsAreKept
  BY DEF IInv
<1>2. QED
  BY <1>1, InvariantAlways, PTL

(***************************************************************************)
(* The manifest of a screening nothing overlapped counts the parties and   *)
(* the matches that are in the tables.                                     *)
(***************************************************************************)
THEOREM ManifestIsTrue == Spec => []ManifestTellsTheMatches
<1>1. IInv => ManifestTellsTheMatches
  BY DEF IInv
<1>2. QED
  BY <1>1, InvariantAlways, PTL

(***************************************************************************)
(* A match that was disposed of and removed by a new screening never comes *)
(* back under its id, whatever overlaps and whenever the process dies.     *)
(***************************************************************************)
THEOREM NoDispositionIsInherited == Spec => NoInheritedDisposition
<1>1. IInv /\ [Next]_vars =>
        [\A i \in DOMAIN dispositions :
           dispositions[i] \notin matches => dispositions[i] \notin matches']_vars
  BY DisposedMatchesStayGone DEF IInv
<1>2. QED
  BY <1>1, InvariantAlways, PTL DEF Spec, NoInheritedDisposition
=============================================================================
