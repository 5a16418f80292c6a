-------------------------------- MODULE Rps --------------------------------
(***************************************************************************)
(* One restricted-party screening event: screening/rps_service.py over     *)
(* screening/rps_store.py and the routes of api/rps_routes.py, one SQL     *)
(* statement at a time. As for cases, each request has a thread and a      *)
(* connection of its own and no transaction.                               *)
(*                                                                         *)
(* Events do not share rows: the ids of events, parties and matches are    *)
(* fresh uuids, so the DELETEs of save_event and save_parties find nothing *)
(* and no INSERT meets a taken key. What a screening finds is any set of   *)
(* hits on the parties it loaded, since the list file may change or be     *)
(* left out between two screenings; a file that is missing or malformed    *)
(* ends the screening. The vocabulary of reasons is left out.              *)
(***************************************************************************)
EXTENDS Naturals, Sequences, FiniteSets

CONSTANTS
  Parties,           \* the persons and organizations a client may name
  Entries,           \* entries of the restricted-party lists
  Requests,          \* the requests that can be in progress at one time
  MaxScreenings,     \* bound: how often the event is screened
  MaxDispositions,   \* bound: rows of screening_dispositions
  MaxCrashes         \* bound: how often the process dies

ASSUME InputAssumption ==
  /\ IsFiniteSet(Parties) /\ IsFiniteSet(Entries)
  /\ MaxScreenings \in Nat /\ MaxDispositions \in Nat /\ MaxCrashes \in Nat

\* A match is known by the screening that gave it its id, and what it relates.
ScreeningMatch == [screening : Nat, party : Parties, entry : Entries]

NoManifest == [party_count |-> 0, match_count |-> 0, written |-> FALSE]

ManifestOf(partyCount, matchCount) ==
  [party_count |-> partyCount, match_count |-> matchCount, written |-> TRUE]

Labels == {"idle", "insert_parties", "screen_parties", "delete_matches",
           "insert_matches", "insert_disposition"}

VARIABLES
  event,             \* the row of screening_events is there
  parties,           \* table screening_parties
  matches,           \* table screening_matches
  dispositions,      \* table screening_dispositions: the match of each row
  manifest,          \* the ScreeningEventManifest on disk
  request,           \* what each request is doing
  screenings,        \* how many screenings have started
  reported,          \* history: the screenings that wrote a manifest
  unread,            \* history: the screenings whose list file failed
  latest,            \* history: what the last screening to delete had found
  overlapped,        \* history: a screening met a creation or another screening
  crashes            \* how often the process died

tables == <<event, parties, matches, dispositions, manifest>>
history == <<screenings, reported, unread, latest, overlapped, crashes>>
vars == <<tables, request, history>>

RequestRecords ==
  [at      : Labels,                 \* the next statement
   parties : SUBSET Parties,         \* parties to insert, or being screened
   todo    : SUBSET ScreeningMatch,  \* matches still to insert, or disposed of
   found   : Nat,                    \* how many matches the screening has
   number  : Nat]                    \* which screening it is

Idle == [at |-> "idle", parties |-> {}, todo |-> {}, found |-> 0, number |-> 0]

RpsTypeOK ==
  /\ event \in BOOLEAN
  /\ parties \subseteq Parties
  /\ matches \subseteq ScreeningMatch
  /\ dispositions \in Seq(ScreeningMatch)
  /\ manifest \in [party_count : Nat, match_count : Nat, written : BOOLEAN]
  /\ request \in [Requests -> RequestRecords]
  /\ screenings \in Nat
  /\ reported \subseteq Nat /\ unread \subseteq Nat
  /\ latest \subseteq ScreeningMatch
  /\ overlapped \in BOOLEAN
  /\ crashes \in Nat

Init ==
  /\ event = FALSE /\ parties = {} /\ matches = {} /\ dispositions = <<>>
  /\ manifest = NoManifest
  /\ request = [r \in Requests |-> Idle]
  /\ screenings = 0 /\ reported = {} /\ unread = {}
  /\ latest = {} /\ overlapped = FALSE /\ crashes = 0

At(r, label) == request[r].at = label

Ends(r) == request' = [request EXCEPT ![r] = Idle]

AllIdle == \A r \in Requests : At(r, "idle")

Screening(r) == request[r].at \in {"screen_parties", "delete_matches", "insert_matches"}

\* Request r writes parties, matches or the manifest, or is about to.
Writing(r) == Screening(r) \/ At(r, "insert_parties")

-----------------------------------------------------------------------------
(***************************************************************************)
(* POST /screening-events/hire, /visiting-scholar, /purchasing             *)
(***************************************************************************)

\* create_event saves the event before its parties: GET /screening-events
\* lists it from here on.
CreateEvent(r, named) ==
  /\ At(r, "idle") /\ ~event
  /\ event' = TRUE
  /\ request' = [request EXCEPT ![r].at = "insert_parties", ![r].parties = named]
  /\ UNCHANGED <<parties, matches, dispositions, manifest, history>>

InsertParty(r, p) ==
  /\ At(r, "insert_parties") /\ p \in request[r].parties
  /\ parties' = parties \union {p}
  /\ IF request[r].parties = {p} THEN Ends(r)
     ELSE request' = [request EXCEPT ![r].parties = @ \ {p}]
  /\ UNCHANGED <<event, matches, dispositions, manifest, history>>

-----------------------------------------------------------------------------
(***************************************************************************)
(* POST /screening-events/{id}/screen                                      *)
(***************************************************************************)

ScreenEvent(r) ==
  /\ At(r, "idle") /\ event
  /\ screenings < MaxScreenings
  /\ screenings' = screenings + 1
  /\ overlapped' = (overlapped \/ \E q \in Requests : Writing(q))
  /\ request' = [request EXCEPT ![r].at = "screen_parties",
                                ![r].number = screenings + 1]
  /\ UNCHANGED <<tables, reported, unread, latest, crashes>>

\* Mutated form: a match found again has the id it had before.
ScreenParties_SameIds(r, hits) ==
  /\ At(r, "screen_parties")
  /\ hits \subseteq parties \X Entries
  /\ request' = [request EXCEPT
       ![r].at = "delete_matches",
       ![r].parties = parties,
       ![r].found = Cardinality(hits),
       ![r].todo = {[screening |-> 0, party |-> hit[1], entry |-> hit[2]] : hit \in hits}]
  /\ UNCHANGED <<tables, history>>

\* load_parties, then the comparison with the lists, which reads no table.
ScreenParties(r, hits) ==
  /\ At(r, "screen_parties")
  /\ hits \subseteq parties \X Entries
  /\ request' = [request EXCEPT
       ![r].at = "delete_matches",
       ![r].parties = parties,
       ![r].found = Cardinality(hits),
       ![r].todo = {[screening |-> request[r].number,
                     party |-> hit[1], entry |-> hit[2]] : hit \in hits}]
  /\ UNCHANGED <<tables, history>>

\* cached_concern_list finds no file, or _build cannot read it: the error ends
\* the screening before it has touched a row. One that names no file goes on.
ListFails(r) ==
  /\ At(r, "screen_parties")
  /\ unread' = unread \union {request[r].number}
  /\ Ends(r)
  /\ UNCHANGED <<tables, screenings, reported, latest, overlapped, crashes>>

\* Mutated form: the screening of an event without parties returns early.
DeleteMatches_OrReturn(r) ==
  /\ At(r, "delete_matches")
  /\ matches' = {m \in matches : m.party \notin request[r].parties}
  /\ latest' = IF request[r].parties = {} THEN latest ELSE request[r].todo
  /\ IF request[r].parties = {} THEN Ends(r)
     ELSE request' = [request EXCEPT ![r].at = "insert_matches"]
  /\ UNCHANGED <<event, parties, dispositions, manifest, screenings, reported,
                 unread, overlapped, crashes>>

\* Mutated form: matches are deleted only where new ones are inserted.
DeleteMatches_WhereFound(r) ==
  /\ At(r, "delete_matches")
  /\ matches' = {m \in matches : \A n \in request[r].todo : n.party # m.party}
  /\ latest' = IF request[r].parties = {} THEN latest ELSE request[r].todo
  /\ request' = [request EXCEPT ![r].at = "insert_matches"]
  /\ UNCHANGED <<event, parties, dispositions, manifest, screenings, reported,
                 unread, overlapped, crashes>>

\* replace_matches: the DELETE. Without parties it is not executed.
DeleteMatches(r) ==
  /\ At(r, "delete_matches")
  /\ matches' = {m \in matches : m.party \notin request[r].parties}
  /\ latest' = IF request[r].parties = {} THEN latest ELSE request[r].todo
  /\ request' = [request EXCEPT ![r].at = "insert_matches"]
  /\ UNCHANGED <<event, parties, dispositions, manifest, screenings, reported,
                 unread, overlapped, crashes>>

\* Mutated form: a match is keyed by its party and entry, as a finding is by
\* what it says, and the key is unique.
InsertMatch_NaturalKey(r, m) ==
  /\ At(r, "insert_matches") /\ m \in request[r].todo
  /\ IF \E n \in matches : n.party = m.party /\ n.entry = m.entry
     THEN Ends(r) /\ UNCHANGED matches
     ELSE /\ matches' = matches \union {m}
          /\ request' = [request EXCEPT ![r].todo = @ \ {m}]
  /\ UNCHANGED <<event, parties, dispositions, manifest, history>>

\* replace_matches: one row of the INSERT.
InsertMatch(r, m) ==
  /\ At(r, "insert_matches") /\ m \in request[r].todo
  /\ matches' = matches \union {m}
  /\ request' = [request EXCEPT ![r].todo = @ \ {m}]
  /\ UNCHANGED <<event, parties, dispositions, manifest, history>>

WriteManifest(r) ==
  /\ At(r, "insert_matches") /\ request[r].todo = {}
  /\ manifest' = ManifestOf(Cardinality(request[r].parties), request[r].found)
  /\ reported' = reported \union {request[r].number}
  /\ Ends(r)
  /\ UNCHANGED <<event, parties, matches, dispositions, screenings, unread, latest,
                 overlapped, crashes>>

-----------------------------------------------------------------------------
(***************************************************************************)
(* POST /screening-events/{id}/matches/{match_id}/disposition              *)
(***************************************************************************)

\* The ids load_matches_for_event returns: matches of parties of the event.
KnownMatches == {m \in matches : m.party \in parties}

DispositionChecks(r, m) ==
  /\ At(r, "idle") /\ event
  /\ m \in KnownMatches
  /\ request' = [request EXCEPT ![r].at = "insert_disposition", ![r].todo = {m}]
  /\ UNCHANGED <<tables, history>>

\* Mutated form: the row names the party in place of the match.
InsertDisposition_OfParty(r, m) ==
  /\ At(r, "insert_disposition") /\ m \in request[r].todo
  /\ Len(dispositions) < MaxDispositions
  /\ dispositions' = Append(dispositions, m.party)
  /\ Ends(r)
  /\ UNCHANGED <<event, parties, matches, manifest, history>>

InsertDisposition(r, m) ==
  /\ At(r, "insert_disposition") /\ m \in request[r].todo
  /\ Len(dispositions) < MaxDispositions
  /\ dispositions' = Append(dispositions, m)
  /\ Ends(r)
  /\ UNCHANGED <<event, parties, matches, manifest, history>>

-----------------------------------------------------------------------------
\* The process dies; rows and files that were written stay.
Crash ==
  /\ ~AllIdle
  /\ crashes < MaxCrashes
  /\ crashes' = crashes + 1
  /\ request' = [r \in Requests |-> Idle]
  /\ UNCHANGED <<tables, screenings, reported, unread, latest, overlapped>>

\* The next statement of a request that has started.
Continue(r) ==
  \/ \E p \in Parties : InsertParty(r, p)
  \/ \E hits \in SUBSET (parties \X Entries) : ScreenParties(r, hits)
  \/ ListFails(r)
  \/ DeleteMatches(r)
  \/ \E m \in request[r].todo : InsertMatch(r, m) \/ InsertDisposition(r, m)
  \/ WriteManifest(r)

Begin(r) ==
  \/ \E named \in (SUBSET Parties) \ {{}} : CreateEvent(r, named)
  \/ ScreenEvent(r)
  \/ \E m \in matches : DispositionChecks(r, m)

Next == Crash \/ \E r \in Requests : Begin(r) \/ Continue(r)

Spec == Init /\ [][Next]_vars

\* A thread of the pool runs its request to the end.
FairSpec == Spec /\ \A r \in Requests : WF_vars(Continue(r))

-----------------------------------------------------------------------------
(***************************************************************************)
(* Properties                                                              *)
(***************************************************************************)

(***************************************************************************)
(* However screenings overlap, no hit of the latest one is lost: what the  *)
(* last screening to delete had found is in the table, or still to be      *)
(* inserted by it (replace_matches; a lost hit would read as cleared).     *)
(***************************************************************************)
LatestHitsAreKept ==
  crashes = 0 =>
    latest \subseteq matches \union
      UNION {request[r].todo : r \in {q \in Requests : At(q, "insert_matches")}}

(***************************************************************************)
(* The manifest tells the screening the tables hold: the parties it counts *)
(* are those of the event, its matches those of the table, unless          *)
(* screenings overlapped or the process died (screen_event).               *)
(***************************************************************************)
ManifestTellsTheMatches ==
  manifest.written /\ ~overlapped /\ crashes = 0 /\ (\A r \in Requests : ~Screening(r)) =>
    /\ manifest.party_count = Cardinality(parties)
    /\ manifest.match_count = Cardinality(matches)

(***************************************************************************)
(* No match inherits a disposition: an analyst disposed of the match in    *)
(* front of them, and a match found again is to be disposed of again,      *)
(* however requests overlap (fresh match ids in screen_party).             *)
(***************************************************************************)
NoInheritedDisposition ==
  [][\A i \in DOMAIN dispositions :
       dispositions[i] \notin matches => dispositions[i] \notin matches']_vars

(***************************************************************************)
(* However screenings overlap, each one that started writes its manifest,  *)
(* also when there is nothing to screen or nothing to screen against ("a   *)
(* screening pass that finds nothing [...] should say so structurally, not *)
(* raise", screen_event), unless the list file it names cannot be read or  *)
(* the process dies.                                                       *)
(***************************************************************************)
ScreeningIsReported ==
  \A n \in 1..MaxScreenings :
    n <= screenings ~> n \in reported \union unread \/ crashes > 0
=============================================================================
