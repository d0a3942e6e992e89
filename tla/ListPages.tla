----------------------------- MODULE ListPages ------------------------------
(***************************************************************************)
(* ListInvalidations page by page, while invalidations are created and     *)
(* the server restarts.  Every request lists and sorts the store anew and  *)
(* cuts one page out of the result (BoltStore.List and AWSHandler.List).   *)
(*                                                                         *)
(* A record's id is a random number and its time the clock's, which may    *)
(* stand still between two creations and may be set back.                  *)
(***************************************************************************)
EXTENDS Integers, FiniteSets, SequencesExt

CONSTANTS
    IDs,          \* numbers that ids may be
    Times,        \* readings of the clock
    MaxItems,     \* values of the query parameter MaxItems
    NoMarker,     \* an empty Marker
    Markers,      \* markers that clients make up
    listMaxItemsDefault, listMaxItemsCap

(* An id is never empty, and both limits of a page are positive: 100.      *)
ASSUME PageAssumption ==
    /\ IDs \subseteq Int /\ Times \subseteq Int /\ NoMarker \notin IDs
    /\ MaxItems \subseteq [kind : {"missing", "text", "number"}, n : Int]
    /\ listMaxItemsDefault \in Nat \ {0} /\ listMaxItemsCap \in Nat \ {0}

VARIABLES
    byID,     \* [id -> time of creation], the same in memory and on disk
    client,   \* the listing: what it asked for and what it has got
    told      \* the last response

vars == <<byID, client, told>>

-----------------------------------------------------------------------------
Newer(a, b) == byID[a] > byID[b] \/ (byID[a] = byID[b] /\ a < b)

(* BoltStore.List: newest first, then by id. *)
List ==
    [i \in 1..Cardinality(DOMAIN byID) |->
        CHOOSE id \in DOMAIN byID : Cardinality({k \in DOMAIN byID : Newer(k, id)}) = i - 1]

parseListMaxItems(raw) ==
    CASE raw.kind = "missing" -> [ok |-> TRUE, n |-> listMaxItemsDefault]
      [] raw.kind = "text" \/ (raw.kind = "number" /\ raw.n <= 0) -> [ok |-> FALSE]
      [] OTHER -> [ok |-> TRUE, n |-> IF raw.n > listMaxItemsCap THEN listMaxItemsCap ELSE raw.n]

Position(records, marker) ==
    IF marker = NoMarker THEN 0 ELSE SelectInSeq(records, LAMBDA id : id = marker)

NoPage == [page |-> <<>>, truncated |-> FALSE, next |-> NoMarker]

Cut(records, start, maxItems) ==
    LET truncated == start + maxItems < Len(records)
        page == SubSeq(records, start + 1, IF truncated THEN start + maxItems ELSE Len(records))
    IN [page |-> page, truncated |-> truncated,
        next |-> IF truncated /\ page # <<>> THEN Last(page) ELSE NoMarker]

(* Wrong: a page begins with the record of the marker. *)
paginateRecordsFromMarker(records, marker, maxItems) ==
    LET start == Position(records, marker)
    IN IF marker # NoMarker /\ start = 0 THEN NoPage
       ELSE Cut(records, IF start = 0 THEN 0 ELSE start - 1, maxItems)

(* Wrong: a marker that is not known is handed back. *)
paginateRecordsEchoing(records, marker, maxItems) ==
    LET start == Position(records, marker)
    IN CASE marker # NoMarker /\ start = 0 -> [NoPage EXCEPT !.truncated = TRUE, !.next = marker]
         [] ~ (marker # NoMarker /\ start = 0) /\ start >= Len(records) -> NoPage
         [] OTHER -> Cut(records, start, maxItems)

paginateRecords(records, marker, maxItems) ==
    LET start == Position(records, marker)
    IN IF (marker # NoMarker /\ start = 0) \/ start >= Len(records) THEN NoPage
       ELSE Cut(records, start, maxItems)

-----------------------------------------------------------------------------
Idle == [active |-> FALSE, marker |-> NoMarker, got |-> <<>>, before |-> {}]

Init ==
    /\ byID = <<>>
    /\ client = Idle
    /\ told = "none"

Create(id, time) ==
    /\ id \notin DOMAIN byID
    /\ byID' = [i \in DOMAIN byID \cup {id} |-> IF i = id THEN time ELSE byID[i]]
    /\ UNCHANGED <<client, told>>

(* The first page; before is what there is to be listed. *)
StartListing ==
    /\ ~ client.active
    /\ client' = [Idle EXCEPT !.active = TRUE, !.before = DOMAIN byID]
    /\ told' = "none"
    /\ UNCHANGED byID

(* Also a client that resumes with a marker of its own. *)
ResumeListing(marker) ==
    /\ ~ client.active
    /\ client' = [Idle EXCEPT !.active = TRUE, !.marker = marker]
    /\ told' = "none"
    /\ UNCHANGED byID

(* AWSHandler.List, and a client that goes on until it is told to stop. *)
GetPage(raw) ==
    LET max == parseListMaxItems(raw)
        result == paginateRecords(List, client.marker, max.n)
    IN /\ client.active
       /\ IF ~ max.ok
          THEN told' = "InvalidArgument" /\ UNCHANGED client
          ELSE /\ told' = IF result.truncated THEN "truncated" ELSE "complete"
               /\ client' = [client EXCEPT !.got = @ \o result.page, !.marker = result.next,
                                           !.active = result.truncated]
       /\ UNCHANGED byID

Next ==
    \/ \E id \in IDs, time \in Times : Create(id, time)
    \/ StartListing
    \/ \E marker \in Markers : ResumeListing(marker)
    \/ \E raw \in MaxItems : GetPage(raw)

Spec == Init /\ [][Next]_vars /\ WF_vars(\E raw \in MaxItems : parseListMaxItems(raw).ok /\ GetPage(raw))

-----------------------------------------------------------------------------
(* Properties. *)

(* No record is on two pages, and a listing that came to its end has every  *)
(* record there was when it began, whatever was created meanwhile, in the   *)
(* same instant or with an earlier time.                                    *)
EveryRecordOnce ==
    /\ IsInjective(client.got)
    /\ (told = "complete") => client.before \subseteq Range(client.got)

(* A listing comes to its end.                                              *)
ListingEnds == client.active ~> ~ client.active

-----------------------------------------------------------------------------
(* The inductive invariant: what a client has got is in the store, in the  *)
(* store's order, and its marker is the last of it; everything the listing *)
(* owes it up to the marker, it has got.                                   *)
TypeOK ==
    /\ IsFiniteSet(DOMAIN byID) /\ DOMAIN byID \subseteq IDs
    /\ \A id \in DOMAIN byID : byID[id] \in Times
    /\ client \in [active : BOOLEAN, marker : Markers \cup IDs \cup {NoMarker},
                   got : Seq(IDs), before : SUBSET IDs]

GotInOrder ==
    /\ \A i \in 1..Len(client.got) : client.got[i] \in DOMAIN byID
    /\ \A i, j \in 1..Len(client.got) : i < j => Newer(client.got[i], client.got[j])

Has(id) == \E i \in 1..Len(client.got) : client.got[i] = id

MarkerIsLast ==
    client.active =>
        /\ client.marker = NoMarker => client.got = <<>>
        /\ client.got # <<>> => client.marker = Last(client.got)

NothingSkipped ==
    /\ client.before \subseteq DOMAIN byID
    /\ client.active /\ client.marker # NoMarker =>
           \A id \in client.before :
               /\ client.marker \in DOMAIN byID
               /\ id = client.marker \/ Newer(id, client.marker) => Has(id)
    /\ (told = "complete") => ~ client.active /\ \A id \in client.before : Has(id)

IInv == TypeOK /\ GotInOrder /\ MarkerIsLast /\ NothingSkipped
=============================================================================
