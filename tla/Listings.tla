------------------------------ MODULE Listings ------------------------------
(***************************************************************************)
(* ListingsService: rows of the table listings, read one by one and in      *)
(* pages through the cache and saved as whole entities.                     *)
(***************************************************************************)
EXTENDS Redis, FiniteSets

CONSTANTS
  Users,
  Listings,      \* the ids of listings, those of listings to come included
  Offers,        \* what an owner may send: records of some of the columns in Offered
  Verdicts,      \* the statuses an administrator sets
  Searches,      \* the queries users send, see SearchDto
  Nobody, Anything,   \* no user (undefined); no filter (undefined)
  NoRow

VARIABLES listing   \* the table listings, with listing_pricings

listingsVars == <<req, mix, calls, faults, contended, cache, listing>>

-----------------------------------------------------------------------------
(* The table *)

Statuses == {"DRAFT", "PENDING_APPROVAL", "ACTIVE", "REJECTED", "INACTIVE"}

\* pricings is a set of <<period, price>>; place is where location is.
Offered == {"type", "title", "pricings", "place", "amenities"}
ListingColumns == Offered \cup {"owner", "status", "views"}

NewListing(u, offer) ==
  [c \in ListingColumns |-> CASE c = "owner" -> u [] c = "status" -> "ACTIVE" [] c = "views" -> 0
                              [] OTHER -> offer[c]]

Posted == {l \in Listings : listing[l] # NoRow}
Owner(l) == IF l \in Posted THEN {listing[l].owner} ELSE {}

\* Whose pages a change of the listing is about; one that is not there yet may become anybody's.
Concerned(l) == IF l \in Posted THEN Owner(l) ELSE Users

ListingsInit == RedisInit /\ listing = mix.tables.listings

-----------------------------------------------------------------------------
(* Queries *)

\* SearchListingsDto without its limit and offset: the pages of a query have keys of their
\* own but are cached and dropped alike, and a page stands for all of them here.
SearchFields == {"status", "types", "period", "minPrice", "maxPrice", "around", "amenities", "title"}
AnyListing == [f \in SearchFields |-> Anything]

\* What is in the tables at first or sent by an owner, by column, and the rows of the table.
Given == Offers \cup ({m.tables.listings[l] : m \in Mixes, l \in Listings} \ {NoRow})
Values(c) == {row[c] : row \in {g \in Given : c \in DOMAIN g}}
ListingRow ==
  [type: Values("type"), title: Values("title"), pricings: Values("pricings"), place: Values("place"),
   amenities: Values("amenities"), owner: Users, status: Statuses, views: Nat]

\* Offers and queries are what the DTOs let through, no row is not a row, nobody is not a user, and no filter
\* is not a status.
ASSUME ListingsAssumption ==
  /\ Nobody \notin Users \cup Listings /\ NoRow \notin ListingRow /\ Anything \notin Statuses
  /\ Verdicts \subseteq Statuses
  /\ \A dto \in Searches : DOMAIN dto = SearchFields
  /\ \A o \in Offers : DOMAIN o \subseteq Offered /\ ("pricings" \in DOMAIN o => o.pricings # {})

\* The prices that a query asks for; a listing with none of them is not found.
MatchingPrices(row, dto) ==
  {p \in row.pricings : /\ dto.period \in {Anything, p[1]}
                        /\ dto.minPrice # Anything => p[2] >= dto.minPrice
                        /\ dto.maxPrice # Anything => p[2] <= dto.maxPrice}

\* applySearchFilters: around is the set of places within the radius, title the set of titles
\* that are similar enough; an empty list of types asks for any.
Matches(row, dto) ==
  /\ MatchingPrices(row, dto) # {}
  /\ dto.types \notin {Anything, {}} => row.type \in dto.types
  /\ dto.around # Anything => row.place \in dto.around
  /\ dto.amenities # Anything => dto.amenities \subseteq row.amenities
  /\ dto.title # Anything => row.title \in dto.title

\* buildSearchQuery and findAll: the listings found, with the prices that match.  How often a
\* listing was viewed is left out of pages: no page is dropped for a view.
Search(dto, u) ==
  [l \in {l \in Posted : /\ Matches(listing[l], dto)
                         /\ u \in {Nobody, listing[l].owner}
                         /\ dto.status \in {Anything, listing[l].status}} |->
     [c \in ListingColumns \ {"views"} |->
        IF c = "pricings" THEN MatchingPrices(listing[l], dto) ELSE listing[l][c]]]

-----------------------------------------------------------------------------
(* Keys *)

ListingKey(l)  == <<"listing", l>>
TypePage(types) == <<"listings", types>>
UserPage(u)    == <<"user:listings", u>>

\* Mutant of CanCacheUserActiveListings: a filter is forgotten.
CanCacheSomeFilters(u, dto) ==
  u # Nobody /\ dto.status = "ACTIVE" /\ \A f \in SearchFields \ {"status", "types"} : dto[f] = Anything

CanCacheUserActiveListings(u, dto) ==
  u # Nobody /\ dto.status = "ACTIVE" /\ \A f \in SearchFields \ {"status"} : dto[f] = Anything

CanCacheTypeListings(u, dto) ==
  /\ u = Nobody /\ dto.status = "ACTIVE"
  /\ dto.types \notin {Anything, {}}
  /\ \A f \in SearchFields \ {"status", "types"} : dto[f] = Anything

-----------------------------------------------------------------------------
(* The service's methods, as programs *)

FindByIdWithCache(l) == GetOrSet(ListingKey(l))

CachedSearch(k, dto, u) == <<<<"get", k>>, <<"search", k, dto, u>>, <<"set", k>>>>

FindAllWithCache(dto, u) ==
  CASE CanCacheUserActiveListings(u, dto) -> CachedSearch(UserPage(u), dto, u)
    [] CanCacheTypeListings(u, dto)       -> CachedSearch(TypePage(dto.types), dto, u)
    [] OTHER                              -> <<<<"search", <<"page">>, dto, u>>>>

\* create: the pages are dropped before the save.
Create(u, offer) ==
  <<<<"periods", offer>>, <<"geocode">>, <<"scan", {UserPage(u)}>>, <<"insertListing", u, offer>>>>

\* update, after the handler's check of the owner: what follows the cached read is Prepare.
Update(l, u, offer) == <<<<"owns", l, u>>>> \o FindByIdWithCache(l) \o <<<<"prepare", l, offer>>>>

UpdateStatus(l, status) == FindByIdWithCache(l) \o <<<<"setStatus", l, status>>>>

-----------------------------------------------------------------------------
(* Requests: the lists, what owners do, and moderation *)

BeginLists(r) ==
  /\ \E dto \in Searches :
       \/ Begin(r, "findAll", {}, FindAllWithCache([dto EXCEPT !.status = "ACTIVE"], Nobody))
       \/ \E u \in Users :
            \/ Begin(r, "findByUser", {u}, FindAllWithCache([dto EXCEPT !.status = "ACTIVE"], u))
            \/ Begin(r, "findMy", {u}, FindAllWithCache(dto, u))
  /\ UNCHANGED <<cache, listing>>

BeginOwners(r) ==
  /\ \E u \in Users :
       \/ \E offer \in Offers : DOMAIN offer = Offered /\ Begin(r, "create", {u}, Create(u, offer))
       \/ \E l \in Listings :
            \/ \E offer \in Offers : Begin(r, "update", {u, l} \cup Concerned(l), Update(l, u, offer))
            \/ Begin(r, "delete", {u, l} \cup Concerned(l),
                     <<<<"owns", l, u>>>> \o UpdateStatus(l, "INACTIVE"))
  /\ UNCHANGED <<cache, listing>>

BeginModeration(r) ==
  /\ \E l \in Listings, status \in Verdicts :
       Begin(r, "moderate", {l} \cup Concerned(l), UpdateStatus(l, status))
  /\ UNCHANGED <<cache, listing>>

-----------------------------------------------------------------------------
(* Steps *)

SelectListing(r) ==
  /\ At(r, "select") /\ Arg(r, 1)[1] = "listing"
  /\ LET l == Arg(r, 1)[2] IN
     IF l \in Posted THEN Read(r, "listing", listing[l]) ELSE Throw(r)
  /\ UNCHANGED <<cache, listing>>

SearchListings(r) ==
  /\ At(r, "search")
  /\ Read(r, Arg(r, 1)[1], Search(Arg(r, 2), Arg(r, 3)))
  /\ UNCHANGED <<cache, listing>>

\* validateListingOwnership
Owns(r) ==
  /\ At(r, "owns")
  /\ Require(r, Arg(r, 1) \in Posted /\ Arg(r, 2) \in Owner(Arg(r, 1)))
  /\ UNCHANGED <<cache, listing>>

\* prepareListingData: one price for a period.
OnePricePerPeriod(offer) ==
  "pricings" \in DOMAIN offer => \A p, q \in offer.pricings : p[1] = q[1] => p = q

Periods(r) ==
  /\ At(r, "periods")
  /\ Require(r, OnePricePerPeriod(Arg(r, 1)))
  /\ UNCHANGED <<cache, listing>>

\* getAddressByCoords answers with an address, with none, or fails.
Geocode(r) ==
  /\ At(r, "geocode")
  /\ Continue(r) \/ Throw(r)
  /\ UNCHANGED <<cache, listing>>

\* Mutant of Prepare: the key of the listing is forgotten.
PrepareKeepingKey(r) ==
  /\ At(r, "prepare")
  /\ LET l == Arg(r, 1)
         offer == Arg(r, 2)
     IN IF OnePricePerPeriod(offer)
          THEN Do(r, (IF "place" \in DOMAIN offer THEN <<<<"geocode">>>> ELSE <<>>)
                     \o <<<<"scan", {UserPage(Got(r, "listing").owner)}>>, <<"saveListing", l, offer>>>>)
          ELSE Throw(r)
  /\ UNCHANGED <<cache, listing>>

\* The rest of update: the key and the pages are dropped before the save.
Prepare(r) ==
  /\ At(r, "prepare")
  /\ LET l == Arg(r, 1)
         offer == Arg(r, 2)
     IN IF OnePricePerPeriod(offer)
          THEN Do(r, (IF "place" \in DOMAIN offer THEN <<<<"geocode">>>> ELSE <<>>)
                     \o <<<<"delete", ListingKey(l)>>, <<"scan", {UserPage(Got(r, "listing").owner)}>>,
                          <<"saveListing", l, offer>>>>)
          ELSE Throw(r)
  /\ UNCHANGED <<cache, listing>>

InsertListing(r) ==
  /\ At(r, "insertListing")
  /\ \E l \in Listings \ Posted :
       listing' = [listing EXCEPT ![l] = NewListing(Arg(r, 1), Arg(r, 2))]
  /\ Continue(r)
  /\ UNCHANGED cache

\* save writes every column that the cached read gave, the status and the views included.
Merged(row, patch) == [c \in ListingColumns |-> IF c \in DOMAIN patch THEN patch[c] ELSE row[c]]

SaveListing(r) ==
  /\ At(r, "saveListing")
  /\ listing' = [listing EXCEPT ![Arg(r, 1)] = Merged(Got(r, "listing"), Arg(r, 2))]
  /\ Continue(r)
  /\ UNCHANGED cache

\* updateStatus after the read: a status that is the same is not saved; keys are dropped after the save.
SetStatus(r) ==
  /\ At(r, "setStatus")
  /\ LET l == Arg(r, 1)
         status == Arg(r, 2)
         row == Got(r, "listing")
     IN IF row.status = status THEN Continue(r) /\ UNCHANGED listing
        ELSE /\ listing' = [listing EXCEPT ![l] = Merged(row, [status |-> status])]
             /\ Do(r, <<<<"delete", ListingKey(l)>>>> \o
                      IF "ACTIVE" \in {row.status, status} THEN <<<<"scan", {UserPage(row.owner)}>>>>
                      ELSE <<>>)
  /\ UNCHANGED cache

ListingsSteps(r) ==
  \/ RedisSteps(r) /\ UNCHANGED listing
  \/ SelectListing(r) \/ SearchListings(r) \/ Owns(r) \/ Periods(r) \/ Geocode(r) \/ Prepare(r)
  \/ InsertListing(r) \/ SaveListing(r) \/ SetStatus(r)

-----------------------------------------------------------------------------
(* Properties *)

ActiveListings == [AnyListing EXCEPT !.status = "ACTIVE"]

\* Once they have settled, a cached listing is the row, and the cached page of a user shows the
\* active listings of that user, of which none was contended: every write drops the keys that copy
\* what it writes, and no filtered search is answered from, or stored under, the key of an unfiltered one.
PageFresh(u) == Agrees(UserPage(u), Search(ActiveListings, u))
Calm(u) == u \notin contended /\ \A l \in Posted : u \in Owner(l) => l \notin contended
ListingsFresh ==
  /\ \A l \in Posted : Settled(l) => Agrees(ListingKey(l), listing[l])
  /\ \A u \in Users : Quiet(u) /\ Calm(u) => PageFresh(u)

\* The columns of a listing that the step of a request means to write.
Written(r, l) ==
  CASE At(r, "saveListing") /\ Arg(r, 1) = l -> DOMAIN Arg(r, 2)
    [] At(r, "setStatus") /\ Arg(r, 1) = l   -> {"status"}
    [] At(r, "countView") /\ Arg(r, 1) = l   -> {"views"}
    [] OTHER                                 -> {}

\* No step writes a column it was not asked to: an owner's update, which saves the whole
\* listing as the cache had it, must not undo the moderator's verdict or take back views.
VerdictKept ==
  [][\A l \in Posted : l \notin contended =>
       \A c \in ListingColumns :
         listing'[l][c] # listing[l][c] => \E r \in Requests : c \in Written(r, l)]_listingsVars
=============================================================================
