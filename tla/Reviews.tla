------------------------------ MODULE Reviews ------------------------------
(***************************************************************************)
(* ReviewsService: a review of a completed booking, the rating it changes   *)
(* and the cached pages of reviews about a user or a listing.               *)
(***************************************************************************)
EXTENDS Users, Functions

CONSTANTS
  Bookings,     \* [renter, landlord, completed]; each landlord has one listing
  Ratings       \* the ratings of reviews

ASSUME ReviewsAssumption ==
  /\ Ratings \subseteq 1..5
  /\ Bookings \subseteq [renter: Users, landlord: Users, completed: BOOLEAN]

VARIABLE reviews   \* the table reviews, in the order of the inserts

ReviewsInit == reviews = <<>>

Review(b, by, rating) == [booking |-> b, by |-> by, rating |-> rating]

\* Who a review is about, and in which role.
Role(b, by)   == IF by = b.renter THEN "LANDLORD" ELSE "RENTER"
Target(b, by) == IF by = b.renter THEN b.landlord ELSE b.renter

-----------------------------------------------------------------------------
(* Reads *)

\* findByUser with a role or none, and findByListing: reviews of the booking's other side.
About(u, role) ==
  {i \in DOMAIN reviews : LET v == reviews[i] IN
     Target(v.booking, v.by) = u /\ role \in {"all", Role(v.booking, v.by)}}

PageRoles == {"all"} \cup BothRoles
UserPage(u, role) == <<"reviews:user", u, role>>
ListingPage(u)    == <<"reviews:listing", u>>   \* the listing of landlord u
UserPages(u)      == {UserPage(u, role) : role \in PageRoles}

\* What a page of reviews shows; the pages of a limit and an offset are invalidated alike.
PageOf(k) == IF k[1] = "reviews:user" THEN About(k[2], k[3]) ELSE About(k[2], "LANDLORD")

-----------------------------------------------------------------------------
(* Programs *)

CreateReview(b, by, rating) == <<<<"mayReview", b, by>>, <<"insertReview", b, by, rating>>>>

\* Mutant of Publish: only the pages of the user are dropped.
PublishToUser(b, by) == <<<<"scan", UserPages(Target(b, by))>>>>

\* What follows the rating: the signal REVIEW_NEW and the pages to drop.
Publish(b, by) ==
  <<<<"scan", UserPages(Target(b, by))>>>>
    \o IF by = b.renter THEN <<<<"scan", {ListingPage(b.landlord)}>>>> ELSE <<>>

BeginReviews(r) ==
  /\ \/ \E b \in Bookings, by \in Users, rating \in Ratings :
          Begin(r, "review", {b.renter, b.landlord}, CreateReview(b, by, rating))
     \/ \E u \in Registered :
          \/ \E role \in PageRoles : Begin(r, "reviewsOfUser", {u}, GetOrSet(UserPage(u, role)))
          \/ Begin(r, "reviewsOfListing", {u}, GetOrSet(ListingPage(u)))
  /\ UNCHANGED <<cache, user, roles, reviews>>

-----------------------------------------------------------------------------
(* Steps *)

SelectPage(r) ==
  /\ At(r, "select") /\ Arg(r, 1)[1] \in {"reviews:user", "reviews:listing"}
  /\ Read(r, Arg(r, 1)[1], PageOf(Arg(r, 1)))
  /\ UNCHANGED <<cache, user, roles, reviews>>

\* A participant of a completed booking, who has not reviewed it yet.
MayReview(r) ==
  /\ At(r, "mayReview")
  /\ LET b == Arg(r, 1)
         by == Arg(r, 2)
     IN Require(r, /\ by \in {b.renter, b.landlord} /\ b.completed
                   /\ \A i \in DOMAIN reviews : reviews[i].booking # b \/ reviews[i].by # by)
  /\ UNCHANGED <<cache, user, roles, reviews>>

\* The save; what follows is updateRatingForUser and the end of create.
InsertReview(r) ==
  /\ At(r, "insertReview")
  /\ LET b == Arg(r, 1)
         by == Arg(r, 2)
     IN /\ reviews' = Append(reviews, Review(b, by, Arg(r, 3)))
        /\ Do(r, <<<<"rate", Target(b, by), Role(b, by)>>>> \o Publish(b, by))
  /\ UNCHANGED <<cache, user, roles>>

SumOfRatings(S) == SumFunctionOnSet([i \in DOMAIN reviews |-> reviews[i].rating], S)

\* The sum and the number of the ratings stand for their mean and number.
RatingOf(u, role) == <<SumOfRatings(About(u, role)), Cardinality(About(u, role))>>

\* updateRatingForUser: the ratings are read, and the user is updated with their mean and count.
Rate(r) ==
  /\ At(r, "rate")
  /\ LET u == Arg(r, 1)
         rating == RatingOf(u, Arg(r, 2))
     IN Do(r, IF rating[2] = 0 THEN <<>>
              ELSE Update(u, IF Arg(r, 2) = "LANDLORD" THEN [asLandlord |-> rating]
                             ELSE [asRenter |-> rating]))
  /\ UNCHANGED <<cache, user, roles, reviews>>

ReviewsSteps(r) == SelectPage(r) \/ MayReview(r) \/ InsertReview(r) \/ Rate(r)

-----------------------------------------------------------------------------
(* Properties *)

\* Once a user has settled, the ratings are those of the reviews about the user in each role, nobody
\* reviewed a booking with the user twice, and the cached pages show every review.
ReviewsCounted ==
  \A u \in Registered : Settled(u) =>
    /\ user[u].asLandlord = RatingOf(u, "LANDLORD")
    /\ user[u].asRenter = RatingOf(u, "RENTER")
    /\ \A i, j \in DOMAIN reviews :
         i # j /\ Target(reviews[i].booking, reviews[i].by) = u
           => <<reviews[i].booking, reviews[i].by>> # <<reviews[j].booking, reviews[j].by>>
    /\ \A k \in UserPages(u) \cup {ListingPage(u)} : Agrees(k, PageOf(k))
=============================================================================
