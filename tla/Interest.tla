------------------------------ MODULE Interest ------------------------------
(***************************************************************************)
(* What users do with the listings of others: they view them, keep them as *)
(* favorites and ask questions about them.                                  *)
(***************************************************************************)
EXTENDS Listings

VARIABLES
  views,       \* the table view_history, <<listing, user>> in the order of the inserts
  favorites,   \* the table favorites, in the order of the inserts
  questions    \* the table questions, in the order of the inserts

interestVars == <<req, mix, calls, faults, contended, cache, listing, views, favorites, questions>>

InterestInit == views = <<>> /\ favorites = <<>> /\ questions = <<>>

Rows(table) == {table[i] : i \in DOMAIN table}
Favorite(l, u) == [listing |-> l, user |-> u, removed |-> FALSE]
IsFavorite(l, u) == Favorite(l, u) \in Rows(favorites)
Question(l, from, to) == [listing |-> l, from |-> from, to |-> to, answered |-> FALSE]

-----------------------------------------------------------------------------
(* Programs *)

\* Mutant of UpdateViewHistory: what was viewed before is counted again.
CountEveryView(l, u) ==
  <<<<"countView", l>>, <<"delete", ListingKey(l)>>, <<"insertView", l, u>>>>

UpdateViewHistory(l, u) ==
  <<<<"notViewed", l, u>>, <<"countView", l>>, <<"delete", ListingKey(l)>>, <<"insertView", l, u>>>>

\* ListingsControllerHandler.findById
FindById(l, u) ==
  (IF u = Nobody THEN <<>> ELSE <<<<"favorite", l, u>>>>)
    \o FindByIdWithCache(l) \o <<<<"visible", l, u>>, <<"show", l, u>>>>
    \o (IF u = Nobody THEN <<>> ELSE UpdateViewHistory(l, u))

CreateFavorite(l, u) == <<<<"mayFavor", l, u>>, <<"notFavorite", l, u>>, <<"insertFavorite", l, u>>>>
RemoveFavorite(l, u) == <<<<"findFavorite", l, u>>, <<"removeFavorite">>>>

Ask(l, u) == FindByIdWithCache(l) \o <<<<"ask", l, u>>>>
Answer(q, u) == <<<<"isRecipient", q, u>>, <<"answer", q>>>>

BeginViews(r) ==
  /\ \E l \in Listings, u \in Users \cup {Nobody} : Begin(r, "findOne", {l, u} \ {Nobody}, FindById(l, u))
  /\ UNCHANGED <<cache, listing, views, favorites, questions>>

BeginFavorites(r) ==
  /\ \E l \in Listings, u \in Users :
       \/ Begin(r, "favor", {l, u}, CreateFavorite(l, u))
       \/ Begin(r, "unfavor", {l, u}, RemoveFavorite(l, u))
  /\ UNCHANGED <<cache, listing, views, favorites, questions>>

BeginQuestions(r) ==
  /\ \E u \in Users :
       \/ \E l \in Listings : Begin(r, "ask", {l, u}, Ask(l, u))
       \/ \E q \in DOMAIN questions : Begin(r, "answer", {u, questions[q].listing}, Answer(q, u))
  /\ UNCHANGED <<cache, listing, views, favorites, questions>>

-----------------------------------------------------------------------------
(* Steps *)

ReadFavorite(r) ==
  /\ At(r, "favorite") /\ Read(r, "favorite", IsFavorite(Arg(r, 1), Arg(r, 2)))
  /\ UNCHANGED <<cache, listing, views, favorites, questions>>

\* Mutant of MayRead: whoever signed in reads every listing.
AnyoneSignedIn(r) == Got(r, "listing").status = "ACTIVE" \/ Arg(r, 2) # Nobody

\* A listing that is not active is shown to its owner and to whom it is a favorite of.
MayRead(r) ==
  \/ Got(r, "listing").status = "ACTIVE"
  \/ Got(r, "listing").owner = Arg(r, 2)
  \/ Arg(r, 2) # Nobody /\ Got(r, "favorite")

Visible(r) ==
  /\ At(r, "visible") /\ Require(r, MayRead(r))
  /\ UNCHANGED <<cache, listing, views, favorites, questions>>

\* The listing will be in the response; what is left is to count the view.
Show(r) ==
  /\ At(r, "show") /\ Continue(r)
  /\ UNCHANGED <<cache, listing, views, favorites, questions>>

NotViewed(r) ==
  /\ At(r, "notViewed") /\ Require(r, <<Arg(r, 1), Arg(r, 2)>> \notin Rows(views))
  /\ UNCHANGED <<cache, listing, views, favorites, questions>>

CountView(r) ==
  /\ At(r, "countView")
  /\ listing' = [listing EXCEPT ![Arg(r, 1)].views = @ + 1]
  /\ Continue(r)
  /\ UNCHANGED <<cache, views, favorites, questions>>

InsertView(r) ==
  /\ At(r, "insertView")
  /\ views' = Append(views, <<Arg(r, 1), Arg(r, 2)>>)
  /\ Continue(r)
  /\ UNCHANGED <<cache, listing, favorites, questions>>

\* FavoritesService.create reads the table, not the cache.
MayFavor(r) ==
  /\ At(r, "mayFavor")
  /\ LET l == Arg(r, 1)
         u == Arg(r, 2)
     IN Require(r, l \in Posted /\ listing[l].owner # u /\ listing[l].status = "ACTIVE")
  /\ UNCHANGED <<cache, listing, views, favorites, questions>>

NotFavorite(r) ==
  /\ At(r, "notFavorite") /\ Require(r, ~IsFavorite(Arg(r, 1), Arg(r, 2)))
  /\ UNCHANGED <<cache, listing, views, favorites, questions>>

\* Mutant of InsertFavorite: the table has no constraint.
InsertFavoriteAgain(r) ==
  /\ At(r, "insertFavorite")
  /\ favorites' = Append(favorites, Favorite(Arg(r, 1), Arg(r, 2)))
  /\ Continue(r)
  /\ UNCHANGED <<cache, listing, views, questions>>

\* UNIQUE (user_id, listing_id)
InsertFavorite(r) ==
  /\ At(r, "insertFavorite")
  /\ IF IsFavorite(Arg(r, 1), Arg(r, 2))
       THEN Throw(r) /\ UNCHANGED favorites
       ELSE Continue(r) /\ favorites' = Append(favorites, Favorite(Arg(r, 1), Arg(r, 2)))
  /\ UNCHANGED <<cache, listing, views, questions>>

FindFavorite(r) ==
  /\ At(r, "findFavorite")
  /\ LET found == {i \in DOMAIN favorites : favorites[i] = Favorite(Arg(r, 1), Arg(r, 2))} IN
     IF found = {} THEN Throw(r) ELSE \E i \in found : Read(r, "row", i)
  /\ UNCHANGED <<cache, listing, views, favorites, questions>>

\* The row that was found is removed, if another request has not removed it yet.
DeleteFavorite(r) ==
  /\ At(r, "removeFavorite")
  /\ favorites' = [favorites EXCEPT ![Got(r, "row")].removed = TRUE]
  /\ Continue(r)
  /\ UNCHANGED <<cache, listing, views, questions>>

\* QuestionsService.create: the question goes to the owner.
AskOwner(r) ==
  /\ At(r, "ask")
  /\ LET l == Arg(r, 1)
         u == Arg(r, 2)
         owner == Got(r, "listing").owner
     IN IF u = owner THEN Throw(r) /\ UNCHANGED questions
        ELSE Continue(r) /\ questions' = Append(questions, Question(l, u, owner))
  /\ UNCHANGED <<cache, listing, views, favorites>>

\* QuestionsService.answer: only who was asked may answer, as often as they like.
IsRecipient(r) ==
  /\ At(r, "isRecipient") /\ Require(r, questions[Arg(r, 1)].to = Arg(r, 2))
  /\ UNCHANGED <<cache, listing, views, favorites, questions>>

SaveAnswer(r) ==
  /\ At(r, "answer")
  /\ questions' = [questions EXCEPT ![Arg(r, 1)].answered = TRUE]
  /\ Continue(r)
  /\ UNCHANGED <<cache, listing, views, favorites>>

InterestSteps(r) ==
  \/ ListingsSteps(r) /\ UNCHANGED <<views, favorites, questions>>
  \/ ReadFavorite(r) \/ Visible(r) \/ Show(r) \/ NotViewed(r) \/ CountView(r) \/ InsertView(r)
  \/ MayFavor(r) \/ NotFavorite(r) \/ InsertFavorite(r) \/ FindFavorite(r) \/ DeleteFavorite(r)
  \/ AskOwner(r) \/ IsRecipient(r) \/ SaveAnswer(r)

-----------------------------------------------------------------------------
(* Properties *)

\* Once a listing has settled, it was viewed by as many users as its counter says, and a user's
\* views count once.  The counter, the key and the history are three awaits, and an update in
\* between saves the counter it has read.
ViewsCounted ==
  \A l \in Posted : Settled(l) =>
    LET history == {i \in DOMAIN views : views[i][1] = l} IN
    /\ listing[l].views = Cardinality(history)
    /\ \A i, j \in history : i # j => views[i] # views[j]

\* findOne opens a listing that an administrator or its owner has withdrawn to nobody else but those
\* who keep it as a favorite, whatever the cache held when it was withdrawn, unless requests about the
\* listing overlapped or failed.  Only findOne: pages of a type show it until they expire.
FindOneHidesWithdrawn ==
  \A r \in Requests : At(r, "show") /\ Arg(r, 1) \notin contended =>
    LET l == Arg(r, 1)
        u == Arg(r, 2)
    IN listing[l].status = "ACTIVE" \/ listing[l].owner = u \/ IsFavorite(l, u)

\* A user keeps a listing once, whatever requests raced, and never one of their own; a question
\* is never about the own listing either.
InterestInOthers ==
  /\ \A i, j \in DOMAIN favorites :
       i # j /\ favorites[i] = favorites[j] => favorites[i].removed
  /\ \A f \in Rows(favorites) : listing[f.listing].owner # f.user
  /\ \A q \in Rows(questions) : q.to \in Owner(q.listing) /\ q.from # q.to
=============================================================================
