------------------------------- MODULE Market -------------------------------
(***************************************************************************)
(* Listings, what users do with them, and subscriptions, on one cache.      *)
(***************************************************************************)
EXTENDS Interest, Subscriptions

vars == <<req, mix, calls, faults, contended, cache, listing, views, favorites, questions,
          plan, subscriptions>>

\* Tables as the code leaves them: listings are whole and nobody has viewed them yet, and plans have names
\* of their own.
Consistent(t) ==
  /\ t.listings \in [Listings -> ListingRow \cup {NoRow}]
  /\ \A l \in Listings : LET row == t.listings[l] IN
       row # NoRow => row.views = 0 /\ row.pricings # {} /\ OnePricePerPeriod(row)
  /\ t.plans \in [Plans -> [name: Names, active: BOOLEAN] \cup {NoPlan}]
  /\ \A p, q \in Plans :
       p # q /\ NoPlan \notin {t.plans[p], t.plans[q]} => t.plans[p].name # t.plans[q].name

ASSUME MarketAssumption == \A m \in Mixes : Consistent(m.tables)

Init == HandlersInit /\ ListingsInit /\ InterestInit /\ SubscriptionsInit

Progress(r) ==
  \/ InterestSteps(r) /\ UNCHANGED <<plan, subscriptions>>
  \/ SubscriptionsSteps(r) /\ UNCHANGED <<listing, views, favorites, questions>>

Arrive(r) ==
  \/ /\ BeginLists(r) \/ BeginOwners(r) \/ BeginModeration(r)
     /\ UNCHANGED <<views, favorites, questions, plan, subscriptions>>
  \/ /\ BeginViews(r) \/ BeginFavorites(r) \/ BeginQuestions(r)
     /\ UNCHANGED <<plan, subscriptions>>
  \/ /\ BeginPlans(r) \/ BeginSubscriptions(r)
     /\ UNCHANGED <<listing, views, favorites, questions>>

Forget ==
  \E k \in DOMAIN cache :
    Expire(k) /\ UNCHANGED <<listing, views, favorites, questions, plan, subscriptions>>

Next ==
  \/ \E r \in Requests : Arrive(r) \/ Progress(r)
  \/ \E r \in Requests :
       Fault(r) /\ UNCHANGED <<cache, listing, views, favorites, questions, plan, subscriptions>>
  \/ Forget

Spec == Init /\ [][Next]_vars

\* The event loop runs every handler on, and every key has a TTL.
FairSpec == Spec /\ WF_vars(\E r \in Requests : Progress(r)) /\ WF_vars(Forget)

-----------------------------------------------------------------------------
(* Properties *)

TypeOK ==
  /\ \A r \in Requests : req[r].op \in mix.ops \cup {"none"}
  /\ calls \in 0..mix.calls /\ faults \in 0..mix.faults
  /\ \A l \in Posted : /\ DOMAIN listing[l] = ListingColumns /\ listing[l].owner \in Users
                       /\ listing[l].status \in Statuses /\ listing[l].views \in Nat
  /\ Rows(views) \subseteq Listings \X Users
  /\ favorites \in Seq([listing: Listings, user: Users, removed: BOOLEAN])
  /\ questions \in Seq([listing: Listings, from: Users, to: Users, answered: BOOLEAN])
  /\ plan \in [Plans -> [name: Names, active: BOOLEAN] \cup {NoPlan}]
  /\ subscriptions \in Seq([user: Landlords, plan: Plans, status: {"ACTIVE", "CANCELLED"}])

\* Every variable has the type the schema and the services give it: only landlords buy
\* subscriptions, and a posted listing has prices, one for each period.
MarketInv ==
  /\ TypeOK
  /\ \A l \in Posted : /\ listing[l].pricings # {}
                       /\ \A p, q \in listing[l].pricings : p[1] = q[1] => p = q

\* Once they have settled, no key of a listing, a user's page, a plan or the plans is stale.
CachesFresh == ListingsFresh /\ PlansFresh

\* What the cache would be filled with for a key.
Current(k) ==
  CASE k[1] = "listing"       -> listing[k[2]]
    [] k[1] = "user:listings" -> Search(ActiveListings, k[2])
    [] k[1] = "listings"      -> Search([ActiveListings EXCEPT !.types = k[2]], Nobody)
    [] k[1] = "plan"          -> plan[k[2]]
    [] k[1] = "plans"         -> ActivePlans

\* The pages of a type are dropped by no write, and any page may be filled with what a write is
\* about to replace: the TTL ends it, and the caches come to hold what the tables hold.
MarketSettles == <>[](InFlight = {} /\ (mix.lasting => \A k \in DOMAIN cache : Agrees(k, Current(k))))
=============================================================================
