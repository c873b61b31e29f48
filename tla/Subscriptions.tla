--------------------------- MODULE Subscriptions ---------------------------
(***************************************************************************)
(* SubscriptionPlansService and UserSubscriptionsService: plans are read    *)
(* through the cache; a landlord has one active subscription to a plan.     *)
(***************************************************************************)
EXTENDS Redis

CONSTANTS
  Buyers,      \* users who want a subscription
  Landlords,   \* those whom UsersService.hasRole says to have the role LANDLORD
  Plans,       \* the ids of plans, those of plans to come included
  Names,       \* the names plans may have
  NoPlan

ASSUME SubscriptionsAssumption ==
  Landlords \subseteq Buyers /\ NoPlan \notin [name: Names, active: BOOLEAN]

VARIABLES
  plan,            \* the table subscription_plans
  subscriptions    \* the table user_subscriptions, in the order of the inserts

SubscriptionsInit == plan = mix.tables.plans /\ subscriptions = <<>>

NewPlan(name) == [name |-> name, active |-> TRUE]
Existing == {p \in Plans : plan[p] # NoPlan}

PlanKey(p) == <<"plan", p>>
PlansKey   == <<"plans">>     \* the pages of findAllWithCache, dropped together
ActivePlans == [p \in {p \in Existing : plan[p].active} |-> plan[p].name]

Subscription(u, p) == [user |-> u, plan |-> p, status |-> "ACTIVE"]
IsSubscribed(u, p) == \E i \in DOMAIN subscriptions : subscriptions[i] = Subscription(u, p)

-----------------------------------------------------------------------------
(* Programs *)

CreatePlan(name) ==
  <<<<"newName", name>>, <<"insertPlan", name>>, <<"scan", {PlansKey}>>>>

UpdatePlan(p, patch) ==
  GetOrSet(PlanKey(p))
    \o <<<<"savePlan", p, patch>>, <<"delete", PlanKey(p)>>, <<"scan", {PlansKey}>>>>

\* Mutants of Subscribe: nobody looks for another subscription, ...
SubscribeAgain(u, p) == <<<<"planExists", p>>, <<"isLandlord", u>>, <<"insertSubscription", u, p>>>>

\* ... or whoever asks is a landlord.
SubscribeAnyone(u, p) == <<<<"planExists", p>>, <<"notSubscribed", u, p>>, <<"insertSubscription", u, p>>>>

Subscribe(u, p) ==
  <<<<"planExists", p>>, <<"isLandlord", u>>, <<"notSubscribed", u, p>>, <<"insertSubscription", u, p>>>>

\* handleCancel: the subscription is found and checked, then found again and saved.
Cancel(u, i) == <<<<"mayCancel", u, i>>, <<"cancel", i>>>>

\* The pages of plans are a subject of their own: every change of a plan drops them.
BeginPlans(r) ==
  /\ \/ \E p \in Plans : Begin(r, "findPlan", {p}, GetOrSet(PlanKey(p)))
     \/ Begin(r, "findPlans", {"plans"}, GetOrSet(PlansKey))
     \/ \E name \in Names : Begin(r, "createPlan", {"plans"}, CreatePlan(name))
     \/ \E p \in Plans, name \in Names :
          Begin(r, "updateInfo", {"plans", p}, UpdatePlan(p, [name |-> name]))
     \/ \E p \in Plans, b \in BOOLEAN :
          Begin(r, "updatePlanStatus", {"plans", p}, UpdatePlan(p, [active |-> b]))
  /\ UNCHANGED <<cache, plan, subscriptions>>

BeginSubscriptions(r) ==
  /\ \E u \in Buyers :
       \/ \E p \in Plans : Begin(r, "subscribe", {u}, Subscribe(u, p))
       \/ \E i \in DOMAIN subscriptions : Begin(r, "cancel", {u}, Cancel(u, i))
  /\ UNCHANGED <<cache, plan, subscriptions>>

-----------------------------------------------------------------------------
(* Steps *)

SelectPlan(r) ==
  /\ At(r, "select") /\ Arg(r, 1)[1] = "plan"
  /\ LET p == Arg(r, 1)[2] IN
     IF p \in Existing THEN Read(r, "plan", plan[p]) ELSE Throw(r)
  /\ UNCHANGED <<cache, plan, subscriptions>>

SelectPlans(r) ==
  /\ At(r, "select") /\ Arg(r, 1)[1] = "plans"
  /\ Read(r, "plans", ActivePlans)
  /\ UNCHANGED <<cache, plan, subscriptions>>

Taken(name, except) == \E p \in Existing \ except : plan[p].name = name

NewName(r) ==
  /\ At(r, "newName") /\ Require(r, ~Taken(Arg(r, 1), {}))
  /\ UNCHANGED <<cache, plan, subscriptions>>

\* subscription_plans.name is UNIQUE.
InsertPlan(r) ==
  /\ At(r, "insertPlan")
  /\ IF Taken(Arg(r, 1), {})
       THEN Throw(r) /\ UNCHANGED plan
       ELSE /\ Continue(r)
            /\ \E p \in Plans \ Existing : plan' = [plan EXCEPT ![p] = NewPlan(Arg(r, 1))]
  /\ UNCHANGED <<cache, subscriptions>>

\* Object.assign to the plan the cached read gave, and save.
SavePlan(r) ==
  /\ At(r, "savePlan")
  /\ LET p == Arg(r, 1)
         patch == Arg(r, 2)
         saved == [c \in {"name", "active"} |-> IF c \in DOMAIN patch THEN patch[c] ELSE Got(r, "plan")[c]]
     IN IF Taken(saved.name, {p})
          THEN Throw(r) /\ UNCHANGED plan
          ELSE Continue(r) /\ plan' = [plan EXCEPT ![p] = saved]
  /\ UNCHANGED <<cache, subscriptions>>

PlanExists(r) ==
  /\ At(r, "planExists") /\ Require(r, Arg(r, 1) \in Existing)
  /\ UNCHANGED <<cache, plan, subscriptions>>

IsLandlord(r) ==
  /\ At(r, "isLandlord") /\ Require(r, Arg(r, 1) \in Landlords)
  /\ UNCHANGED <<cache, plan, subscriptions>>

NotSubscribed(r) ==
  /\ At(r, "notSubscribed") /\ Require(r, ~IsSubscribed(Arg(r, 1), Arg(r, 2)))
  /\ UNCHANGED <<cache, plan, subscriptions>>

InsertSubscription(r) ==
  /\ At(r, "insertSubscription")
  /\ subscriptions' = Append(subscriptions, Subscription(Arg(r, 1), Arg(r, 2)))
  /\ Continue(r)
  /\ UNCHANGED <<cache, plan>>

MayCancel(r) ==
  /\ At(r, "mayCancel")
  /\ LET s == subscriptions[Arg(r, 2)] IN Require(r, s.user = Arg(r, 1) /\ s.status = "ACTIVE")
  /\ UNCHANGED <<cache, plan, subscriptions>>

CancelSubscription(r) ==
  /\ At(r, "cancel")
  /\ subscriptions' = [subscriptions EXCEPT ![Arg(r, 1)].status = "CANCELLED"]
  /\ Continue(r)
  /\ UNCHANGED <<cache, plan>>

SubscriptionsSteps(r) ==
  \/ SelectPlan(r) \/ SelectPlans(r) \/ NewName(r) \/ InsertPlan(r) \/ SavePlan(r)
  \/ PlanExists(r) \/ IsLandlord(r) \/ NotSubscribed(r) \/ InsertSubscription(r)
  \/ MayCancel(r) \/ CancelSubscription(r)

-----------------------------------------------------------------------------
(* Properties *)

\* Once they have settled, a cached plan is the row and the cached pages show the active plans.
PlansFresh ==
  /\ \A p \in Existing : Settled(p) => Agrees(PlanKey(p), plan[p])
  /\ Settled("plans") => Agrees(PlansKey, ActivePlans)

\* Plans have names of their own, whatever requests raced; and a landlord whose requests did
\* not overlap has one active subscription to a plan at most.
OneSubscription ==
  /\ \A p, q \in Existing : p # q => plan[p].name # plan[q].name
  /\ \A i, j \in DOMAIN subscriptions :
       i # j /\ subscriptions[i].status = "ACTIVE" /\ subscriptions[i].user \notin contended
         => subscriptions[i] # subscriptions[j]
=============================================================================
