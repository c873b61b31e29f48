---------------------------- MODULE MarketProofs ----------------------------
(***************************************************************************)
(* What is promised of listings, of interest in them and of subscriptions:  *)
(* an invariant of which facts each program in flight relies on, and that   *)
(* they hold of what no two requests disputed.                               *)
(***************************************************************************)
EXTENDS Market, HandlersProofs, FiniteSetTheorems

-----------------------------------------------------------------------------
(* What a step relies on *)

Listing == {"visible", "prepare", "setStatus", "saveListing", "ask", "countView", "insertView"}
Copied ==
  {ListingKey(l) : l \in Listings} \cup {UserPage(u) : u \in Users}
    \cup {PlanKey(p) : p \in Plans} \cup {PlansKey}
Subject(k) == IF k[1] = "plans" THEN "plans" ELSE k[2]

\* Facts that programs rely on: <<kind, subject, more>>.  Those of the first kinds end when somebody else
\* writes, and what requests know of them is true of subjects that are not contended; the others stay.
Soft ==
  {<<"copy", Subject(k), k>> : k \in Copied}
    \cup ({"favorite", "seen"} \X Listings \X (Users \cup {Nobody}))
    \cup ({"novel"} \X Listings \X Users) \cup ({"dropped", "ahead"} \X Listings \X {Nobody})
    \cup ({"unpaged"} \X Users \X (Listings \cup {Nobody})) \cup ({"alone"} \X Buyers \X Plans)
Hard ==
  {<<"typed", Subject(k), k>> : k \in Copied}
    \cup ({"landlord"} \X Buyers \X {Nobody}) \cup ({"notOwner"} \X Listings \X Users)
    \cup ({"periods"} \X Offers \X {Nobody}) \cup {<<"row", Nobody, Nobody>>}
Facts == Soft \cup Hard

RowOf(x) == IF x[1] = "savePlan" THEN PlanKey(x[2]) ELSE ListingKey(x[2])

\* The step x relies on the fact k, ...
Uses(x, k) ==
  \/ x[1] = "set" /\ x[2] \in Copied /\ k \in {<<"copy", Subject(x[2]), x[2]>>, <<"typed", Subject(x[2]), x[2]>>}
  \/ x[1] \in Listing \cup {"savePlan"} /\ k = <<"typed", x[2], RowOf(x)>>
  \/ x[1] \in {"visible", "prepare", "setStatus", "saveListing", "savePlan"} /\ k = <<"copy", x[2], RowOf(x)>>
  \/ x[1] = "visible" /\ x[3] # Nobody /\ k = <<"favorite", x[2], x[3]>>
  \/ x[1] = "show" /\ k = <<"seen", x[2], x[3]>>
  \/ x[1] = "insertView" /\ k \in {<<"novel", x[2], x[3]>>, <<"ahead", x[2], Nobody>>}
  \/ x[1] = "saveListing" /\ (k = <<"dropped", x[2], Nobody>> \/ (k[1] = "unpaged" /\ k[3] = x[2]))
  \/ x[1] = "insertListing" /\ k \in {<<"periods", x[3], Nobody>>, <<"unpaged", x[2], Nobody>>}
  \/ x[1] = "insertSubscription" /\ k \in {<<"landlord", x[2], Nobody>>, <<"alone", x[2], x[3]>>}
  \/ x[1] = "insertFavorite" /\ k = <<"notOwner", x[2], x[3]>>
  \/ x[1] = "removeFavorite" /\ k = <<"row", Nobody, Nobody>>

\* ... or establishes it.
Gives(x, k) ==
  \/ x[1] \in {"select", "search"} /\ x[2] \in Copied /\ k \in {<<"copy", Subject(x[2]), x[2]>>, <<"typed", Subject(x[2]), x[2]>>}
  \/ x[1] = "favorite" /\ k = <<"favorite", x[2], x[3]>>
  \/ x[1] = "visible" /\ k = <<"seen", x[2], x[3]>>
  \/ x[1] = "notViewed" /\ k = <<"novel", x[2], x[3]>>
  \/ x[1] = "countView" /\ k = <<"ahead", x[2], Nobody>>
  \/ x[1] = "delete" /\ k[1] = "dropped" /\ x[2] = ListingKey(k[2])
  \/ x[1] \in {"scan", "unlink"} /\ k[1] = "unpaged" /\ UserPage(k[2]) \in x[2]
  \/ x[1] = "periods" /\ k = <<"periods", x[2], Nobody>>
  \/ x[1] = "isLandlord" /\ k = <<"landlord", x[2], Nobody>>
  \/ x[1] = "notSubscribed" /\ k = <<"alone", x[2], x[3]>>
  \/ x[1] = "mayFavor" /\ k = <<"notOwner", x[2], x[3]>>
  \/ x[1] = "findFavorite" /\ k = <<"row", Nobody, Nobody>>

\* What a program relies on and does not establish itself.
Needs(q, k) == (\E x \in Steps(q) : Uses(x, k)) /\ ~\E x \in Steps(q) : Gives(x, k)
Closed(q) == \A k \in Facts : ~Needs(q, k)

-----------------------------------------------------------------------------
(* Programs *)

Final == {"prepare", "setStatus", "saveListing", "insertListing", "insertView", "ask", "answer", "insertFavorite",
          "removeFavorite", "insertSubscription", "cancel"}
Plain == {"get", "select", "search", "set", "delete", "scan", "unlink", "owns", "periods", "geocode", "favorite",
          "visible", "show", "notViewed", "countView", "mayFavor", "notFavorite", "findFavorite", "isRecipient",
          "newName", "insertPlan", "savePlan", "planExists", "isLandlord", "notSubscribed", "mayCancel"}

\* What comes after a step in a program: nothing is read again that was used, what is read is for the same subject,
\* and a write is followed by what drops keys.
Reading == {"favorite", "get", "select", "search"}
Copying(k) == k[1] \in {"copy", "typed"}
Ordered(x, y) ==
  /\ x[1] \in {"set", "visible", "show"} => y[1] \notin Reading
  /\ x[1] = "show" => y[1] # "visible"
  /\ x[1] = "countView" => y[1] \in {"delete", "insertView"}
  /\ x[1] = "countView" /\ y[1] = "insertView" => x[2] = y[2]
  /\ x[1] \in {"savePlan", "insertPlan"} => y[1] \in {"delete", "scan", "unlink"}
  /\ x[1] = "set" => y[1] \notin {"set", "saveListing", "insertListing"}
  /\ x[1] = "favorite" /\ y[1] = "visible" => x[2] = y[2] /\ x[3] = y[3]
  /\ x[1] \in {"get", "select", "search"} =>
       \A k \in Facts : Copying(k) /\ Uses(y, k) /\ k[3][1] = x[2][1] => k[3] = x[2]
InOrder(q) == \A i, j \in DOMAIN q : i < j => Ordered(q[i], q[j])

DropPlans == <<"scan", {PlansKey}>>
Adjacent(q) ==
  \A i \in DOMAIN q :
    /\ q[i][1] = "get" => /\ i + 2 \in DOMAIN q /\ q[i + 1][1] \in {"select", "search"}
                          /\ q[i + 1][2] = q[i][2] /\ q[i + 2] = <<"set", q[i][2]>>
    /\ q[i][1] = "savePlan" => /\ i + 2 \in DOMAIN q /\ q[i + 1] = <<"delete", PlanKey(q[i][2])>>
                               /\ q[i + 2] = DropPlans
    /\ q[i][1] = "insertPlan" => i + 1 \in DOMAIN q /\ q[i + 1] = DropPlans
    /\ q[i][1] = "countView" => /\ i + 2 \in DOMAIN q /\ q[i + 1] = <<"delete", ListingKey(q[i][2])>>
                                /\ q[i + 2][1] = "insertView" /\ q[i + 2][2] = q[i][2]

\* Once a view is counted, it is inserted next, or after the key is deleted.
Counting(q) ==
  (\E x \in Steps(q) : x[1] = "insertView") /\ (\A x \in Steps(q) : x[1] # "countView") =>
    \A x \in Steps(q) : x[1] \in {"delete", "insertView"}

\* The arguments of a step are what its action expects, ...
PatchOK(patch) == patch \in Offers /\ OnePricePerPeriod(patch)
StepOK(x) ==
  /\ x[1] \in Plain \cup Final
  /\ x[1] = "get" => x[2] \in Copied \/ x[2][1] = "listings"
  /\ x[1] = "select" => x[2] \in Copied /\ x[2][1] # "user:listings"
  /\ x[1] = "search" => \/ x[2][1] \in {"listings", "page"}
                        \/ \E u \in Users : /\ x[2] = UserPage(u) /\ x[4] = u
                                            /\ CanCacheUserActiveListings(u, x[3])
  /\ x[1] = "set" => x[2] \in Copied \/ x[2][1] = "listings"
  /\ x[1] = "delete" => x[2] \in Copied
  /\ x[1] \in {"scan", "unlink"} => x[2] \subseteq Copied
  /\ x[1] \in Listing \cup {"show", "favorite", "notViewed"} => x[2] \in Listings
  /\ x[1] = "prepare" => x[3] \in Offers
  /\ x[1] = "saveListing" => PatchOK(x[3])
  /\ x[1] = "setStatus" => x[3] \in Statuses
  /\ x[1] \in {"visible", "show"} => x[3] \in Users \cup {Nobody}
  /\ x[1] \in {"favorite", "notViewed", "insertView", "mayFavor", "notFavorite", "insertFavorite", "findFavorite"} =>
       x[2] \in Listings /\ x[3] \in Users
  /\ x[1] = "ask" => x[3] \in Users
  /\ x[1] \in {"isRecipient", "answer"} => x[2] \in DOMAIN questions
  /\ x[1] = "periods" => x[2] \in Offers
  /\ x[1] = "insertListing" => x[2] \in Users /\ x[3] \in Offers /\ DOMAIN x[3] = Offered
  /\ x[1] \in {"newName", "insertPlan"} => x[2] \in Names
  /\ x[1] = "savePlan" => \/ \E n \in Names : x[3] = [name |-> n]
                          \/ \E b \in BOOLEAN : x[3] = [active |-> b]
  /\ x[1] = "savePlan" => x[2] \in Plans
  /\ x[1] = "isLandlord" => x[2] \in Buyers
  /\ x[1] \in {"notSubscribed", "insertSubscription"} => x[2] \in Buyers /\ x[3] \in Plans
  /\ x[1] = "mayCancel" => x[3] \in DOMAIN subscriptions
  /\ x[1] = "cancel" => x[2] \in DOMAIN subscriptions

\* ... and what it is about, its request is about.
MindsOwner(l, A) == IF l \in Posted THEN listing[l].owner \in A ELSE Users \subseteq A
Minds(x, A) ==
  /\ x[1] \in {"get", "set", "delete"} => x[2][1] = "listings" \/ Subject(x[2]) \in A
  /\ x[1] \in {"scan", "unlink"} => \A k \in x[2] : Subject(k) \in A
  /\ x[1] \in Listing \cup {"show", "insertFavorite", "findFavorite"} => x[2] \in A
  /\ x[1] \in {"prepare", "setStatus", "saveListing"} => MindsOwner(x[2], A)
  /\ x[1] \in {"insertListing", "insertSubscription", "savePlan"} => x[2] \in A
  /\ x[1] \in {"insertPlan", "savePlan"} => "plans" \in A

Fit(q, A) ==
  /\ Program(q) /\ Ends(q, Final) /\ InOrder(q) /\ Adjacent(q) /\ Counting(q)
  /\ \A x \in Steps(q) : StepOK(x) /\ Minds(x, A)

-----------------------------------------------------------------------------
(* What requests know *)

Counted ==
  /\ mix \in Mixes
  /\ \A r \in Requests : req[r].op \in mix.ops \cup {"none"}
  /\ calls \in 0..mix.calls /\ faults \in 0..mix.faults

PlanRow == [name: Names, active: BOOLEAN]
Whole(row) == row \in ListingRow /\ row.pricings # {} /\ OnePricePerPeriod(row)

\* What is found under a key.
ValueOK(k, v) ==
  /\ k[1] = "listing" => k[2] \in Posted /\ Whole(v) /\ v.owner = listing[k[2]].owner
  /\ k[1] = "plan" => k[2] \in Existing /\ v \in PlanRow

Seen(l, u) ==
  l \in Posted /\ (listing[l].status = "ACTIVE" \/ listing[l].owner = u \/ (u # Nobody /\ IsFavorite(l, u)))
Viewings(l) == {i \in DOMAIN views : views[i][1] = l}

Present(k) == (k[1] = "listing" => k[2] \in Posted) /\ (k[1] = "plan" => k[2] \in Existing)

\* The fact is true, for a request that has read got and is about A.
Tells(got, A, k) ==
  /\ k[1] = "copy" => k[3][1] \in DOMAIN got /\ got[k[3][1]] = Current(k[3]) /\ Present(k[3])
  /\ k[1] = "typed" => k[3][1] \in DOMAIN got /\ ValueOK(k[3], got[k[3][1]])
  /\ k[1] = "favorite" => "favorite" \in DOMAIN got /\ got["favorite"] = IsFavorite(k[2], k[3])
  /\ k[1] = "seen" => Seen(k[2], k[3])
  /\ k[1] = "novel" => <<k[2], k[3]>> \notin Rows(views)
  /\ k[1] = "ahead" => k[2] \in Posted /\ listing[k[2]].views = Cardinality(Viewings(k[2])) + 1
  /\ k[1] = "dropped" => ListingKey(k[2]) \notin DOMAIN cache
  /\ k[1] = "unpaged" /\ (k[3] \in Posted => k[2] \in Owner(k[3])) => UserPage(k[2]) \notin DOMAIN cache
  /\ k[1] = "alone" => ~IsSubscribed(k[2], k[3])
  /\ k[1] = "landlord" => k[2] \in Landlords
  /\ k[1] = "notOwner" => k[2] \in Posted /\ listing[k[2]].owner # k[3]
  /\ k[1] = "periods" => OnePricePerPeriod(k[2])
  /\ k[1] = "row" => /\ "row" \in DOMAIN got /\ got["row"] \in DOMAIN favorites
                     /\ favorites[got["row"]].listing \in A

Known(r, k) == (k \in Soft /\ k[2] \in contended) \/ Tells(req[r].got, req[r].about, k)
Knows(r) == \A k \in Facts : Needs(req[r].todo, k) => Known(r, k)

Shaped ==
  /\ Proper /\ Apart /\ Counted
  /\ \A r \in Requests : Fit(req[r].todo, req[r].about) /\ Knows(r)

TablesOK ==
  /\ listing \in [Listings -> ListingRow \cup {NoRow}]
  /\ \A l \in Posted : Whole(listing[l])
  /\ views \in Seq(Listings \X Users) /\ \A i \in DOMAIN views : views[i][1] \in Posted
  /\ favorites \in Seq([listing: Listings, user: Users, removed: BOOLEAN])
  /\ \A i \in DOMAIN favorites : favorites[i].listing \in Posted
  /\ questions \in Seq([listing: Listings, from: Users, to: Users, answered: BOOLEAN])
  /\ plan \in [Plans -> PlanRow \cup {NoPlan}]
  /\ subscriptions \in Seq([user: Landlords, plan: Plans, status: {"ACTIVE", "CANCELLED"}])

Cached == \A k \in DOMAIN cache : k \in Copied => ValueOK(k, cache[k])

-----------------------------------------------------------------------------
(* What the cache holds *)

\* A key that copies a table holds what the table holds, or a request is about to drop it.
Dropping == {"delete", "scan", "unlink"}
Drops(r, k) ==
  \E i \in DOMAIN req[r].todo :
    /\ \A j \in 1..i : req[r].todo[j][1] \in Dropping
    /\ IF req[r].todo[i][1] = "delete" THEN req[r].todo[i][2] = k ELSE k \in req[r].todo[i][2]
Contended(k) == IF k[1] = "user:listings" THEN ~Calm(k[2]) ELSE Subject(k) \in contended
CacheFresh ==
  \A k \in Copied : k \in DOMAIN cache =>
    Contended(k) \/ cache[k] = Current(k) \/ \E r \in Requests : Drops(r, k)

\* The counter of a listing is that of its views, or a request is about to insert one more.
Balanced ==
  \A l \in Posted : \/ l \in contended
                    \/ \E r \in Requests : Needs(req[r].todo, <<"ahead", l, Nobody>>)
                    \/ listing[l].views = Cardinality(Viewings(l))
Novel == \A l \in Posted : l \notin contended =>
  \A i, j \in Viewings(l) : i # j => views[i] # views[j]

Fresh == CacheFresh /\ Balanced /\ Novel
Inv == Shaped /\ TablesOK /\ Cached /\ InterestInOthers /\ OneSubscription /\ Fresh

-----------------------------------------------------------------------------
(* The algebra of programs *)

\* What the rest of a program relies on, its first step establishes or relies on the same before.
LEMMA NeedsTail ==
  ASSUME NEW q, Program(q), q # <<>>, NEW k, Needs(Tail(q), k)
  PROVE  Gives(q[1], k) \/ Needs(q, k)
<1>1. Steps(q) = {q[1]} \cup Steps(Tail(q))
  BY ProgramTail
<1>2. QED
  BY <1>1 DEF Needs

LEMMA NeedsJoin ==
  ASSUME NEW p, NEW q, Program(p), Program(q), NEW k, Needs(p \o q, k)
  PROVE  Needs(p, k) \/ Needs(q, k)
<1>1. Steps(p \o q) = Steps(p) \cup Steps(q)
  BY ProgramJoin
<1>2. QED
  BY <1>1 DEF Needs

LEMMA NeedsNothing == \A k : ~Needs(<<>>, k)
<1>1. Steps(<<>>) = {}
  BY NoProgram
<1>2. QED
  BY <1>1 DEF Needs

\* The rest of a program is a program that may be left.
LEMMA FitTail ==
  ASSUME NEW q, NEW A, Fit(q, A), q # <<>>
  PROVE  /\ Fit(Tail(q), A) /\ StepOK(q[1]) /\ Minds(q[1], A)
         /\ q[1][1] \in Final => Tail(q) = <<>> /\ Steps(q) = {q[1]}
         /\ \A y \in Steps(Tail(q)) : Ordered(q[1], y)
<1>0. /\ Program(q) /\ InOrder(q) /\ Adjacent(q) /\ Counting(q) /\ Ends(q, Final)
      /\ \A x \in Steps(q) : StepOK(x) /\ Minds(x, A)
  BY DEF Fit
<1>1. /\ Program(Tail(q)) /\ q[1] \in Steps(q) /\ Steps(q) = {q[1]} \cup Steps(Tail(q))
      /\ \A i \in DOMAIN Tail(q) : i + 1 \in DOMAIN q /\ Tail(q)[i] = q[i + 1]
      /\ Len(q) \in Nat \ {0} /\ Len(Tail(q)) = Len(q) - 1
      /\ DOMAIN q = 1..Len(q) /\ DOMAIN Tail(q) = 1..Len(Tail(q)) /\ 1 \in DOMAIN q
  BY <1>0, ProgramTail
<1>2. Ends(Tail(q), Final) /\ (q[1][1] \in Final => Tail(q) = <<>> /\ Steps(q) = {q[1]})
  BY <1>0, EndsTail
<1>3. \A y \in Steps(Tail(q)) : Ordered(q[1], y)
  <2>1. ASSUME NEW i \in DOMAIN Tail(q) PROVE Ordered(q[1], Tail(q)[i])
    <3>1. i + 1 \in DOMAIN q /\ Tail(q)[i] = q[i + 1] /\ 1 < i + 1
      BY <1>1
    <3>2. QED
      BY <1>0, <1>1, <3>1 DEF InOrder
  <2>2. QED
    BY <2>1 DEF Steps
<1>4. InOrder(Tail(q))
  <2>1. ASSUME NEW i \in DOMAIN Tail(q), NEW j \in DOMAIN Tail(q), i < j
        PROVE  Ordered(Tail(q)[i], Tail(q)[j])
    <3>1. /\ i + 1 \in DOMAIN q /\ j + 1 \in DOMAIN q /\ i + 1 < j + 1
          /\ Tail(q)[i] = q[i + 1] /\ Tail(q)[j] = q[j + 1]
      BY <1>1, <2>1
    <3>2. QED
      BY <1>0, <3>1 DEF InOrder
  <2>2. QED
    BY <2>1 DEF InOrder
<1>5. Counting(Tail(q))
  <2>1. CASE q[1][1] = "countView"
    BY <1>3, <2>1 DEF Counting, Ordered
  <2>2. CASE q[1][1] # "countView"
    BY <1>0, <1>1, <2>2 DEF Counting
  <2>3. QED
    BY <2>1, <2>2
<1>6. Adjacent(Tail(q))
  <2>1. ASSUME NEW i \in DOMAIN Tail(q), NEW n \in {1, 2}, (i + 1) + n \in DOMAIN q
        PROVE  i + n \in DOMAIN Tail(q) /\ Tail(q)[i + n] = q[(i + 1) + n]
    <3>1. i + n \in DOMAIN Tail(q) /\ (i + n) + 1 = (i + 1) + n
      BY <1>1, <2>1
    <3>2. QED
      BY <1>1, <3>1
  <2>2. ASSUME NEW i \in DOMAIN Tail(q)
        PROVE  /\ i + 1 \in DOMAIN q /\ Tail(q)[i] = q[i + 1]
               /\ (i + 1) + 2 \in DOMAIN q => /\ i + 2 \in DOMAIN Tail(q) /\ i + 1 \in DOMAIN Tail(q)
                                              /\ Tail(q)[i + 2] = q[(i + 1) + 2]
                                              /\ Tail(q)[i + 1] = q[(i + 1) + 1]
               /\ (i + 1) + 1 \in DOMAIN q => i + 1 \in DOMAIN Tail(q) /\ Tail(q)[i + 1] = q[(i + 1) + 1]
    <3>1. (i + 1) + 2 \in DOMAIN q => (i + 1) + 1 \in DOMAIN q
      BY <1>1
    <3>2. QED
      BY <1>1, <2>1, <3>1
  <2>3. ASSUME NEW i \in DOMAIN Tail(q), Tail(q)[i][1] = "get"
        PROVE  /\ i + 2 \in DOMAIN Tail(q) /\ Tail(q)[i + 1][1] \in {"select", "search"}
               /\ Tail(q)[i + 1][2] = Tail(q)[i][2] /\ Tail(q)[i + 2] = <<"set", Tail(q)[i][2]>>
    <3>1. /\ (i + 1) + 2 \in DOMAIN q /\ q[(i + 1) + 1][1] \in {"select", "search"}
          /\ q[(i + 1) + 1][2] = q[i + 1][2] /\ q[(i + 1) + 2] = <<"set", q[i + 1][2]>>
      BY <1>0, <2>2, <2>3 DEF Adjacent
    <3>2. QED
      BY <2>2, <3>1
  <2>4. ASSUME NEW i \in DOMAIN Tail(q), Tail(q)[i][1] = "savePlan"
        PROVE  /\ i + 2 \in DOMAIN Tail(q) /\ Tail(q)[i + 1] = <<"delete", PlanKey(Tail(q)[i][2])>>
               /\ Tail(q)[i + 2] = DropPlans
    <3>1. /\ (i + 1) + 2 \in DOMAIN q /\ q[(i + 1) + 1] = <<"delete", PlanKey(q[i + 1][2])>>
          /\ q[(i + 1) + 2] = DropPlans
      BY <1>0, <2>2, <2>4 DEF Adjacent
    <3>2. QED
      BY <2>2, <3>1
  <2>5. ASSUME NEW i \in DOMAIN Tail(q), Tail(q)[i][1] = "insertPlan"
        PROVE  i + 1 \in DOMAIN Tail(q) /\ Tail(q)[i + 1] = DropPlans
    <3>1. (i + 1) + 1 \in DOMAIN q /\ q[(i + 1) + 1] = DropPlans
      BY <1>0, <2>2, <2>5 DEF Adjacent
    <3>2. QED
      BY <2>2, <3>1
  <2>6. ASSUME NEW i \in DOMAIN Tail(q), Tail(q)[i][1] = "countView"
        PROVE  /\ i + 2 \in DOMAIN Tail(q) /\ Tail(q)[i + 1] = <<"delete", ListingKey(Tail(q)[i][2])>>
               /\ Tail(q)[i + 2][1] = "insertView" /\ Tail(q)[i + 2][2] = Tail(q)[i][2]
    <3>0. PICK j : j = i + 1
      OBVIOUS
    <3>1. j \in DOMAIN q /\ q[j][1] = "countView"
      BY <2>2, <2>6, <3>0
    <3>2. /\ j + 2 \in DOMAIN q /\ q[j + 1] = <<"delete", ListingKey(q[j][2])>>
          /\ q[j + 2][1] = "insertView" /\ q[j + 2][2] = q[j][2]
      BY <1>0, <3>1 DEF Adjacent
    <3>3. QED
      BY <2>2, <3>0, <3>2
  <2>7. QED
    BY <2>3, <2>4, <2>5, <2>6 DEF Adjacent
<1>7. QED
  BY <1>0, <1>1, <1>2, <1>3, <1>4, <1>5, <1>6 DEF Fit

\* The kinds of keys and of facts.
LEMMA CopiedKinds ==
  ASSUME NEW k \in Copied
  PROVE  \/ \E l \in Listings : k = ListingKey(l) /\ k = <<"listing", l>> /\ k[1] = "listing" /\ k[2] = l
         \/ \E u \in Users : k = UserPage(u) /\ k = <<"user:listings", u>> /\ k[1] = "user:listings" /\ k[2] = u
         \/ \E p \in Plans : k = PlanKey(p) /\ k = <<"plan", p>> /\ k[1] = "plan" /\ k[2] = p
         \/ k = PlansKey /\ k = <<"plans">> /\ k[1] = "plans"
BY DEF Copied, ListingKey, UserPage, PlanKey, PlansKey

LEMMA KeyIs ==
  /\ \A l : ListingKey(l) = <<"listing", l>> /\ ListingKey(l)[1] = "listing" /\ ListingKey(l)[2] = l
  /\ \A u : UserPage(u) = <<"user:listings", u>> /\ UserPage(u)[1] = "user:listings" /\ UserPage(u)[2] = u
  /\ \A p : PlanKey(p) = <<"plan", p>> /\ PlanKey(p)[1] = "plan" /\ PlanKey(p)[2] = p
  /\ PlansKey = <<"plans">> /\ PlansKey[1] = "plans"
BY DEF ListingKey, UserPage, PlanKey, PlansKey

LEMMA SubjectIs ==
  /\ \A l : Subject(ListingKey(l)) = l
  /\ \A u : Subject(UserPage(u)) = u
  /\ \A p : Subject(PlanKey(p)) = p
  /\ Subject(PlansKey) = "plans"
BY KeyIs DEF Subject

LEMMA KeyCopied ==
  /\ \A l \in Listings : ListingKey(l) \in Copied
  /\ \A u \in Users : UserPage(u) \in Copied
  /\ \A p \in Plans : PlanKey(p) \in Copied
  /\ PlansKey \in Copied
BY DEF Copied

LEMMA SoftKinds ==
  ASSUME NEW k \in Soft
  PROVE  \/ k[1] = "copy" /\ k[3] \in Copied /\ k[2] = Subject(k[3])
         \/ k[1] \in {"favorite", "seen"} /\ k[2] \in Listings /\ k[3] \in Users \cup {Nobody}
         \/ k[1] = "novel" /\ k[2] \in Listings /\ k[3] \in Users
         \/ k[1] \in {"dropped", "ahead"} /\ k[2] \in Listings /\ k[3] = Nobody
         \/ k[1] = "unpaged" /\ k[2] \in Users /\ k[3] \in Listings \cup {Nobody}
         \/ k[1] = "alone" /\ k[2] \in Buyers /\ k[3] \in Plans
BY DEF Soft

LEMMA HardKinds ==
  ASSUME NEW k \in Hard
  PROVE  \/ k[1] = "typed" /\ k[3] \in Copied /\ k[2] = Subject(k[3])
         \/ k[1] = "landlord" /\ k[2] \in Buyers
         \/ k[1] = "notOwner" /\ k[2] \in Listings /\ k[3] \in Users
         \/ k[1] = "periods" /\ k[2] \in Offers
         \/ k[1] = "row"
BY DEF Hard

LEMMA CopyFact ==
  ASSUME NEW k \in Copied
  PROVE  /\ <<"copy", Subject(k), k>> \in Soft /\ <<"copy", Subject(k), k>> \in Facts
         /\ <<"typed", Subject(k), k>> \in Hard /\ <<"typed", Subject(k), k>> \in Facts
         /\ <<"typed", Subject(k), k>> \notin Soft
<1>1. <<"copy", Subject(k), k>> \in Soft /\ <<"typed", Subject(k), k>> \in Hard
  BY DEF Soft, Hard
<1>2. <<"typed", Subject(k), k>> \notin Soft
  <2>1. ASSUME <<"typed", Subject(k), k>> \in Soft PROVE FALSE
    <3>1. PICK f : f = <<"typed", Subject(k), k>>
      OBVIOUS
    <3>2. f \in Soft /\ f[1] = "typed"
      BY <2>1, <3>1
    <3>3. QED
      BY <3>2, SoftKinds
  <2>2. QED
    BY <2>1
<1>3. QED
  BY <1>1, <1>2 DEF Facts

\* No step relies on what it establishes itself.
LEMMA UsesOrGives == ASSUME NEW x, NEW k, Uses(x, k) PROVE ~Gives(x, k)
<1>1. x[1] \in {"set", "savePlan", "show"} \cup Listing \cup {"insertListing", "insertSubscription", "insertFavorite", "removeFavorite"}
  BY DEF Uses, Listing
<1>2. CASE x[1] = "visible"
  BY <1>2 DEF Uses, Gives, Listing
<1>3. CASE x[1] = "countView"
  BY <1>3 DEF Uses, Gives, Listing
<1>4. CASE x[1] \notin {"visible", "countView"}
  BY <1>1, <1>4 DEF Gives, Listing
<1>5. QED
  BY <1>2, <1>3, <1>4

\* What the step at hand relies on, the program does.
LEMMA NeedsHead ==
  ASSUME NEW q, NEW A, Fit(q, A), q # <<>>, NEW k, Uses(q[1], k)
  PROVE  Needs(q, k)
<1>1. Steps(q) = {q[1]} \cup Steps(Tail(q)) /\ q[1] \in Steps(q)
  BY ProgramTail DEF Fit
<1>2. /\ q[1][1] \in Final => Steps(q) = {q[1]}
      /\ \A y \in Steps(Tail(q)) : Ordered(q[1], y)
  BY FitTail
<1>3. ASSUME NEW y \in Steps(Tail(q)), q[1][1] \notin Final, Ordered(q[1], y) PROVE ~Gives(y, k)
  <2>1. PICK x : x = q[1]
    OBVIOUS
  <2>2. x[1] \notin Final /\ Ordered(x, y) /\ Uses(x, k)
    BY <1>3, <2>1
  <2>3. x[1] \in {"set", "savePlan", "show", "visible", "countView"}
    BY <2>2 DEF Uses, Listing, Final
  <2>4. CASE x[1] = "set"
    <3>1. y[1] \notin Reading /\ k[1] \in {"copy", "typed"}
      BY <2>2, <2>4 DEF Uses, Listing, Ordered
    <3>2. QED
      BY <3>1 DEF Gives, Reading
  <2>5. CASE x[1] = "visible"
    <3>1. y[1] \notin Reading /\ k[1] \in {"copy", "typed", "favorite"}
      BY <2>2, <2>5 DEF Uses, Listing, Ordered
    <3>2. QED
      BY <3>1 DEF Gives, Reading
  <2>6. CASE x[1] = "show"
    <3>1. y[1] # "visible" /\ k[1] = "seen"
      BY <2>2, <2>6 DEF Uses, Listing, Ordered
    <3>2. QED
      BY <3>1 DEF Gives
  <2>7. CASE x[1] = "countView"
    <3>1. y[1] \in {"delete", "insertView"} /\ k[1] = "typed"
      BY <2>2, <2>7 DEF Uses, Listing, Ordered
    <3>2. QED
      BY <3>1 DEF Gives
  <2>8. CASE x[1] = "savePlan"
    <3>1. y[1] \in {"delete", "scan", "unlink"} /\ k[1] \in {"copy", "typed"}
      BY <2>2, <2>8 DEF Uses, Listing, Ordered
    <3>2. QED
      BY <3>1 DEF Gives
  <2>9. QED
    BY <2>3, <2>4, <2>5, <2>6, <2>7, <2>8
<1>4. QED
  BY <1>1, <1>2, <1>3, UsesOrGives DEF Needs

\* What a program relies on and others may end, it is about, or it is no page of the owner.
LEMMA NeedsMind ==
  ASSUME NEW q, NEW A, Fit(q, A), NEW k \in Soft, Needs(q, k)
  PROVE  \/ k[2] \in A
         \/ k[1] = "unpaged" /\ k[3] \in Posted /\ k[2] \notin Owner(k[3])
<1>1. PICK x \in Steps(q) : Uses(x, k)
  BY DEF Needs
<1>2. Minds(x, A)
  BY DEF Fit
<1>3. CASE x[1] = "set"
  <2>1. x[2] \in Copied /\ k[2] = Subject(x[2])
    BY <1>1, <1>3 DEF Uses, Listing
  <2>2. x[2][1] # "listings"
    BY <2>1, CopiedKinds
  <2>3. QED
    BY <1>2, <1>3, <2>1, <2>2 DEF Minds
<1>4. CASE x[1] = "saveListing"
  <2>1. CASE k[1] = "unpaged"
    <3>1. k[3] = x[2] /\ MindsOwner(x[2], A)
      BY <1>1, <1>2, <1>4, <2>1 DEF Uses, Listing, Minds
    <3>2. k[2] \in Users
      BY <2>1, SoftKinds
    <3>3. QED
      BY <2>1, <3>1, <3>2 DEF MindsOwner, Owner
  <2>2. CASE k[1] # "unpaged"
    <3>1. k[2] = x[2]
      BY <1>1, <1>4, <2>2 DEF Uses, Listing
    <3>2. QED
      BY <1>2, <1>4, <3>1 DEF Minds, Listing
  <2>3. QED
    BY <2>1, <2>2
<1>5. CASE x[1] \in (Listing \cup {"savePlan", "show"}) \ {"saveListing"}
  <2>1. k[2] = x[2]
    BY <1>1, <1>5 DEF Uses, Listing
  <2>2. QED
    BY <1>2, <1>5, <2>1 DEF Minds, Listing
<1>6. CASE x[1] \in {"insertListing", "insertSubscription"}
  <2>1. k[1] \notin {"periods", "landlord"}
    BY SoftKinds
  <2>2. k[2] = x[2]
    BY <1>1, <1>6, <2>1 DEF Uses, Listing
  <2>3. QED
    BY <1>2, <1>6, <2>2 DEF Minds
<1>7. CASE x[1] \in {"insertFavorite", "removeFavorite"}
  <2>1. k[1] \in {"notOwner", "row"}
    BY <1>1, <1>7 DEF Uses, Listing
  <2>2. QED
    BY <2>1, SoftKinds
<1>8. QED
  BY <1>1, <1>3, <1>4, <1>5, <1>6, <1>7 DEF Uses, Listing

-----------------------------------------------------------------------------
(* Programs one after the other *)

LEMMA FitJoin ==
  ASSUME NEW p, NEW q, NEW A, Fit(p, A), Fit(q, A), \A x \in Steps(p) : x[1] \notin Final,
         \A x \in Steps(p), y \in Steps(q) : Ordered(x, y), Counting(p \o q)
  PROVE  Fit(p \o q, A)
<1>0. /\ Program(p) /\ InOrder(p) /\ Adjacent(p) /\ \A x \in Steps(p) : StepOK(x) /\ Minds(x, A)
      /\ Program(q) /\ InOrder(q) /\ Adjacent(q) /\ Ends(q, Final)
      /\ \A x \in Steps(q) : StepOK(x) /\ Minds(x, A)
  BY DEF Fit
<1>1. /\ Program(p \o q) /\ Steps(p \o q) = Steps(p) \cup Steps(q)
      /\ Len(p) \in Nat /\ Len(q) \in Nat
      /\ DOMAIN p = 1..Len(p) /\ DOMAIN q = 1..Len(q) /\ DOMAIN (p \o q) = 1..Len(p) + Len(q)
      /\ \A i \in 1..Len(p) + Len(q) : (p \o q)[i] = IF i <= Len(p) THEN p[i] ELSE q[i - Len(p)]
  BY <1>0, ProgramJoin
<1> DEFINE s == p \o q
<1> HIDE DEF s
<1>2. /\ DOMAIN s = 1..Len(p) + Len(q)
      /\ \A i \in DOMAIN p : i \in DOMAIN s /\ s[i] = p[i]
      /\ \A i \in DOMAIN q : i + Len(p) \in DOMAIN s /\ s[i + Len(p)] = q[i]
      /\ \A i \in DOMAIN s : i \in DOMAIN p \/ (i - Len(p) \in DOMAIN q /\ (i - Len(p)) + Len(p) = i)
  <2>1. ASSUME NEW i \in DOMAIN p PROVE i \in DOMAIN s /\ s[i] = p[i]
    <3>1. i \in 1..Len(p) + Len(q) /\ i <= Len(p)
      BY <1>1
    <3>2. QED
      BY <1>1, <3>1 DEF s
  <2>2. ASSUME NEW i \in DOMAIN q PROVE i + Len(p) \in DOMAIN s /\ s[i + Len(p)] = q[i]
    <3>1. i + Len(p) \in 1..Len(p) + Len(q) /\ ~(i + Len(p) <= Len(p)) /\ (i + Len(p)) - Len(p) = i
      BY <1>1
    <3>2. QED
      BY <1>1, <3>1 DEF s
  <2>3. ASSUME NEW i \in DOMAIN s
        PROVE  i \in DOMAIN p \/ (i - Len(p) \in DOMAIN q /\ (i - Len(p)) + Len(p) = i)
    <3>1. i \in 1..Len(p) + Len(q)
      BY <1>1 DEF s
    <3>2. QED
      BY <1>1, <3>1
  <2>4. QED
    BY <1>1, <2>1, <2>2, <2>3 DEF s
<1>3. Ends(s, Final)
  BY <1>0, EndsJoin DEF s
<1>4. InOrder(s)
  <2>1. ASSUME NEW i \in DOMAIN s, NEW j \in DOMAIN s, i < j PROVE Ordered(s[i], s[j])
    <3>1. CASE j \in DOMAIN p
      <4>1. i \in DOMAIN p
        BY <1>1, <1>2, <2>1, <3>1
      <4>2. QED
        BY <1>0, <1>2, <2>1, <3>1, <4>1 DEF InOrder
    <3>2. CASE j \notin DOMAIN p
      <4>1. PICK n : n = j - Len(p)
        OBVIOUS
      <4>2. n \in DOMAIN q /\ n \in Nat /\ j = n + Len(p) /\ s[j] = q[n]
        BY <1>1, <1>2, <3>2, <4>1
      <4>3. CASE i \in DOMAIN p
        <5>1. s[i] \in Steps(p) /\ s[j] \in Steps(q)
          BY <1>2, <4>2, <4>3 DEF Steps
        <5>2. QED
          BY <5>1
      <4>4. CASE i \notin DOMAIN p
        <5>1. PICK m : m = i - Len(p)
          OBVIOUS
        <5>2. m \in DOMAIN q /\ m \in Nat /\ i = m + Len(p) /\ s[i] = q[m] /\ m < n
          BY <1>1, <1>2, <2>1, <4>2, <4>4, <5>1
        <5>3. QED
          BY <1>0, <4>2, <5>2 DEF InOrder
      <4>5. QED
        BY <4>3, <4>4
    <3>3. QED
      BY <3>1, <3>2
  <2>2. QED
    BY <2>1 DEF InOrder
<1>5. Adjacent(s)
  <2>1. \A i \in DOMAIN p : /\ i \in DOMAIN s /\ s[i] = p[i]
                            /\ i + 1 \in DOMAIN p => i + 1 \in DOMAIN s /\ s[i + 1] = p[i + 1]
                            /\ i + 2 \in DOMAIN p => /\ i + 2 \in DOMAIN s /\ s[i + 2] = p[i + 2]
                                                     /\ i + 1 \in DOMAIN p
    <3>1. ASSUME NEW i \in DOMAIN p PROVE i + 2 \in DOMAIN p => i + 1 \in DOMAIN p
      BY <1>1
    <3>2. QED
      BY <1>2, <3>1
  <2>2. ASSUME NEW i \in DOMAIN s, i \notin DOMAIN p
        PROVE  \E n \in DOMAIN q :
                 /\ s[i] = q[n]
                 /\ n + 1 \in DOMAIN q => i + 1 \in DOMAIN s /\ s[i + 1] = q[n + 1]
                 /\ n + 2 \in DOMAIN q => /\ i + 2 \in DOMAIN s /\ s[i + 2] = q[n + 2]
                                          /\ n + 1 \in DOMAIN q
    <3>1. PICK n : n = i - Len(p)
      OBVIOUS
    <3>2. n \in DOMAIN q /\ n \in Nat /\ i = n + Len(p) /\ s[i] = q[n]
      BY <1>1, <1>2, <2>2, <3>1
    <3>3. i + 1 = (n + 1) + Len(p) /\ i + 2 = (n + 2) + Len(p) /\ (n + 2 \in DOMAIN q => n + 1 \in DOMAIN q)
      BY <1>1, <3>2
    <3>4. n + 1 \in DOMAIN q => i + 1 \in DOMAIN s /\ s[i + 1] = q[n + 1]
      BY <1>2, <3>3
    <3>5. n + 2 \in DOMAIN q => i + 2 \in DOMAIN s /\ s[i + 2] = q[n + 2]
      BY <1>2, <3>3
    <3>6. QED
      BY <3>2, <3>3, <3>4, <3>5
  <2>3. ASSUME NEW i \in DOMAIN s, s[i][1] = "get"
        PROVE  /\ i + 2 \in DOMAIN s /\ s[i + 1][1] \in {"select", "search"}
               /\ s[i + 1][2] = s[i][2] /\ s[i + 2] = <<"set", s[i][2]>>
    <3>1. CASE i \in DOMAIN p
      BY <1>0, <2>1, <2>3, <3>1 DEF Adjacent
    <3>2. CASE i \notin DOMAIN p
      BY <1>0, <2>2, <2>3, <3>2 DEF Adjacent
    <3>3. QED
      BY <3>1, <3>2
  <2>4. ASSUME NEW i \in DOMAIN s, s[i][1] = "savePlan"
        PROVE  /\ i + 2 \in DOMAIN s /\ s[i + 1] = <<"delete", PlanKey(s[i][2])>> /\ s[i + 2] = DropPlans
    <3>1. CASE i \in DOMAIN p
      BY <1>0, <2>1, <2>4, <3>1 DEF Adjacent
    <3>2. CASE i \notin DOMAIN p
      BY <1>0, <2>2, <2>4, <3>2 DEF Adjacent
    <3>3. QED
      BY <3>1, <3>2
  <2>5. ASSUME NEW i \in DOMAIN s, s[i][1] = "insertPlan"
        PROVE  i + 1 \in DOMAIN s /\ s[i + 1] = DropPlans
    <3>1. CASE i \in DOMAIN p
      BY <1>0, <2>1, <2>5, <3>1 DEF Adjacent
    <3>2. CASE i \notin DOMAIN p
      BY <1>0, <2>2, <2>5, <3>2 DEF Adjacent
    <3>3. QED
      BY <3>1, <3>2
  <2>6. ASSUME NEW i \in DOMAIN s, s[i][1] = "countView"
        PROVE  /\ i + 2 \in DOMAIN s /\ s[i + 1] = <<"delete", ListingKey(s[i][2])>>
               /\ s[i + 2][1] = "insertView" /\ s[i + 2][2] = s[i][2]
    <3>1. CASE i \in DOMAIN p
      BY <1>0, <2>1, <2>6, <3>1 DEF Adjacent
    <3>2. CASE i \notin DOMAIN p
      BY <1>0, <2>2, <2>6, <3>2 DEF Adjacent
    <3>3. QED
      BY <3>1, <3>2
  <2>7. QED
    BY <2>3, <2>4, <2>5, <2>6 DEF Adjacent
<1>6. QED
  BY <1>0, <1>1, <1>3, <1>4, <1>5 DEF Fit, s

-----------------------------------------------------------------------------
(* Requests go on *)

\* Rows are added to the tables, and keep what they are about.
Growth ==
  /\ DOMAIN questions \subseteq DOMAIN questions' /\ DOMAIN subscriptions \subseteq DOMAIN subscriptions'
  /\ DOMAIN favorites \subseteq DOMAIN favorites'
  /\ \A i \in DOMAIN favorites : favorites'[i].listing = favorites[i].listing
  /\ Posted \subseteq Posted' /\ \A l \in Posted : listing'[l].owner = listing[l].owner
  /\ \A l \in Posted' : listing'[l].owner \in Users
  /\ Existing \subseteq Existing'

\* A step leaves what a request knows of the fact as it was.
Steady(k) ==
  /\ k[1] = "copy" => (Present(k[3]) => Current(k[3])' = Current(k[3]))
  /\ k[1] = "favorite" => IsFavorite(k[2], k[3])' = IsFavorite(k[2], k[3])
  /\ k[1] = "seen" => (Seen(k[2], k[3]) => Seen(k[2], k[3])')
  /\ k[1] = "novel" => (<<k[2], k[3]>> \in Rows(views)' => <<k[2], k[3]>> \in Rows(views))
  /\ k[1] = "ahead" => (k[2] \in Posted => /\ listing'[k[2]].views = listing[k[2]].views
                                           /\ Viewings(k[2])' = Viewings(k[2]))
  /\ k[1] = "dropped" => (ListingKey(k[2]) \in DOMAIN cache' => ListingKey(k[2]) \in DOMAIN cache)
  /\ k[1] = "unpaged" => (UserPage(k[2]) \in DOMAIN cache' => UserPage(k[2]) \in DOMAIN cache)
  /\ k[1] = "alone" => (IsSubscribed(k[2], k[3])' => IsSubscribed(k[2], k[3]))

\* The step of r ends no fact but of what r is about.
Minding(r) == \A k \in Soft : k[2] \in req[r].about \/ Steady(k)

LEMMA PostedTyped == ASSUME TablesOK PROVE \A l \in Posted : listing[l].owner \in Users
BY DEF TablesOK, Whole, ListingRow

LEMMA NoGrowth ==
  ASSUME TablesOK, UNCHANGED <<listing, questions, subscriptions, favorites, plan>> PROVE Growth
<1>1. \A l \in Posted : listing[l].owner \in Users
  BY PostedTyped
<1>2. Posted' = Posted /\ Existing' = Existing
  BY DEF Posted, Existing
<1>3. QED
  BY <1>1, <1>2 DEF Growth

\* A step stays what its action expects.
LEMMA StepStays ==
  ASSUME Growth, NEW x, NEW A, StepOK(x), Minds(x, A)
  PROVE  StepOK(x)' /\ Minds(x, A)'
<1>1. /\ \A n : n \in DOMAIN questions => n \in DOMAIN questions'
      /\ \A n : n \in DOMAIN subscriptions => n \in DOMAIN subscriptions'
  BY DEF Growth
<1>2. StepOK(x)'
  BY <1>1 DEF StepOK
<1>3. \A l : MindsOwner(l, A) => MindsOwner(l, A)'
  <2>1. ASSUME NEW l, MindsOwner(l, A) PROVE MindsOwner(l, A)'
    <3>1. CASE l \in Posted
      <4>1. l \in Posted' /\ listing'[l].owner = listing[l].owner /\ listing[l].owner \in A
        BY <2>1, <3>1 DEF MindsOwner, Growth
      <4>2. QED
        BY <4>1 DEF MindsOwner
    <3>2. CASE l \notin Posted
      <4>1. Users \subseteq A /\ (l \in Posted' => listing'[l].owner \in Users)
        BY <2>1, <3>2 DEF MindsOwner, Growth
      <4>2. QED
        BY <4>1 DEF MindsOwner
    <3>3. QED
      BY <3>1, <3>2
  <2>2. QED
    BY <2>1
<1>4. Minds(x, A)'
  <2>1. x[1] \in {"prepare", "setStatus", "saveListing"} => MindsOwner(x[2], A)'
    BY <1>3 DEF Minds
  <2>2. \A k : Subject(k)' = Subject(k)
    BY DEF Subject
  <2>3. QED
    BY <2>1, <2>2 DEF Minds
<1>5. QED
  BY <1>2, <1>4

LEMMA FitStays ==
  ASSUME Growth, NEW q, NEW A, Fit(q, A)
  PROVE  Fit(q, A)'
<1>1. \A x \in Steps(q) : StepOK(x)' /\ Minds(x, A)'
  <2>1. ASSUME NEW x \in Steps(q) PROVE StepOK(x)' /\ Minds(x, A)'
    BY StepStays DEF Fit
  <2>2. QED
    BY <2>1
<1>2. QED
  BY <1>1 DEF Fit

LEMMA FitNone == \A A : Fit(<<>>, A)
<1>1. Program(<<>>) /\ Steps(<<>>) = {} /\ DOMAIN <<>> = {}
  BY NoProgram
<1>2. InOrder(<<>>) /\ Adjacent(<<>>) /\ Ends(<<>>, Final) /\ Counting(<<>>)
  BY <1>1 DEF InOrder, Adjacent, Ends, Counting
<1>3. QED
  BY <1>1, <1>2 DEF Fit

\* What is known of a fact that a step does not end.
GotFor(k) == IF Copying(k) THEN k[3][1] ELSE k[1]

LEMMA TellsStays ==
  ASSUME Growth, NEW k \in Facts, NEW got, NEW A, Tells(got, A, k), k \in Soft => Steady(k),
         NEW more, GotFor(k) \in DOMAIN got => GotFor(k) \in DOMAIN more /\ more[GotFor(k)] = got[GotFor(k)]
  PROVE  Tells(more, A, k)'
<1>1. CASE k \in Soft
  <2>0. Steady(k)
    BY <1>1
  <2>1. CASE k[1] = "copy"
    <3>1. Present(k[3]) => Present(k[3])'
      BY DEF Present, Growth
    <3>2. QED
      BY <2>0, <2>1, <3>1 DEF Tells, Steady, GotFor, Copying
  <2>2. CASE k[1] = "favorite"
    BY <2>0, <2>2 DEF Tells, Steady, GotFor, Copying
  <2>3. CASE k[1] = "seen"
    BY <2>0, <2>3 DEF Tells, Steady, GotFor, Copying
  <2>4. CASE k[1] = "novel"
    BY <2>0, <2>4 DEF Tells, Steady, GotFor, Copying
  <2>5. CASE k[1] = "ahead"
    <3>1. k[2] \in Posted'
      BY <2>5 DEF Tells, Growth, GotFor, Copying
    <3>2. QED
      BY <2>0, <2>5, <3>1 DEF Tells, Steady, GotFor, Copying
  <2>6. CASE k[1] = "dropped"
    BY <2>0, <2>6 DEF Tells, Steady, GotFor, Copying
  <2>7. CASE k[1] = "unpaged"
    <3>1. (k[3] \in Posted' => k[2] \in Owner(k[3])') => (k[3] \in Posted => k[2] \in Owner(k[3]))
      BY DEF Growth, Owner
    <3>2. QED
      BY <2>0, <2>7, <3>1 DEF Tells, Steady, GotFor, Copying
  <2>8. CASE k[1] = "alone"
    BY <2>0, <2>8 DEF Tells, Steady, GotFor, Copying
  <2>9. QED
    BY <1>1, <2>1, <2>2, <2>3, <2>4, <2>5, <2>6, <2>7, <2>8, SoftKinds
<1>2. CASE k \in Hard
  <2>1. CASE k[1] = "typed"
    <3>1. \A v : ValueOK(k[3], v) => ValueOK(k[3], v)'
      <4>1. ASSUME NEW v, ValueOK(k[3], v) PROVE ValueOK(k[3], v)'
        <5>1. CASE k[3][1] = "listing"
          BY <4>1, <5>1 DEF ValueOK, Growth
        <5>2. CASE k[3][1] = "plan"
          BY <4>1, <5>2 DEF ValueOK, Growth
        <5>3. QED
          BY <5>1, <5>2 DEF ValueOK
      <4>2. QED
        BY <4>1
    <3>2. QED
      BY <2>1, <3>1 DEF Tells, GotFor, Copying
  <2>2. CASE k[1] \in {"landlord", "periods"}
    BY <2>2 DEF Tells, GotFor, Copying
  <2>3. CASE k[1] = "notOwner"
    BY <2>3 DEF Tells, Growth, GotFor, Copying
  <2>4. CASE k[1] = "row"
    BY <2>4 DEF Tells, Growth, GotFor, Copying
  <2>5. QED
    BY <1>2, <2>1, <2>2, <2>3, <2>4, HardKinds
<1>3. QED
  BY <1>1, <1>2 DEF Facts

LEMMA FactsStay == Facts' = Facts /\ Soft' = Soft
BY DEF Facts, Soft, Hard, Copied, Subject, ListingKey, UserPage, PlanKey, PlansKey

\* The other requests keep their shape and what they know.
LEMMA OthersStay ==
  ASSUME Shaped, Growth, NEW r \in Requests, Elsewhere(r), contended \subseteq contended', Minding(r),
         NEW s \in Requests \ {r}
  PROVE  Fit(req[s].todo, req[s].about)' /\ Knows(s)'
<1>1. PICK todo, got, about : todo = req[s].todo /\ got = req[s].got /\ about = req[s].about
  OBVIOUS
<1>2. req'[s] = req[s] /\ Fit(todo, about) /\ Knows(s)
  BY <1>1 DEF Elsewhere, Shaped
<1>3. Fit(req[s].todo, req[s].about)'
  <2>1. Fit(todo, about)'
    BY <1>2, FitStays
  <2>2. QED
    BY <1>1, <1>2, <2>1
<1>4. ASSUME NEW k \in Facts, Needs(todo, k) PROVE Known(s, k)'
  <2>1. (k \in Soft /\ k[2] \in contended) \/ Tells(got, about, k)
    BY <1>1, <1>2, <1>4 DEF Knows, Known
  <2>2. CASE k \in Soft /\ k[2] \in contended
    BY <2>2, FactsStay DEF Known
  <2>3. CASE Tells(got, about, k) /\ (k \in Soft => Steady(k))
    <3>1. Tells(got, about, k)'
      BY <2>3, TellsStays
    <3>2. QED
      BY <1>1, <1>2, <3>1 DEF Known
  <2>4. CASE Tells(got, about, k) /\ k \in Soft /\ ~Steady(k)
    <3>1. k[2] \in req[r].about
      BY <2>4 DEF Minding
    <3>2. CASE k[2] \in about
      <4>1. k[2] \in contended
        BY <1>1, <3>1, <3>2 DEF Apart, Shaped
      <4>2. QED
        BY <2>4, <4>1, FactsStay DEF Known
    <3>3. CASE k[1] = "unpaged" /\ k[3] \in Posted /\ k[2] \notin Owner(k[3])
      <4>1. k[3] \in Posted' /\ k[2] \notin Owner(k[3])'
        BY <3>3 DEF Growth, Owner
      <4>2. Tells(got, about, k)'
        BY <3>3, <4>1 DEF Tells
      <4>3. QED
        BY <1>1, <1>2, <4>2 DEF Known
    <3>4. QED
      BY <1>2, <1>4, <2>4, <3>2, <3>3, NeedsMind
  <2>5. QED
    BY <2>1, <2>2, <2>3, <2>4
<1>5. Knows(s)'
  <2>1. \A k \in Facts : Needs(req'[s].todo, k) => Known(s, k)'
    BY <1>1, <1>2, <1>4
  <2>2. QED
    BY <2>1, FactsStay DEF Knows, Needs, Uses, Gives
<1>6. QED
  BY <1>3, <1>5

\* The request whose turn it is is where it may be, and all the others are.
LEMMA StepShaped ==
  ASSUME Shaped, Growth, NEW r \in Requests, Proper', Elsewhere(r), contended \subseteq contended',
         UNCHANGED <<mix, calls, faults>>, req'[r].about \subseteq req[r].about,
         req'[r].op \in {req[r].op, "none"}, Fit(req[r].todo, req[r].about)', Knows(r)', Minding(r)
  PROVE  Shaped'
<1>1. Apart'
  BY ApartWhenDone DEF Shaped
<1>2. Counted'
  BY DEF Counted, Shaped, Elsewhere
<1>3. ASSUME NEW s \in Requests PROVE Fit(req[s].todo, req[s].about)' /\ Knows(s)'
  <2>1. CASE s = r
    BY <2>1
  <2>2. CASE s # r
    BY <2>2, OthersStay
  <2>3. QED
    BY <2>1, <2>2
<1>4. QED
  BY <1>1, <1>2, <1>3 DEF Shaped

\* A request that is over knows what it needs.
LEMMA IdleShaped ==
  ASSUME NEW r, req'[r] = Idle
  PROVE  /\ Fit(req[r].todo, req[r].about)' /\ Knows(r)' /\ req'[r].about = {} /\ req'[r].op = "none"
         /\ req'[r].todo = <<>>
<1>1. req'[r].todo = <<>> /\ req'[r].about = {} /\ req'[r].op = "none"
  BY DEF Idle
<1>2. Fit(<<>>, {})'
  <2>1. Program(<<>>) /\ Steps(<<>>) = {} /\ DOMAIN <<>> = {}
    BY NoProgram
  <2>2. (InOrder(<<>>) /\ Adjacent(<<>>) /\ Ends(<<>>, Final) /\ Counting(<<>>))'
    BY <2>1 DEF InOrder, Adjacent, Ends, Counting
  <2>3. QED
    BY <2>1, <2>2 DEF Fit
<1>3. Fit(req[r].todo, req[r].about)'
  BY <1>1, <1>2
<1>4. Knows(r)'
  <2>1. \A k \in Facts : ~Needs(req'[r].todo, k)
    BY <1>1, NeedsNothing
  <2>2. QED
    BY <2>1, FactsStay DEF Knows, Needs, Uses, Gives
<1>5. QED
  BY <1>1, <1>3, <1>4

\* What is known of the request whose turn it is.
LEMMA AtHand ==
  ASSUME Shaped, NEW r \in Requests, req[r].todo # <<>>, NEW h, h = req[r].todo[1]
  PROVE  /\ Fit(Tail(req[r].todo), req[r].about) /\ StepOK(h) /\ Minds(h, req[r].about)
         /\ h[1] \in Final => Tail(req[r].todo) = <<>>
         /\ \A y \in Steps(Tail(req[r].todo)) : Ordered(h, y)
         /\ \A k \in Facts : Uses(h, k) => Known(r, k)
         /\ \A k \in Facts : Needs(Tail(req[r].todo), k) => Gives(h, k) \/ Known(r, k)
<1>1. Fit(req[r].todo, req[r].about) /\ Knows(r)
  BY DEF Shaped
<1>2. /\ Fit(Tail(req[r].todo), req[r].about) /\ StepOK(h) /\ Minds(h, req[r].about)
      /\ h[1] \in Final => Tail(req[r].todo) = <<>>
      /\ \A y \in Steps(Tail(req[r].todo)) : Ordered(h, y)
  BY <1>1, FitTail
<1>3. ASSUME NEW k \in Facts, Uses(h, k) PROVE Known(r, k)
  BY <1>1, <1>3, NeedsHead DEF Knows
<1>4. ASSUME NEW k \in Facts, Needs(Tail(req[r].todo), k) PROVE Gives(h, k) \/ Known(r, k)
  BY <1>1, <1>4, NeedsTail DEF Knows, Fit
<1>5. QED
  BY <1>2, <1>3, <1>4

\* The request r goes on with a program that it may have left.
LEMMA GoesShaped ==
  ASSUME Shaped, Growth, NEW r \in Requests, NEW todo, NEW got, NEW A, A = req[r].about,
         Goes(r, todo, got), Fit(todo, A), Minding(r),
         \A k \in Facts : Needs(todo, k) => (k \in Soft /\ k[2] \in contended) \/ Tells(got, A, k)'
  PROVE  Shaped' /\ Elsewhere(r) /\ req'[r].todo = todo /\ UNCHANGED <<mix, calls, faults, contended>>
<1>1. /\ Proper' /\ Elsewhere(r) /\ req'[r].todo = todo
      /\ req'[r] = IF todo = <<>> THEN Idle
                   ELSE [op |-> req[r].op, about |-> req[r].about, todo |-> todo, got |-> got]
      /\ UNCHANGED <<mix, calls, faults, contended>>
  <2>1. Program(todo) /\ Proper
    BY DEF Fit, Shaped
  <2>2. QED
    BY <2>1, GoesOn
<1>2. /\ Fit(req[r].todo, req[r].about)' /\ Knows(r)' /\ req'[r].about \subseteq req[r].about
      /\ req'[r].op \in {req[r].op, "none"}
  <2>1. CASE todo = <<>>
    BY <1>1, <2>1, IdleShaped
  <2>2. CASE todo # <<>>
    <3>1. req'[r].todo = todo /\ req'[r].about = A /\ req'[r].got = got /\ req'[r].op = req[r].op
      BY <1>1, <2>2
    <3>2. Fit(req[r].todo, req[r].about)'
      BY <3>1, FitStays
    <3>3. \A k \in Facts : Needs(todo, k) => Known(r, k)'
      BY <1>1, <3>1, FactsStay DEF Known
    <3>4. Knows(r)'
      BY <3>1, <3>3, FactsStay DEF Knows, Needs, Uses, Gives
    <3>5. QED
      BY <3>1, <3>2, <3>4
  <2>3. QED
    BY <2>1, <2>2
<1>3. Shaped'
  BY <1>1, <1>2, StepShaped
<1>4. QED
  BY <1>1, <1>3

\* The step is done: what it establishes holds, and it ends nothing that is needed later.
LEMMA PassShaped ==
  ASSUME Shaped, Growth, NEW r \in Requests, req[r].todo # <<>>, NEW h, h = req[r].todo[1],
         NEW got, NEW A, A = req[r].about, Goes(r, Tail(req[r].todo), got), Minding(r),
         \A k \in Facts : Gives(h, k) /\ Needs(Tail(req[r].todo), k) =>
           (k \in Soft /\ k[2] \in contended) \/ Tells(got, A, k)',
         \A k \in Facts : ~Gives(h, k) /\ Needs(Tail(req[r].todo), k) =>
           /\ k \in Soft => Steady(k)
           /\ GotFor(k) \in DOMAIN req[r].got =>
                GotFor(k) \in DOMAIN got /\ got[GotFor(k)] = req[r].got[GotFor(k)]
  PROVE  /\ Shaped' /\ Elsewhere(r) /\ req'[r].todo = Tail(req[r].todo)
         /\ UNCHANGED <<mix, calls, faults, contended>>
<1>1. PICK todo, old : todo = Tail(req[r].todo) /\ old = req[r].got
  OBVIOUS
<1>2. Fit(todo, A) /\ \A k \in Facts : Needs(todo, k) => Gives(h, k) \/ Known(r, k)
  BY <1>1, AtHand
<1>3. ASSUME NEW k \in Facts, Needs(todo, k)
      PROVE  (k \in Soft /\ k[2] \in contended) \/ Tells(got, A, k)'
  <2>1. CASE Gives(h, k)
    BY <1>1, <1>3, <2>1
  <2>2. CASE ~Gives(h, k) /\ Tells(old, A, k)
    <3>1. /\ k \in Soft => Steady(k)
          /\ GotFor(k) \in DOMAIN old => GotFor(k) \in DOMAIN got /\ got[GotFor(k)] = old[GotFor(k)]
      BY <1>1, <1>3, <2>2
    <3>2. QED
      BY <2>2, <3>1, TellsStays
  <2>3. QED
    BY <1>1, <1>2, <1>3, <2>1, <2>2 DEF Known
<1>4. Goes(r, todo, got)
  BY <1>1
<1>5. QED
  BY <1>1, <1>2, <1>3, <1>4, GoesShaped

\* The handler ends.
LEMMA ThrowShaped ==
  ASSUME Shaped, Growth, NEW r \in Requests, Throw(r), Minding(r)
  PROVE  /\ Shaped' /\ Elsewhere(r) /\ req'[r].todo = <<>>
         /\ UNCHANGED <<mix, calls, faults, contended>>
<1>1. PICK A : A = req[r].about
  OBVIOUS
<1>2. Goes(r, <<>>, <<>>) /\ Fit(<<>>, A)
  BY FitNone DEF Throw
<1>3. QED
  BY <1>1, <1>2, NeedsNothing, GoesShaped

-----------------------------------------------------------------------------
(* Steps that change neither a table nor the cache *)

Still == UNCHANGED <<cache, listing, views, favorites, questions, plan, subscriptions>>

LEMMA StillSteady == ASSUME Still, NEW k PROVE Steady(k)
<1>1. \A f : Current(f)' = Current(f)
  BY DEF Still, Current, Search, Matches, MatchingPrices, Posted, ActivePlans, Existing
<1>2. \A l, u : IsFavorite(l, u)' = IsFavorite(l, u)
  BY DEF Still, IsFavorite, Rows
<1>3. \A l, u : Seen(l, u)' = Seen(l, u)
  BY DEF Still, Seen, Posted, IsFavorite, Rows
<1>4. Rows(views)' = Rows(views) /\ \A l : Viewings(l)' = Viewings(l)
  BY DEF Still, Rows, Viewings
<1>5. \A u, p : IsSubscribed(u, p)' = IsSubscribed(u, p)
  BY DEF Still, IsSubscribed
<1>6. QED
  BY <1>1, <1>2, <1>3, <1>4, <1>5 DEF Still, Steady

\* Once a view is counted, the handler is about to drop the key or to insert the view.
LEMMA AheadHead ==
  ASSUME NEW q, NEW A, Fit(q, A), NEW l, Needs(q, <<"ahead", l, Nobody>>)
  PROVE  /\ \A x \in Steps(q) : x[1] \in {"delete", "insertView"}
         /\ q # <<>> /\ l \in A
         /\ \E x \in Steps(q) : x[1] = "insertView" /\ x[2] = l
<1>1. PICK j \in DOMAIN q : Uses(q[j], <<"ahead", l, Nobody>>)
  BY DEF Needs, Steps
<1>2. q[j][1] = "insertView" /\ q[j][2] = l
  BY <1>1 DEF Uses, Listing
<1>3. /\ Program(q) /\ InOrder(q) /\ Ends(q, Final) /\ Counting(q)
      /\ \A x \in Steps(q) : Minds(x, A)
  BY DEF Fit
<1>4. j = Len(q) /\ Len(q) \in Nat /\ DOMAIN q = 1..Len(q)
  BY <1>2, <1>3 DEF Ends, Final, Program
<1>5. ASSUME NEW i \in DOMAIN q, q[i][1] = "countView" PROVE FALSE
  <2>1. i < j
    BY <1>2, <1>4, <1>5
  <2>2. q[i][2] = l
    BY <1>2, <1>3, <1>5, <2>1 DEF InOrder, Ordered
  <2>3. Gives(q[i], <<"ahead", l, Nobody>>)
    BY <1>5, <2>2 DEF Gives
  <2>4. QED
    BY <2>3 DEF Needs, Steps
<1>6. \A x \in Steps(q) : x[1] \in {"delete", "insertView"}
  BY <1>2, <1>3, <1>5 DEF Counting, Steps
<1>7. l \in A
  BY <1>2, <1>3 DEF Minds, Listing, Steps
<1>8. QED
  BY <1>1, <1>2, <1>4, <1>6, <1>7 DEF Steps

LEMMA ContendedStays ==
  ASSUME Growth, contended \subseteq contended', NEW k, Contended(k)
  PROVE  Contended(k)'
<1>1. Subject(k)' = Subject(k)
  BY DEF Subject
<1>2. \A u : Calm(u)' => Calm(u)
  BY DEF Calm, Growth, Owner
<1>3. QED
  BY <1>1, <1>2 DEF Contended

TablesStill == UNCHANGED <<listing, views, favorites, questions, plan, subscriptions>>

LEMMA TablesSame ==
  ASSUME TablesStill
  PROVE  /\ Posted' = Posted /\ Existing' = Existing /\ \A k : Current(k)' = Current(k)
         /\ \A k, v : ValueOK(k, v)' = ValueOK(k, v)
         /\ \A l, u : IsFavorite(l, u)' = IsFavorite(l, u) /\ Seen(l, u)' = Seen(l, u)
         /\ Rows(views)' = Rows(views) /\ \A l : Viewings(l)' = Viewings(l)
         /\ \A u, p : IsSubscribed(u, p)' = IsSubscribed(u, p)
<1>1. Posted' = Posted /\ Existing' = Existing
  BY DEF TablesStill, Posted, Existing
<1>2. \A k : Current(k)' = Current(k)
  BY <1>1 DEF TablesStill, Current, Search, Matches, MatchingPrices, ActivePlans
<1>3. \A k, v : ValueOK(k, v)' = ValueOK(k, v)
  BY <1>1 DEF ValueOK, TablesStill
<1>4. \A l, u : IsFavorite(l, u)' = IsFavorite(l, u) /\ Seen(l, u)' = Seen(l, u)
  BY <1>1 DEF TablesStill, IsFavorite, Seen, Rows
<1>5. Rows(views)' = Rows(views) /\ \A l : Viewings(l)' = Viewings(l)
  BY DEF TablesStill, Rows, Viewings
<1>6. \A u, p : IsSubscribed(u, p)' = IsSubscribed(u, p)
  BY DEF TablesStill, IsSubscribed
<1>7. QED
  BY <1>1, <1>2, <1>3, <1>4, <1>5, <1>6

LEMMA TablesRest ==
  ASSUME Inv, TablesStill, NEW r \in Requests, Elsewhere(r), contended \subseteq contended',
         \A l \in Posted : Needs(req[r].todo, <<"ahead", l, Nobody>>) =>
                             l \in contended' \/ Needs(req'[r].todo, <<"ahead", l, Nobody>>)
  PROVE  Growth /\ TablesOK' /\ InterestInOthers' /\ OneSubscription' /\ Balanced' /\ Novel'
<1>0. TablesOK /\ InterestInOthers /\ OneSubscription /\ Balanced /\ Novel
  BY DEF Inv, Fresh
<1>1. Posted' = Posted /\ Existing' = Existing
  BY TablesSame
<1>2. Growth
  BY <1>0, NoGrowth DEF TablesStill
<1>3. TablesOK'
  BY <1>0, <1>1 DEF TablesOK, TablesStill
<1>5. InterestInOthers'
  BY <1>0, <1>1 DEF InterestInOthers, TablesStill, Rows, Owner
<1>6. OneSubscription'
  BY <1>0, <1>1 DEF OneSubscription, TablesStill
<1>8. Balanced'
  <2>1. ASSUME NEW l \in Posted
        PROVE  \/ l \in contended'
               \/ \E s \in Requests : Needs(req'[s].todo, <<"ahead", l, Nobody>>)
               \/ listing[l].views = Cardinality(Viewings(l))
    <3>1. ASSUME NEW s \in Requests, Needs(req[s].todo, <<"ahead", l, Nobody>>)
          PROVE  l \in contended' \/ Needs(req'[s].todo, <<"ahead", l, Nobody>>)
      BY <2>1, <3>1 DEF Elsewhere
    <3>2. QED
      BY <1>0, <2>1, <3>1 DEF Balanced
  <2>2. QED
    BY <1>1, <2>1 DEF Balanced, TablesStill, Viewings, Needs, Uses, Gives
<1>9. Novel'
  BY <1>0, <1>1 DEF Novel, TablesStill, Viewings
<1>10. QED
  BY <1>2, <1>3, <1>5, <1>6, <1>8, <1>9

\* A key that holds what it held, or what is current, is fresh, unless who was about to drop it does not do so.
LEMMA FreshKeys ==
  ASSUME Inv, TablesStill, NEW r \in Requests, Elsewhere(r), contended \subseteq contended',
         \A k \in Copied : k \in DOMAIN cache' =>
           \/ Contended(k) \/ cache'[k] = Current(k)
           \/ k \in DOMAIN cache /\ cache'[k] = cache[k] /\ (Drops(r, k) => Drops(r, k)')
  PROVE  CacheFresh'
<1>0. CacheFresh /\ TablesOK
  BY DEF Inv, Fresh
<1>1. Growth /\ \A k : Current(k)' = Current(k)
  BY <1>0, NoGrowth, TablesSame DEF TablesStill
<1>2. ASSUME NEW k \in Copied, k \in DOMAIN cache'
      PROVE  Contended(k)' \/ cache'[k] = Current(k) \/ \E s \in Requests : Drops(s, k)'
  <2>1. CASE Contended(k)
    BY <1>1, <2>1, ContendedStays
  <2>2. CASE k \in DOMAIN cache /\ cache'[k] = cache[k] /\ (Drops(r, k) => Drops(r, k)')
    <3>1. ASSUME NEW s \in Requests, Drops(s, k) PROVE Drops(s, k)'
      <4>1. CASE s = r
        BY <2>2, <3>1, <4>1
      <4>2. CASE s # r
        BY <3>1, <4>2 DEF Drops, Elsewhere
      <4>3. QED
        BY <4>1, <4>2
    <3>2. QED
      BY <1>0, <1>2, <2>1, <2>2, <3>1 DEF CacheFresh
  <2>3. QED
    BY <1>2, <2>1, <2>2
<1>3. Copied' = Copied
  BY DEF Copied, ListingKey, UserPage, PlanKey, PlansKey
<1>4. QED
  BY <1>1, <1>2, <1>3 DEF CacheFresh

LEMMA StillRest ==
  ASSUME Inv, Still, NEW r \in Requests, Elsewhere(r), Shaped', contended \subseteq contended',
         \A k \in Copied : k \in DOMAIN cache /\ Drops(r, k) => Drops(r, k)',
         \A l \in Posted : Needs(req[r].todo, <<"ahead", l, Nobody>>) =>
                             l \in contended' \/ Needs(req'[r].todo, <<"ahead", l, Nobody>>)
  PROVE  Inv'
<1>1. TablesStill /\ cache' = cache
  BY DEF Still, TablesStill
<1>2. Growth /\ TablesOK' /\ InterestInOthers' /\ OneSubscription' /\ Balanced' /\ Novel'
  BY <1>1, TablesRest
<1>3. CacheFresh'
  BY <1>1, FreshKeys
<1>4. Cached'
  <2>1. \A k, v : ValueOK(k, v)' = ValueOK(k, v)
    BY <1>1, TablesSame
  <2>2. Copied' = Copied
    BY DEF Copied, ListingKey, UserPage, PlanKey, PlansKey
  <2>3. QED
    BY <1>1, <2>1, <2>2 DEF Inv, Cached
<1>5. QED
  BY <1>2, <1>3, <1>4 DEF Inv, Fresh

\* A step that drops no key and inserts no view leaves no duty.
LEMMA StillInv ==
  ASSUME Inv, Still, NEW r \in Requests, req[r].todo # <<>>, NEW h, h = req[r].todo[1],
         h[1] \notin Dropping \cup {"insertView"}, Elsewhere(r), Shaped', contended \subseteq contended'
  PROVE  Inv'
<1>1. Fit(req[r].todo, req[r].about) /\ Program(req[r].todo)
  BY DEF Inv, Shaped, Fit
<1>2. h \in Steps(req[r].todo) /\ 1 \in DOMAIN req[r].todo
  BY <1>1, ProgramTail
<1>3. \A k : ~Drops(r, k)
  <2>1. ASSUME NEW i \in DOMAIN req[r].todo PROVE 1 \in 1..i
    BY <1>1 DEF Program
  <2>2. QED
    BY <2>1 DEF Drops
<1>4. \A l : ~Needs(req[r].todo, <<"ahead", l, Nobody>>)
  BY <1>1, <1>2, AheadHead DEF Dropping
<1>5. QED
  BY <1>3, <1>4, StillRest

LEMMA Arguments ==
  ASSUME NEW r, NEW h, h = req[r].todo[1]
  PROVE  /\ Arg(r, 1) = h[2] /\ Arg(r, 2) = h[3] /\ Arg(r, 3) = h[4]
         /\ \A label : At(r, label) => h[1] = label /\ req[r].todo # <<>>
BY DEF Arg, At

\* What is kept of what was read.
LEMMA WithIs ==
  ASSUME NEW f, NEW k, NEW v
  PROVE  /\ k \in DOMAIN With(f, k, v) /\ With(f, k, v)[k] = v
         /\ \A x \in DOMAIN f : x # k => x \in DOMAIN With(f, k, v) /\ With(f, k, v)[x] = f[x]
         /\ \A x \in DOMAIN With(f, k, v) : x # k => x \in DOMAIN f
         /\ \A x : x \in DOMAIN With(f, k, v) <=> x \in DOMAIN f \/ x = k
BY DEF With

LEMMA WithoutIs ==
  ASSUME NEW f, NEW S
  PROVE  \A x : x \in DOMAIN Without(f, S) <=> x \in DOMAIN f /\ x \notin S
BY DEF Without

LEMMA WithoutKeeps ==
  ASSUME NEW f, NEW S, NEW x \in DOMAIN f, x \notin S
  PROVE  Without(f, S)[x] = f[x]
BY DEF Without

LEMMA NoGifts ==
  ASSUME NEW h, h[1] \notin {"select", "search", "favorite", "visible", "notViewed", "countView", "delete", "scan",
                             "unlink", "periods", "isLandlord", "notSubscribed", "mayFavor", "findFavorite"}
  PROVE  \A k : ~Gives(h, k)
BY DEF Gives

-----------------------------------------------------------------------------
(* Steps that read and check *)

LEMMA StillMinding == ASSUME Still, NEW r PROVE Minding(r)
BY StillSteady DEF Minding

LEMMA StillGrowth == ASSUME Inv, Still PROVE Growth
BY NoGrowth DEF Inv, Still

LEMMA StillTells ==
  ASSUME Inv, Still, NEW k \in Facts, NEW got, NEW A, Tells(got, A, k)
  PROVE  Tells(got, A, k)'
<1>1. Growth /\ Steady(k)
  BY StillGrowth, StillSteady
<1>2. QED
  BY <1>1, TellsStays

\* What was read before is kept, but for what is read now; and what the step h establishes of the facts that
\* the program q relies on is true.
Kept(old, got, kind) == \A x \in DOMAIN old : x # kind => x \in DOMAIN got /\ got[x] = old[x]
Learned(h, q, got, A) ==
  \A k \in Facts : Gives(h, k) /\ Needs(q, k) => (k \in Soft /\ k[2] \in contended) \/ Tells(got, A, k)
Relearned(h, q, kind) == \A k \in Facts : Needs(q, k) /\ GotFor(k) = kind => Gives(h, k)

\* The step reads something: what is known of it is what it says, and the rest stays.
LEMMA QuietPass ==
  ASSUME Inv, Still, NEW r \in Requests, req[r].todo # <<>>, NEW h, h = req[r].todo[1],
         h[1] \notin Dropping \cup {"insertView"}, NEW got, NEW kind, NEW A, A = req[r].about,
         Goes(r, Tail(req[r].todo), got), Kept(req[r].got, got, kind),
         Learned(h, Tail(req[r].todo), got, A), Relearned(h, Tail(req[r].todo), kind)
  PROVE  Inv'
<1>1. Shaped /\ Growth /\ Minding(r)
  BY StillGrowth, StillMinding DEF Inv
<1>2. ASSUME NEW k \in Facts, Gives(h, k), Needs(Tail(req[r].todo), k)
      PROVE  (k \in Soft /\ k[2] \in contended) \/ Tells(got, A, k)'
  BY <1>2, StillTells DEF Learned
<1>3. ASSUME NEW k \in Facts, ~Gives(h, k), Needs(Tail(req[r].todo), k)
      PROVE  /\ k \in Soft => Steady(k)
             /\ GotFor(k) \in DOMAIN req[r].got =>
                  GotFor(k) \in DOMAIN got /\ got[GotFor(k)] = req[r].got[GotFor(k)]
  BY <1>3, StillSteady DEF Kept, Relearned
<1>4. /\ Shaped' /\ Elsewhere(r) /\ req'[r].todo = Tail(req[r].todo)
      /\ UNCHANGED <<mix, calls, faults, contended>>
  BY <1>1, <1>2, <1>3, PassShaped
<1>5. QED
  BY <1>4, StillInv

LEMMA QuietContinue ==
  ASSUME Inv, Still, NEW r \in Requests, req[r].todo # <<>>, NEW h, h = req[r].todo[1],
         h[1] \notin Dropping \cup {"insertView"}, Continue(r),
         \A k \in Facts : Gives(h, k) => Known(r, k)
  PROVE  Inv'
<1>1. PICK got, A : got = req[r].got /\ A = req[r].about
  OBVIOUS
<1>2. PICK kind : kind = "nothing"
  OBVIOUS
<1>3. Goes(r, Tail(req[r].todo), got)
  BY <1>1 DEF Continue
<1>4. \A k \in Facts : GotFor(k) # kind
  <2>1. ASSUME NEW k \in Facts PROVE GotFor(k) # kind
    <3>1. Copying(k) => k[3] \in Copied
      BY SoftKinds, HardKinds DEF Copying, Facts
    <3>2. k[1] # "nothing" /\ \A f \in Copied : f[1] # "nothing"
      BY CopiedKinds, SoftKinds, HardKinds DEF Facts
    <3>3. QED
      BY <1>2, <3>1, <3>2 DEF GotFor
  <2>2. QED
    BY <2>1
<1>5. /\ Learned(h, Tail(req[r].todo), got, A) /\ Relearned(h, Tail(req[r].todo), kind)
      /\ Kept(req[r].got, got, kind)
  BY <1>1, <1>4 DEF Known, Learned, Relearned, Kept
<1>6. QED
  BY <1>1, <1>3, <1>5, QuietPass

LEMMA QuietThrow ==
  ASSUME Inv, Still, NEW r \in Requests, req[r].todo # <<>>, NEW h, h = req[r].todo[1],
         h[1] \notin Dropping \cup {"insertView"}, Throw(r)
  PROVE  Inv'
<1>1. Shaped /\ Growth /\ Minding(r)
  BY StillGrowth, StillMinding DEF Inv
<1>2. /\ Shaped' /\ Elsewhere(r) /\ req'[r].todo = <<>>
      /\ UNCHANGED <<mix, calls, faults, contended>>
  BY <1>1, ThrowShaped
<1>3. QED
  BY <1>2, StillInv

LEMMA QuietRequire ==
  ASSUME Inv, Still, NEW r \in Requests, req[r].todo # <<>>, NEW h, h = req[r].todo[1],
         h[1] \notin Dropping \cup {"insertView"}, NEW ok, Require(r, ok),
         ok => \A k \in Facts : Gives(h, k) => Known(r, k)
  PROVE  Inv'
<1>1. CASE ok
  <2>1. Continue(r)
    BY <1>1 DEF Require
  <2>2. QED
    BY <1>1, <2>1, QuietContinue
<1>2. CASE ~ok
  <2>1. Throw(r)
    BY <1>2 DEF Require
  <2>2. QED
    BY <2>1, QuietThrow
<1>3. QED
  BY <1>1, <1>2

\* Checks that establish nothing.
LEMMA ChecksInv ==
  ASSUME Inv, Still, NEW r \in Requests, NEW label, At(r, label),
         label \in {"owns", "geocode", "show", "notFavorite", "isRecipient", "newName", "planExists", "mayCancel"},
         Continue(r) \/ Throw(r)
  PROVE  Inv'
<1>1. PICK h : h = req[r].todo[1]
  OBVIOUS
<1>2. req[r].todo # <<>> /\ h[1] = label
  BY <1>1, Arguments
<1>3. \A k : ~Gives(h, k)
  BY <1>2, NoGifts
<1>4. h[1] \notin Dropping \cup {"insertView"}
  BY <1>2 DEF Dropping
<1>5. CASE Continue(r)
  BY <1>1, <1>2, <1>3, <1>4, <1>5, QuietContinue
<1>6. CASE Throw(r)
  BY <1>1, <1>2, <1>4, <1>6, QuietThrow
<1>7. QED
  BY <1>5, <1>6

LEMMA PlainChecksInv ==
  ASSUME Inv, Still, NEW r \in Requests,
         Owns(r) \/ Geocode(r) \/ Show(r) \/ NotFavorite(r) \/ IsRecipient(r) \/ NewName(r) \/ PlanExists(r)
           \/ MayCancel(r)
  PROVE  Inv'
<1>1. \E label \in {"owns", "geocode", "show", "notFavorite", "isRecipient", "newName", "planExists", "mayCancel"} :
        At(r, label) /\ (Continue(r) \/ Throw(r))
  BY DEF Owns, Geocode, Show, NotFavorite, IsRecipient, NewName, PlanExists, MayCancel, Require
<1>2. QED
  BY <1>1, ChecksInv

-----------------------------------------------------------------------------
(* Checks that establish a fact *)

LEMMA PeriodsInv == ASSUME Inv, Still, NEW r \in Requests, Periods(r) PROVE Inv'
<1>1. PICK h : h = req[r].todo[1]
  OBVIOUS
<1>2. /\ req[r].todo # <<>> /\ h[1] = "periods" /\ Require(r, OnePricePerPeriod(h[2]))
  BY <1>1, Arguments DEF Periods
<1>3. ASSUME OnePricePerPeriod(h[2]), NEW k \in Facts, Gives(h, k) PROVE Known(r, k)
  <2>1. k[1] = "periods" /\ k[2] = h[2]
    BY <1>2, <1>3 DEF Gives
  <2>2. QED
    BY <1>3, <2>1 DEF Known, Tells
<1>4. h[1] \notin Dropping \cup {"insertView"}
  BY <1>2 DEF Dropping
<1>5. QED
  BY <1>1, <1>2, <1>3, <1>4, QuietRequire

LEMMA MayFavorInv == ASSUME Inv, Still, NEW r \in Requests, MayFavor(r) PROVE Inv'
<1>1. PICK h : h = req[r].todo[1]
  OBVIOUS
<1>2. PICK ok : ok = (h[2] \in Posted /\ listing[h[2]].owner # h[3] /\ listing[h[2]].status = "ACTIVE")
  OBVIOUS
<1>3. /\ req[r].todo # <<>> /\ h[1] = "mayFavor" /\ Require(r, ok)
  BY <1>1, <1>2, Arguments DEF MayFavor
<1>4. ASSUME ok, NEW k \in Facts, Gives(h, k) PROVE Known(r, k)
  <2>1. k[1] = "notOwner" /\ k[2] = h[2] /\ k[3] = h[3]
    BY <1>3, <1>4 DEF Gives
  <2>2. QED
    BY <1>2, <1>4, <2>1 DEF Known, Tells
<1>5. h[1] \notin Dropping \cup {"insertView"}
  BY <1>3 DEF Dropping
<1>6. QED
  BY <1>1, <1>3, <1>4, <1>5, QuietRequire

LEMMA IsLandlordInv == ASSUME Inv, Still, NEW r \in Requests, IsLandlord(r) PROVE Inv'
<1>1. PICK h : h = req[r].todo[1]
  OBVIOUS
<1>2. PICK ok : ok = (h[2] \in Landlords)
  OBVIOUS
<1>3. /\ req[r].todo # <<>> /\ h[1] = "isLandlord" /\ Require(r, ok)
  BY <1>1, <1>2, Arguments DEF IsLandlord
<1>4. ASSUME ok, NEW k \in Facts, Gives(h, k) PROVE Known(r, k)
  <2>1. k[1] = "landlord" /\ k[2] = h[2]
    BY <1>3, <1>4 DEF Gives
  <2>2. QED
    BY <1>2, <1>4, <2>1 DEF Known, Tells
<1>5. h[1] \notin Dropping \cup {"insertView"}
  BY <1>3 DEF Dropping
<1>6. QED
  BY <1>1, <1>3, <1>4, <1>5, QuietRequire

LEMMA NotSubscribedInv == ASSUME Inv, Still, NEW r \in Requests, NotSubscribed(r) PROVE Inv'
<1>1. PICK h : h = req[r].todo[1]
  OBVIOUS
<1>2. /\ req[r].todo # <<>> /\ h[1] = "notSubscribed" /\ Require(r, ~IsSubscribed(h[2], h[3]))
  BY <1>1, Arguments DEF NotSubscribed
<1>3. ASSUME ~IsSubscribed(h[2], h[3]), NEW k \in Facts, Gives(h, k) PROVE Known(r, k)
  <2>1. k[1] = "alone" /\ k[2] = h[2] /\ k[3] = h[3]
    BY <1>2, <1>3 DEF Gives
  <2>2. QED
    BY <1>3, <2>1 DEF Known, Tells
<1>4. h[1] \notin Dropping \cup {"insertView"}
  BY <1>2 DEF Dropping
<1>5. QED
  BY <1>1, <1>2, <1>3, <1>4, QuietRequire

LEMMA NotViewedInv == ASSUME Inv, Still, NEW r \in Requests, NotViewed(r) PROVE Inv'
<1>1. PICK h : h = req[r].todo[1]
  OBVIOUS
<1>2. /\ req[r].todo # <<>> /\ h[1] = "notViewed" /\ Require(r, <<h[2], h[3]>> \notin Rows(views))
  BY <1>1, Arguments DEF NotViewed
<1>3. ASSUME <<h[2], h[3]>> \notin Rows(views), NEW k \in Facts, Gives(h, k) PROVE Known(r, k)
  <2>1. k[1] = "novel" /\ k[2] = h[2] /\ k[3] = h[3]
    BY <1>2, <1>3 DEF Gives
  <2>2. QED
    BY <1>3, <2>1 DEF Known, Tells
<1>4. h[1] \notin Dropping \cup {"insertView"}
  BY <1>2 DEF Dropping
<1>5. QED
  BY <1>1, <1>2, <1>3, <1>4, QuietRequire

\* validateListingAccess, on the copy that was read and the favorite that was found before.
LEMMA VisibleInv == ASSUME Inv, Still, NEW r \in Requests, Visible(r) PROVE Inv'
<1>1. PICK h : h = req[r].todo[1]
  OBVIOUS
<1>2. PICK l, u : l = h[2] /\ u = h[3]
  OBVIOUS
<1>3. /\ req[r].todo # <<>> /\ h[1] = "visible" /\ Require(r, MayRead(r)) /\ Arg(r, 2) = u
  BY <1>1, <1>2, Arguments DEF Visible
<1>4. StepOK(h) /\ \A k \in Facts : Uses(h, k) => Known(r, k)
  BY <1>1, <1>3, AtHand DEF Inv
<1>5. l \in Listings /\ u \in Users \cup {Nobody}
  BY <1>2, <1>3, <1>4 DEF StepOK, Listing
<1>6. /\ <<"copy", l, ListingKey(l)>> \in Facts /\ Uses(h, <<"copy", l, ListingKey(l)>>)
      /\ u # Nobody => <<"favorite", l, u>> \in Facts /\ Uses(h, <<"favorite", l, u>>)
  <2>1. ListingKey(l) \in Copied /\ Subject(ListingKey(l)) = l /\ RowOf(h) = ListingKey(l)
    BY <1>2, <1>3, <1>5, KeyCopied, SubjectIs DEF RowOf
  <2>2. <<"copy", l, ListingKey(l)>> \in Facts
    BY <2>1, CopyFact
  <2>3. Uses(h, <<"copy", l, ListingKey(l)>>)
    BY <1>2, <1>3, <2>1 DEF Uses
  <2>4. u # Nobody => <<"favorite", l, u>> \in Facts /\ Uses(h, <<"favorite", l, u>>)
    BY <1>2, <1>3, <1>5 DEF Uses, Facts, Soft
  <2>5. QED
    BY <2>2, <2>3, <2>4
<1>7. ASSUME MayRead(r), l \notin contended PROVE Seen(l, u)
  <2>1. Known(r, <<"copy", l, ListingKey(l)>>) /\ (u # Nobody => Known(r, <<"favorite", l, u>>))
    BY <1>4, <1>6
  <2>2. req[r].got["listing"] = listing[l] /\ l \in Posted
    BY <1>7, <2>1, KeyIs DEF Known, Tells, Current, Present
  <2>3. u # Nobody => req[r].got["favorite"] = IsFavorite(l, u)
    BY <1>7, <2>1 DEF Known, Tells
  <2>4. QED
    BY <1>3, <1>7, <2>2, <2>3 DEF MayRead, Got, Seen
<1>8. ASSUME MayRead(r), NEW k \in Facts, Gives(h, k) PROVE Known(r, k)
  <2>1. k = <<"seen", l, u>>
    BY <1>2, <1>3, <1>8 DEF Gives
  <2>2. k \in Soft
    BY <1>5, <2>1 DEF Soft
  <2>3. QED
    BY <1>7, <1>8, <2>1, <2>2 DEF Known, Tells
<1>9. h[1] \notin Dropping \cup {"insertView"}
  BY <1>3 DEF Dropping
<1>10. QED
  BY <1>1, <1>3, <1>8, <1>9, QuietRequire

-----------------------------------------------------------------------------
(* Reads *)

LEMMA CopyingIs ==
  ASSUME NEW f \in Facts, Copying(f)
  PROVE  /\ f[3] \in Copied
         /\ f = <<"copy", Subject(f[3]), f[3]>> \/ f = <<"typed", Subject(f[3]), f[3]>>
<1>1. CASE f \in Soft
  <2>1. f[1] = "copy"
    BY <1>1, SoftKinds DEF Copying
  <2>2. f \in {<<"copy", Subject(k), k>> : k \in Copied}
    BY <1>1, <2>1 DEF Soft
  <2>3. QED
    BY <2>2
<1>2. CASE f \in Hard
  <2>1. f[1] = "typed"
    BY <1>2, HardKinds DEF Copying
  <2>2. f \in {<<"typed", Subject(k), k>> : k \in Copied}
    BY <1>2, <2>1 DEF Hard
  <2>3. QED
    BY <2>2
<1>3. QED
  BY <1>1, <1>2 DEF Facts

\* What a fact is about was read under a key, as a favorite, or as a row.
KeyKinds == {"listing", "user:listings", "plan", "plans", "listings", "page"}

LEMMA GotKinds ==
  ASSUME NEW f \in Facts
  PROVE  \/ Copying(f) /\ GotFor(f) = f[3][1] /\ f[3] \in Copied /\ GotFor(f) \in KeyKinds
         \/ ~Copying(f) /\ GotFor(f) = f[1] /\ f[1] \notin KeyKinds
<1>1. Copying(f) => f[3] \in Copied
  BY CopyingIs
<1>2. f[1] \notin KeyKinds
  BY SoftKinds, HardKinds DEF Facts, KeyKinds
<1>3. QED
  BY <1>1, <1>2, CopiedKinds DEF GotFor, KeyKinds

\* What the rest relies on, of what a read reads, the read establishes.
LEMMA ReadGives ==
  ASSUME NEW h, NEW q, \A y \in Steps(q) : Ordered(h, y), h[1] \in {"get", "select", "search"},
         h[2][1] \in KeyKinds, NEW f \in Facts, Needs(q, f), GotFor(f) = h[2][1]
  PROVE  /\ h[2] \in Copied
         /\ f \in {<<"copy", Subject(h[2]), h[2]>>, <<"typed", Subject(h[2]), h[2]>>}
<1>1. Copying(f) /\ f[3] \in Copied /\ f[3][1] = h[2][1]
  BY GotKinds
<1>2. PICK y \in Steps(q) : Uses(y, f)
  BY DEF Needs
<1>3. f[3] = h[2]
  BY <1>1, <1>2 DEF Ordered
<1>4. QED
  BY <1>1, <1>3, CopyingIs

LEMMA ReadCopy ==
  ASSUME Inv, Still, NEW r \in Requests, req[r].todo # <<>>, NEW h, h = req[r].todo[1],
         h[1] \in {"select", "search"}, NEW k \in Copied, k = h[2], NEW v, v = Current(k), Present(k),
         ValueOK(k, v), Read(r, k[1], v)
  PROVE  Inv'
<1>1. PICK got, A, kind : got = With(req[r].got, k[1], v) /\ A = req[r].about /\ kind = k[1]
  OBVIOUS
<1>2. Goes(r, Tail(req[r].todo), got)
  BY <1>1 DEF Read
<1>3. /\ kind \in DOMAIN got /\ got[kind] = v
      /\ Kept(req[r].got, got, kind)
  <2>1. PICK old : old = req[r].got
    OBVIOUS
  <2>2. got = With(old, kind, v)
    BY <1>1, <2>1
  <2>3. /\ kind \in DOMAIN got /\ got[kind] = v
        /\ Kept(old, got, kind)
    BY <2>2, WithIs DEF Kept
  <2>4. QED
    BY <2>1, <2>3
<1>4. \A y \in Steps(Tail(req[r].todo)) : Ordered(h, y)
  BY AtHand DEF Inv
<1>5. ASSUME NEW f \in Facts, Gives(h, f) PROVE Tells(got, A, f)
  <2>1. f \in {<<"copy", Subject(k), k>>, <<"typed", Subject(k), k>>}
    BY <1>5 DEF Gives
  <2>2. CASE f = <<"copy", Subject(k), k>>
    <3>1. f[1] = "copy" /\ f[3] = k
      BY <2>2
    <3>2. QED
      BY <1>1, <1>3, <3>1 DEF Tells
  <2>3. CASE f = <<"typed", Subject(k), k>>
    <3>1. f[1] = "typed" /\ f[3] = k
      BY <2>3
    <3>2. QED
      BY <1>1, <1>3, <3>1 DEF Tells
  <2>4. QED
    BY <2>1, <2>2, <2>3
<1>6. ASSUME NEW f \in Facts, Needs(Tail(req[r].todo), f), GotFor(f) = kind PROVE Gives(h, f)
  <2>1. h[2][1] \in KeyKinds
    BY CopiedKinds DEF KeyKinds
  <2>2. f \in {<<"copy", Subject(h[2]), h[2]>>, <<"typed", Subject(h[2]), h[2]>>}
    BY <1>1, <1>4, <1>6, <2>1, ReadGives
  <2>3. QED
    BY <2>2 DEF Gives
<1>7. h[1] \notin Dropping \cup {"insertView"}
  BY DEF Dropping
<1>8. /\ Learned(h, Tail(req[r].todo), got, A) /\ Relearned(h, Tail(req[r].todo), kind)
  BY <1>5, <1>6 DEF Learned, Relearned
<1>9. QED
  BY <1>1, <1>2, <1>3, <1>7, <1>8, QuietPass

LEMMA SelectListingInv == ASSUME Inv, Still, NEW r \in Requests, SelectListing(r) PROVE Inv'
<1>1. PICK h : h = req[r].todo[1]
  OBVIOUS
<1>2. PICK k : k = h[2]
  OBVIOUS
<1>3. /\ req[r].todo # <<>> /\ h[1] = "select" /\ k[1] = "listing"
      /\ IF k[2] \in Posted THEN Read(r, "listing", listing[k[2]]) ELSE Throw(r)
  BY <1>1, <1>2, Arguments DEF SelectListing
<1>4. StepOK(h)
  BY <1>1, <1>3, AtHand DEF Inv
<1>5. k \in Copied
  BY <1>2, <1>3, <1>4 DEF StepOK
<1>6. CASE k[2] \in Posted
  <2>1. PICK v : v = listing[k[2]]
    OBVIOUS
  <2>2. v = Current(k) /\ Present(k)
    BY <1>3, <1>6, <2>1 DEF Current, Present
  <2>3. ValueOK(k, v)
    BY <1>3, <1>6, <2>1 DEF Inv, TablesOK, ValueOK
  <2>4. Read(r, k[1], v)
    BY <1>3, <1>6, <2>1
  <2>5. QED
    BY <1>1, <1>2, <1>3, <1>5, <2>2, <2>3, <2>4, ReadCopy
<1>7. CASE k[2] \notin Posted
  <2>1. h[1] \notin Dropping \cup {"insertView"} /\ Throw(r)
    BY <1>3, <1>7 DEF Dropping
  <2>2. QED
    BY <1>1, <1>3, <2>1, QuietThrow
<1>8. QED
  BY <1>6, <1>7

LEMMA SelectPlanInv == ASSUME Inv, Still, NEW r \in Requests, SelectPlan(r) PROVE Inv'
<1>1. PICK h : h = req[r].todo[1]
  OBVIOUS
<1>2. PICK k : k = h[2]
  OBVIOUS
<1>3. /\ req[r].todo # <<>> /\ h[1] = "select" /\ k[1] = "plan"
      /\ IF k[2] \in Existing THEN Read(r, "plan", plan[k[2]]) ELSE Throw(r)
  BY <1>1, <1>2, Arguments DEF SelectPlan
<1>4. StepOK(h)
  BY <1>1, <1>3, AtHand DEF Inv
<1>5. k \in Copied
  BY <1>2, <1>3, <1>4 DEF StepOK
<1>6. CASE k[2] \in Existing
  <2>1. PICK v : v = plan[k[2]]
    OBVIOUS
  <2>2. v = Current(k) /\ Present(k)
    BY <1>3, <1>6, <2>1 DEF Current, Present
  <2>3. ValueOK(k, v)
    BY <1>3, <1>6, <2>1 DEF Inv, TablesOK, ValueOK, Existing
  <2>4. Read(r, k[1], v)
    BY <1>3, <1>6, <2>1
  <2>5. QED
    BY <1>1, <1>2, <1>3, <1>5, <2>2, <2>3, <2>4, ReadCopy
<1>7. CASE k[2] \notin Existing
  <2>1. h[1] \notin Dropping \cup {"insertView"} /\ Throw(r)
    BY <1>3, <1>7 DEF Dropping
  <2>2. QED
    BY <1>1, <1>3, <2>1, QuietThrow
<1>8. QED
  BY <1>6, <1>7

LEMMA SelectPlansInv == ASSUME Inv, Still, NEW r \in Requests, SelectPlans(r) PROVE Inv'
<1>1. PICK h : h = req[r].todo[1]
  OBVIOUS
<1>2. PICK k : k = h[2]
  OBVIOUS
<1>3. PICK v : v = ActivePlans
  OBVIOUS
<1>4. /\ req[r].todo # <<>> /\ h[1] = "select" /\ k[1] = "plans" /\ Read(r, "plans", v)
  BY <1>1, <1>2, <1>3, Arguments DEF SelectPlans
<1>5. StepOK(h)
  BY <1>1, <1>4, AtHand DEF Inv
<1>6. k \in Copied
  BY <1>2, <1>4, <1>5 DEF StepOK
<1>7. v = Current(k) /\ Present(k) /\ ValueOK(k, v)
  BY <1>3, <1>4 DEF Current, Present, ValueOK
<1>8. QED
  BY <1>1, <1>2, <1>4, <1>6, <1>7, ReadCopy

\* What two queries with the same fields find is the same.
LEMMA SameSearch ==
  ASSUME NEW d, NEW e, NEW u, \A f \in SearchFields : d[f] = e[f]
  PROVE  Search(d, u) = Search(e, u)
<1>1. /\ d.period = e.period /\ d.minPrice = e.minPrice /\ d.maxPrice = e.maxPrice
      /\ d.types = e.types /\ d.around = e.around /\ d.amenities = e.amenities /\ d.title = e.title
      /\ d.status = e.status
  BY DEF SearchFields
<1>2. \A row : MatchingPrices(row, d) = MatchingPrices(row, e)
  BY <1>1 DEF MatchingPrices
<1>3. \A row : Matches(row, d) <=> Matches(row, e)
  BY <1>1, <1>2 DEF Matches
<1>4. QED
  BY <1>1, <1>2, <1>3 DEF Search

LEMMA ActiveFields ==
  /\ ActiveListings["status"] = "ACTIVE"
  /\ \A f \in SearchFields \ {"status"} : ActiveListings[f] = Anything
BY DEF ActiveListings, AnyListing, SearchFields

LEMMA SearchListingsInv == ASSUME Inv, Still, NEW r \in Requests, SearchListings(r) PROVE Inv'
<1>1. PICK h : h = req[r].todo[1]
  OBVIOUS
<1>2. PICK k : k = h[2]
  OBVIOUS
<1>3. PICK v : v = Search(h[3], h[4])
  OBVIOUS
<1>4. /\ req[r].todo # <<>> /\ h[1] = "search" /\ Read(r, k[1], v)
  BY <1>1, <1>2, <1>3, Arguments DEF SearchListings
<1>5. StepOK(h) /\ \A y \in Steps(Tail(req[r].todo)) : Ordered(h, y)
  BY <1>1, <1>4, AtHand DEF Inv
<1>6. CASE k[1] \in {"listings", "page"}
  <2>1. k \notin Copied
    BY <1>6, CopiedKinds
  <2>2. \A f : ~Gives(h, f)
    BY <1>2, <1>4, <2>1 DEF Gives
  <2>3. \A f \in Facts : Needs(Tail(req[r].todo), f) => GotFor(f) # k[1]
    <3>1. h[2][1] \in KeyKinds
      BY <1>2, <1>6 DEF KeyKinds
    <3>2. QED
      BY <1>2, <1>4, <1>5, <2>1, <3>1, ReadGives
  <2>4. PICK got, A, kind : got = With(req[r].got, k[1], v) /\ A = req[r].about /\ kind = k[1]
    OBVIOUS
  <2>5. /\ Goes(r, Tail(req[r].todo), got)
        /\ Kept(req[r].got, got, kind)
    BY <1>4, <2>4, WithIs DEF Read, Kept
  <2>6. h[1] \notin Dropping \cup {"insertView"}
    BY <1>4 DEF Dropping
  <2>7. /\ Learned(h, Tail(req[r].todo), got, A) /\ Relearned(h, Tail(req[r].todo), kind)
    BY <2>2, <2>3, <2>4 DEF Learned, Relearned
  <2>8. QED
    BY <1>1, <1>4, <2>4, <2>5, <2>6, <2>7, QuietPass
<1>7. ASSUME NEW u \in Users, k = UserPage(u), h[4] = u, CanCacheUserActiveListings(u, h[3])
      PROVE  Inv'
  <2>1. k \in Copied /\ k[1] = "user:listings" /\ k[2] = u
    BY <1>7, KeyCopied, KeyIs
  <2>2. \A f \in SearchFields : h[3][f] = ActiveListings[f]
    BY <1>7, ActiveFields DEF CanCacheUserActiveListings, SearchFields
  <2>3. v = Search(ActiveListings, u)
    BY <1>3, <1>7, <2>2, SameSearch
  <2>4. v = Current(k) /\ Present(k) /\ ValueOK(k, v)
    BY <2>1, <2>3 DEF Current, Present, ValueOK
  <2>5. QED
    BY <1>1, <1>2, <1>4, <2>1, <2>4, ReadCopy
<1>8. QED
  BY <1>2, <1>4, <1>5, <1>6, <1>7 DEF StepOK

LEMMA ReadFavoriteInv == ASSUME Inv, Still, NEW r \in Requests, ReadFavorite(r) PROVE Inv'
<1>1. PICK h : h = req[r].todo[1]
  OBVIOUS
<1>2. PICK l, u, v : l = h[2] /\ u = h[3] /\ v = IsFavorite(h[2], h[3])
  OBVIOUS
<1>3. /\ req[r].todo # <<>> /\ h[1] = "favorite" /\ Read(r, "favorite", v)
  BY <1>1, <1>2, Arguments DEF ReadFavorite
<1>4. \A y \in Steps(Tail(req[r].todo)) : Ordered(h, y)
  BY <1>1, <1>3, AtHand DEF Inv
<1>5. PICK got, A, kind : got = With(req[r].got, "favorite", v) /\ A = req[r].about /\ kind = "favorite"
  OBVIOUS
<1>6. /\ Goes(r, Tail(req[r].todo), got) /\ "favorite" \in DOMAIN got /\ got["favorite"] = v
      /\ Kept(req[r].got, got, kind)
  BY <1>3, <1>5, WithIs DEF Read, Kept
<1>7. ASSUME NEW f \in Facts, Gives(h, f) PROVE Tells(got, A, f)
  <2>1. f[1] = "favorite" /\ f[2] = l /\ f[3] = u
    BY <1>2, <1>3, <1>7 DEF Gives
  <2>2. QED
    BY <1>2, <1>6, <2>1 DEF Tells
<1>8. ASSUME NEW f \in Facts, Needs(Tail(req[r].todo), f), GotFor(f) = kind PROVE Gives(h, f)
  <2>1. f[1] = "favorite" /\ ~Copying(f)
    BY <1>5, <1>8, GotKinds DEF Copying, KeyKinds
  <2>2. PICK y \in Steps(Tail(req[r].todo)) : Uses(y, f)
    BY <1>8 DEF Needs
  <2>3. y[1] = "visible" /\ f = <<"favorite", y[2], y[3]>>
    BY <2>1, <2>2 DEF Uses
  <2>4. y[2] = l /\ y[3] = u
    BY <1>2, <1>3, <1>4, <2>3 DEF Ordered
  <2>5. QED
    BY <1>2, <1>3, <2>3, <2>4 DEF Gives
<1>9. h[1] \notin Dropping \cup {"insertView"}
  BY <1>3 DEF Dropping
<1>10. /\ Learned(h, Tail(req[r].todo), got, A) /\ Relearned(h, Tail(req[r].todo), kind)
  BY <1>7, <1>8 DEF Learned, Relearned
<1>11. QED
  BY <1>1, <1>3, <1>5, <1>6, <1>9, <1>10, QuietPass

LEMMA FindFavoriteInv == ASSUME Inv, Still, NEW r \in Requests, FindFavorite(r) PROVE Inv'
<1>1. PICK h : h = req[r].todo[1]
  OBVIOUS
<1>2. PICK l, u : l = h[2] /\ u = h[3]
  OBVIOUS
<1>3. /\ req[r].todo # <<>> /\ h[1] = "findFavorite"
      /\ \/ Throw(r)
         \/ \E i \in DOMAIN favorites : favorites[i] = Favorite(l, u) /\ Read(r, "row", i)
  BY <1>1, <1>2, Arguments DEF FindFavorite
<1>4. h[1] \notin Dropping \cup {"insertView"}
  BY <1>3 DEF Dropping
<1>5. CASE Throw(r)
  BY <1>1, <1>3, <1>4, <1>5, QuietThrow
<1>6. ASSUME NEW i \in DOMAIN favorites, favorites[i] = Favorite(l, u), Read(r, "row", i)
      PROVE  Inv'
  <2>1. PICK got, A, kind : got = With(req[r].got, "row", i) /\ A = req[r].about /\ kind = "row"
    OBVIOUS
  <2>2. /\ Goes(r, Tail(req[r].todo), got) /\ "row" \in DOMAIN got /\ got["row"] = i
        /\ Kept(req[r].got, got, kind)
    BY <1>6, <2>1, WithIs DEF Read, Kept
  <2>3. l \in A
    <3>1. Minds(h, A)
      BY <1>1, <1>3, <2>1, AtHand DEF Inv
    <3>2. QED
      BY <1>2, <1>3, <3>1 DEF Minds
  <2>4. ASSUME NEW f \in Facts, Gives(h, f) PROVE Tells(got, A, f)
    <3>1. f[1] = "row"
      BY <1>3, <2>4 DEF Gives
    <3>2. favorites[i].listing = l
      BY <1>6 DEF Favorite
    <3>3. QED
      BY <1>6, <2>2, <2>3, <3>1, <3>2 DEF Tells
  <2>5. ASSUME NEW f \in Facts, Needs(Tail(req[r].todo), f), GotFor(f) = kind PROVE Gives(h, f)
    <3>1. f[1] = "row" /\ ~Copying(f)
      BY <2>1, <2>5, GotKinds DEF Copying, KeyKinds
    <3>2. PICK y \in Steps(Tail(req[r].todo)) : Uses(y, f)
      BY <2>5 DEF Needs
    <3>3. f = <<"row", Nobody, Nobody>>
      BY <3>1, <3>2 DEF Uses
    <3>4. QED
      BY <1>3, <3>3 DEF Gives
  <2>6. /\ Learned(h, Tail(req[r].todo), got, A) /\ Relearned(h, Tail(req[r].todo), kind)
    BY <2>4, <2>5 DEF Learned, Relearned
  <2>7. QED
    BY <1>1, <1>3, <1>4, <2>1, <2>2, <2>6, QuietPass
<1>7. QED
  BY <1>3, <1>5, <1>6

-----------------------------------------------------------------------------
(* Short programs *)

Linked == {"get", "savePlan", "insertPlan", "countView"}

LEMMA NotLinked ==
  ASSUME NEW q, \A x \in Steps(q) : x[1] \notin Linked
  PROVE  Adjacent(q)
BY DEF Linked, Adjacent, Steps

LEMMA NotCounting ==
  ASSUME NEW q, \A x \in Steps(q) : x[1] # "insertView"
  PROVE  Counting(q)
BY DEF Counting

LEMMA FitOf1 ==
  ASSUME NEW a, NEW A, StepOK(a), Minds(a, A), a[1] \notin Linked
  PROVE  Fit(<<a>>, A)
<1> DEFINE q == <<a>>
<1>1. Program(q) /\ Steps(q) = {a} /\ Len(q) = 1 /\ DOMAIN q = {1} /\ q[1] = a
  BY ProgramOf1
<1> HIDE DEF q
<1>2. Ends(q, Final)
  BY <1>1 DEF Ends
<1>3. InOrder(q)
  BY <1>1 DEF InOrder
<1>4. Adjacent(q)
  BY <1>1, NotLinked
<1>5. Counting(q)
  BY <1>1 DEF Counting, Linked
<1>6. QED
  BY <1>1, <1>2, <1>3, <1>4, <1>5 DEF Fit, q

LEMMA FitOf2 ==
  ASSUME NEW a, NEW b, NEW A, StepOK(a), Minds(a, A), StepOK(b), Minds(b, A), a[1] \notin Final, Ordered(a, b),
         Adjacent(<<a, b>>), Counting(<<a, b>>)
  PROVE  Fit(<<a, b>>, A)
<1> DEFINE q == <<a, b>>
<1>1. Program(q) /\ Steps(q) = {a, b} /\ Len(q) = 2 /\ DOMAIN q = 1..2 /\ q[1] = a /\ q[2] = b
  BY ProgramOf2
<1>2. Adjacent(q) /\ Counting(q)
  OBVIOUS
<1> HIDE DEF q
<1>3. Ends(q, Final)
  BY <1>1 DEF Ends
<1>4. InOrder(q)
  BY <1>1 DEF InOrder
<1>5. QED
  BY <1>1, <1>2, <1>3, <1>4 DEF Fit, q

LEMMA FitOf3 ==
  ASSUME NEW a, NEW b, NEW c, NEW A, StepOK(a), Minds(a, A), StepOK(b), Minds(b, A), StepOK(c), Minds(c, A),
         a[1] \notin Final, b[1] \notin Final, Ordered(a, b), Ordered(a, c), Ordered(b, c),
         Adjacent(<<a, b, c>>), Counting(<<a, b, c>>)
  PROVE  Fit(<<a, b, c>>, A)
<1> DEFINE q == <<a, b, c>>
<1>1. Program(q) /\ Steps(q) = {a, b, c} /\ Len(q) = 3 /\ DOMAIN q = 1..3 /\ q[1] = a /\ q[2] = b /\ q[3] = c
  BY ProgramOf3
<1>2. Adjacent(q) /\ Counting(q)
  OBVIOUS
<1> HIDE DEF q
<1>3. Ends(q, Final)
  BY <1>1 DEF Ends
<1>4. InOrder(q)
  <2>1. ASSUME NEW i \in DOMAIN q, NEW j \in DOMAIN q, i < j PROVE Ordered(q[i], q[j])
    <3>1. (i = 1 /\ j = 2) \/ (i = 1 /\ j = 3) \/ (i = 2 /\ j = 3)
      BY <1>1, <2>1
    <3>2. QED
      BY <1>1, <3>1
  <2>2. QED
    BY <2>1 DEF InOrder
<1>5. QED
  BY <1>1, <1>2, <1>3, <1>4 DEF Fit, q

LEMMA NoStepAfter == ASSUME NEW q, Program(q) PROVE q \o <<>> = q
BY ConcatEmptySeq DEF Program

-----------------------------------------------------------------------------
(* The request goes on with other steps *)

LEMMA QuietGoes ==
  ASSUME Inv, Still, NEW r \in Requests, req[r].todo # <<>>, NEW h, h = req[r].todo[1],
         h[1] \notin Dropping \cup {"insertView"}, NEW todo, NEW got, NEW A, A = req[r].about,
         Goes(r, todo, got), Fit(todo, A),
         \A k \in Facts : Needs(todo, k) => (k \in Soft /\ k[2] \in contended) \/ Tells(got, A, k)
  PROVE  Inv'
<1>1. Shaped /\ Growth /\ Minding(r)
  BY StillGrowth, StillMinding DEF Inv
<1>2. \A k \in Facts : Needs(todo, k) => (k \in Soft /\ k[2] \in contended) \/ Tells(got, A, k)'
  BY StillTells
<1>3. Shaped' /\ Elsewhere(r) /\ req'[r].todo = todo /\ UNCHANGED <<mix, calls, faults, contended>>
  BY <1>1, <1>2, GoesShaped
<1>4. QED
  BY <1>3, StillInv

LEMMA TailIs ==
  ASSUME NEW S, NEW q \in Seq(S), NEW n \in Nat, Len(q) = n + 1
  PROVE  Tail(q) \in Seq(S) /\ Len(Tail(q)) = n /\ \A i \in 1..n : Tail(q)[i] = q[i + 1]
OBVIOUS

\* A hit skips the callback and the set.
LEMMA HitRest ==
  ASSUME NEW q, Program(q), 3 \in DOMAIN q
  PROVE  /\ SubSeq(q, 4, Len(q)) = Tail(Tail(Tail(q)))
         /\ q # <<>> /\ Tail(q) # <<>> /\ Tail(Tail(q)) # <<>>
         /\ Tail(q)[1] = q[2] /\ Tail(Tail(q))[1] = q[3]
<1>1. /\ Len(q) \in Nat /\ DOMAIN q = 1..Len(q) /\ Len(q) >= 3 /\ q # <<>>
      /\ q \in Seq(Steps(q))
  BY DEF Program
<1>2. PICK p : p = Tail(q)
  OBVIOUS
<1>0. /\ Len(q) - 1 \in Nat /\ Len(q) - 2 \in Nat /\ Len(q) - 3 \in Nat
      /\ Len(q) = (Len(q) - 1) + 1 /\ Len(q) - 1 = (Len(q) - 2) + 1 /\ Len(q) - 2 = (Len(q) - 3) + 1
  BY <1>1
<1>3. p \in Seq(Steps(q)) /\ Len(p) = Len(q) - 1 /\ \A i \in 1..Len(q) - 1 : p[i] = q[i + 1]
  BY <1>0, <1>1, <1>2, TailIs
<1>4. PICK s : s = Tail(p)
  OBVIOUS
<1>5. s \in Seq(Steps(q)) /\ Len(s) = Len(q) - 2 /\ \A i \in 1..Len(q) - 2 : s[i] = p[i + 1]
  BY <1>0, <1>3, <1>4, TailIs
<1>6. PICK t : t = Tail(s)
  OBVIOUS
<1>7. t \in Seq(Steps(q)) /\ Len(t) = Len(q) - 3 /\ \A i \in 1..Len(q) - 3 : t[i] = s[i + 1]
  BY <1>0, <1>5, <1>6, TailIs
<1>8. PICK z : z = SubSeq(q, 4, Len(q))
  OBVIOUS
<1>9. z = [i \in 1..Len(q) - 3 |-> q[i + 3]]
  <2>1. \A i \in 1..Len(q) - 3 : 4 + i - 1 = i + 3
    BY <1>1
  <2>2. Len(q) - 4 + 1 = Len(q) - 3
    BY <1>1
  <2>3. SubSeq(q, 4, Len(q)) = [i \in 1..Len(q) - 3 |-> q[i + 3]]
    BY <1>1, <2>1, <2>2
  <2>4. QED
    BY <1>8, <2>3
<1>10. z = t
  <2>1. ASSUME NEW i \in 1..Len(q) - 3 PROVE t[i] = q[i + 3]
    <3>1. i + 1 \in 1..Len(q) - 2 /\ (i + 1) + 1 \in 1..Len(q) - 1 /\ ((i + 1) + 1) + 1 = i + 3
      BY <1>1
    <3>2. QED
      BY <1>3, <1>5, <1>7, <3>1
  <2>2. t = [i \in 1..Len(q) - 3 |-> t[i]]
    BY <1>7
  <2>3. QED
    BY <1>9, <2>1, <2>2
<1>11. p # <<>> /\ s # <<>> /\ p[1] = q[2] /\ s[1] = q[3]
  BY <1>1, <1>3, <1>5
<1>12. QED
  BY <1>1, <1>2, <1>4, <1>6, <1>8, <1>10, <1>11

\* Nobody is about to drop a key that a request in flight reads, unless their requests overlap.
LEMMA DropsMind ==
  ASSUME Shaped, NEW s \in Requests, NEW k \in Copied, Drops(s, k)
  PROVE  Subject(k) \in req[s].about /\ req[s].todo # <<>> /\ req[s].todo[1][1] \in Dropping
<1>1. PICK i \in DOMAIN req[s].todo :
        /\ \A j \in 1..i : req[s].todo[j][1] \in Dropping
        /\ IF req[s].todo[i][1] = "delete" THEN req[s].todo[i][2] = k ELSE k \in req[s].todo[i][2]
  BY DEF Drops
<1>2. PICK x : x = req[s].todo[i]
  OBVIOUS
<1>3. Fit(req[s].todo, req[s].about) /\ Program(req[s].todo)
  BY DEF Shaped, Fit
<1>4. Minds(x, req[s].about)
  BY <1>2, <1>3 DEF Fit, Steps
<1>5. i \in 1..i /\ 1 \in 1..i /\ req[s].todo # <<>>
  BY <1>3 DEF Program
<1>6. x[1] \in Dropping
  BY <1>1, <1>2, <1>5
<1>7. k[1] # "listings"
  BY CopiedKinds
<1>8. Subject(k) \in req[s].about
  BY <1>1, <1>2, <1>4, <1>6, <1>7 DEF Minds, Dropping
<1>9. QED
  BY <1>1, <1>5, <1>8

LEMMA CacheGetInv == ASSUME Inv, Still, NEW r \in Requests, CacheGet(r) PROVE Inv'
<1>1. PICK h : h = req[r].todo[1]
  OBVIOUS
<1>2. PICK k, v, q, A : k = h[2] /\ v = cache[h[2]] /\ q = req[r].todo /\ A = req[r].about
  OBVIOUS
<1>3. /\ req[r].todo # <<>> /\ h[1] = "get"
      /\ IF k \in DOMAIN cache THEN Goes(r, SubSeq(q, 4, Len(q)), With(req[r].got, k[1], v))
         ELSE Continue(r)
  BY <1>1, <1>2, Arguments DEF CacheGet
<1>4. h[1] \notin Dropping \cup {"insertView"}
  BY <1>3 DEF Dropping
<1>5. Shaped /\ Fit(q, A) /\ Program(q) /\ Adjacent(q)
  BY <1>2 DEF Inv, Shaped, Fit
<1>6. CASE k \notin DOMAIN cache
  <2>1. \A f : ~Gives(h, f)
    BY <1>3, NoGifts
  <2>2. Continue(r)
    BY <1>3, <1>6
  <2>3. QED
    BY <1>1, <1>3, <1>4, <2>1, <2>2, QuietContinue
<1>7. CASE k \in DOMAIN cache
  <2>1. /\ 3 \in DOMAIN q /\ q[1] = h /\ q[2][1] \in {"select", "search"} /\ q[2][2] = k
        /\ q[3] = <<"set", k>>
    <3>1. 1 \in DOMAIN q
      BY <1>2, <1>3, <1>5, ProgramTail
    <3>2. 1 + 2 \in DOMAIN q /\ q[1 + 1][1] \in {"select", "search"} /\ q[1 + 1][2] = k /\ q[1 + 2] = <<"set", k>>
      BY <1>1, <1>2, <1>3, <1>5, <3>1 DEF Adjacent
    <3>3. QED
      BY <1>1, <1>2, <3>2
  <2>2. PICK t1, t2, t3 : t1 = Tail(q) /\ t2 = Tail(t1) /\ t3 = Tail(t2)
    OBVIOUS
  <2>3. SubSeq(q, 4, Len(q)) = t3 /\ q # <<>> /\ t1 # <<>> /\ t2 # <<>> /\ t1[1] = q[2] /\ t2[1] = q[3]
    BY <1>5, <2>1, <2>2, HitRest
  <2>4. /\ Fit(t1, A) /\ StepOK(h) /\ Minds(h, A) /\ \A y \in Steps(t1) : Ordered(h, y)
    BY <1>5, <2>1, <2>2, <2>3, FitTail
  <2>5. Fit(t2, A) /\ Steps(t2) \subseteq Steps(t1)
    <3>1. Program(t1)
      BY <2>4 DEF Fit
    <3>2. Fit(t2, A)
      BY <2>2, <2>3, <2>4, FitTail
    <3>3. QED
      BY <2>2, <2>3, <3>1, <3>2, ProgramTail
  <2>6. Fit(t3, A) /\ Steps(t3) \subseteq Steps(t1) /\ \A y \in Steps(t3) : Ordered(q[3], y)
    <3>1. Program(t2)
      BY <2>5 DEF Fit
    <3>2. Fit(t3, A) /\ \A y \in Steps(t3) : Ordered(q[3], y)
      BY <2>2, <2>3, <2>5, FitTail
    <3>3. Steps(t3) \subseteq Steps(t2)
      BY <2>2, <2>3, <3>1, ProgramTail
    <3>4. QED
      BY <2>5, <3>2, <3>3
  <2>7. \A y \in Steps(t3) : Ordered(h, y) /\ y[1] # "set"
    <3>1. q[3][1] = "set"
      BY <2>1
    <3>2. QED
      BY <2>4, <2>6, <3>1 DEF Ordered
  <2>8. ASSUME NEW f \in Facts, Needs(t3, f)
        PROVE  \/ k \in Copied /\ f \in {<<"copy", Subject(k), k>>, <<"typed", Subject(k), k>>}
               \/ Needs(q, f)
    <3>1. Program(t1) /\ Program(t2)
      BY <2>4, <2>5 DEF Fit
    <3>2. Gives(q[3], f) \/ Needs(t2, f)
      BY <2>2, <2>3, <2>8, <3>1, NeedsTail
    <3>3. q[3][1] = "set"
      BY <2>1
    <3>4. Needs(t2, f)
      BY <3>2, <3>3, NoGifts
    <3>5. Gives(q[2], f) \/ Needs(t1, f)
      BY <2>2, <2>3, <3>1, <3>4, NeedsTail
    <3>6. CASE Gives(q[2], f)
      BY <2>1, <3>6 DEF Gives
    <3>7. CASE Needs(t1, f)
      <4>1. Gives(h, f) \/ Needs(q, f)
        BY <1>5, <2>1, <2>2, <2>3, <3>7, NeedsTail
      <4>2. QED
        BY <1>3, <4>1, NoGifts
    <3>8. QED
      BY <3>5, <3>6, <3>7
  <2>9. PICK got, kind : got = With(req[r].got, kind, v) /\ kind = k[1]
    OBVIOUS
  <2>10. k \in Copied \/ k[1] = "listings"
    BY <1>2, <1>3, <2>4 DEF StepOK
  <2>11. kind \in DOMAIN got /\ got[kind] = v /\ Kept(req[r].got, got, kind)
    BY <2>9, WithIs DEF Kept
  <2>12. ASSUME k \in Copied PROVE ValueOK(k, v)
    BY <1>2, <1>7, <2>12 DEF Inv, Cached
  <2>13. ASSUME k \in Copied, Needs(t3, <<"copy", Subject(k), k>>)
         PROVE  Subject(k) \in contended \/ (v = Current(k) /\ Present(k))
    <3>1. PICK y \in Steps(t3) : Uses(y, <<"copy", Subject(k), k>>)
      BY <2>13 DEF Needs
    <3>2. k[1] # "user:listings"
      <4>1. y[1] # "set"
        BY <2>7
      <4>2. k = RowOf(y)
        BY <3>1, <4>1 DEF Uses, Listing
      <4>3. QED
        BY <4>2, KeyIs DEF RowOf
    <3>3. Present(k)
      BY <2>12, <2>13 DEF ValueOK, Present
    <3>4. Subject(k) \in A
      BY <1>2, <1>3, <2>4, <2>13, CopiedKinds DEF Minds
    <3>5. Contended(k) \/ v = Current(k) \/ \E s \in Requests : Drops(s, k)
      BY <1>2, <1>7, <2>13 DEF Inv, Fresh, CacheFresh
    <3>6. ASSUME NEW s \in Requests, Drops(s, k) PROVE Subject(k) \in contended
      <4>1. Subject(k) \in req[s].about /\ req[s].todo[1][1] \in Dropping
        BY <1>5, <2>13, <3>6, DropsMind
      <4>2. s # r
        BY <1>1, <1>3, <4>1 DEF Dropping
      <4>3. QED
        BY <1>2, <1>5, <3>4, <4>1, <4>2 DEF Shaped, Apart
    <3>7. QED
      BY <3>2, <3>3, <3>5, <3>6 DEF Contended
  <2>14. ASSUME NEW f \in Facts, Needs(t3, f) PROVE (f \in Soft /\ f[2] \in contended) \/ Tells(got, A, f)
    <3>1. CASE k \in Copied /\ f = <<"copy", Subject(k), k>>
      <4>1. f[1] = "copy" /\ f[3] = k /\ f[2] = Subject(k) /\ f \in Soft
        BY <3>1, CopyFact
      <4>2. Subject(k) \in contended \/ (v = Current(k) /\ Present(k))
        BY <2>13, <2>14, <3>1
      <4>3. QED
        BY <2>9, <2>11, <4>1, <4>2 DEF Tells
    <3>2. CASE k \in Copied /\ f = <<"typed", Subject(k), k>>
      <4>1. f[1] = "typed" /\ f[3] = k
        BY <3>2
      <4>2. QED
        BY <2>9, <2>11, <2>12, <3>2, <4>1 DEF Tells
    <3>3. CASE ~(k \in Copied /\ f \in {<<"copy", Subject(k), k>>, <<"typed", Subject(k), k>>})
      <4>1. Known(r, f)
        BY <1>2, <1>5, <2>8, <2>14, <3>3 DEF Shaped, Knows
      <4>2. GotFor(f) # kind
        <5>1. h[2][1] \in KeyKinds
          BY <1>2, <2>10, CopiedKinds DEF KeyKinds
        <5>2. QED
          BY <1>2, <1>3, <2>7, <2>9, <2>14, <3>3, <5>1, ReadGives
      <4>3. CASE Tells(req[r].got, A, f)
        <5>1. GotFor(f) \in DOMAIN req[r].got =>
                GotFor(f) \in DOMAIN got /\ got[GotFor(f)] = req[r].got[GotFor(f)]
          BY <2>11, <4>2 DEF Kept
        <5>2. QED
          BY <4>3, <5>1 DEF Tells, GotFor, Copying
      <4>4. QED
        BY <1>2, <4>1, <4>3 DEF Known
    <3>4. QED
      BY <3>1, <3>2, <3>3
  <2>15. Goes(r, t3, got)
    BY <1>3, <1>7, <2>3, <2>9
  <2>16. QED
    BY <1>1, <1>2, <1>3, <1>4, <2>6, <2>14, <2>15, QuietGoes
<1>8. QED
  BY <1>6, <1>7

\* No program puts or peeks.
LEMMA NoPut == ASSUME Shaped, NEW r \in Requests PROVE ~CachePut(r) /\ ~CachePeek(r)
<1>1. PICK h : h = req[r].todo[1]
  OBVIOUS
<1>2. ASSUME At(r, "put") \/ At(r, "peek") PROVE FALSE
  <2>1. req[r].todo # <<>> /\ h[1] \in {"put", "peek"}
    BY <1>1, <1>2, Arguments
  <2>2. StepOK(h)
    BY <1>1, <2>1, AtHand
  <2>3. QED
    BY <2>1, <2>2 DEF StepOK, Plain, Final
<1>3. QED
  BY <1>2 DEF CachePut, CachePeek

\* What a request knows of the listing it has read.
LEMMA RowAtHand ==
  ASSUME Inv, NEW r \in Requests, req[r].todo # <<>>, NEW h, h = req[r].todo[1], h[1] \in Listing,
         NEW l, l = h[2], NEW row, row = Got(r, "listing")
  PROVE  /\ l \in Listings /\ l \in req[r].about /\ l \in Posted
         /\ Whole(row) /\ row.owner = listing[l].owner /\ listing[l].owner \in Users
         /\ h[1] \in {"visible", "prepare", "setStatus", "saveListing"} => l \in contended \/ row = listing[l]
<1>1. Shaped /\ TablesOK
  BY DEF Inv
<1>2. StepOK(h) /\ Minds(h, req[r].about) /\ \A k \in Facts : Uses(h, k) => Known(r, k)
  BY <1>1, AtHand
<1>3. l \in Listings /\ l \in req[r].about
  BY <1>2 DEF StepOK, Minds
<1>4. ListingKey(l) \in Copied /\ Subject(ListingKey(l)) = l /\ RowOf(h) = ListingKey(l)
  BY <1>3, KeyCopied, SubjectIs DEF RowOf, Listing
<1>5. <<"typed", l, ListingKey(l)>> \in Facts /\ <<"typed", l, ListingKey(l)>> \notin Soft
      /\ <<"copy", l, ListingKey(l)>> \in Facts
  BY <1>4, CopyFact
<1>6. Known(r, <<"typed", l, ListingKey(l)>>)
  <2>1. Uses(h, <<"typed", l, ListingKey(l)>>)
    BY <1>4 DEF Uses
  <2>2. QED
    BY <1>2, <1>5, <2>1
<1>7. ValueOK(ListingKey(l), row)
  BY <1>5, <1>6, KeyIs DEF Known, Tells, Got
<1>8. l \in Posted /\ Whole(row) /\ row.owner = listing[l].owner
  BY <1>7, KeyIs DEF ValueOK
<1>9. ASSUME h[1] \in {"visible", "prepare", "setStatus", "saveListing"} PROVE l \in contended \/ row = listing[l]
  <2>1. Uses(h, <<"copy", l, ListingKey(l)>>)
    BY <1>4, <1>9 DEF Uses
  <2>2. Known(r, <<"copy", l, ListingKey(l)>>)
    BY <1>2, <1>5, <2>1
  <2>3. QED
    BY <2>2, KeyIs DEF Known, Tells, Got, Current
<1>10. QED
  BY <1>1, <1>3, <1>8, <1>9, PostedTyped

Located == <<<<"geocode">>>>
Saving(l, u, offer) == <<<<"delete", ListingKey(l)>>, <<"scan", {UserPage(u)}>>, <<"saveListing", l, offer>>>>

\* What is left of an update after the check of its prices: the keys are dropped, and the listing is saved.
LEMMA SavingFits ==
  ASSUME NEW A, NEW l \in Posted, l \in A, NEW u \in Users, u \in Owner(l), u \in A, NEW offer, PatchOK(offer),
         NEW q \in {Saving(l, u, offer), Located \o Saving(l, u, offer)}
  PROVE  /\ Fit(q, A)
         /\ \A k \in Facts : Needs(q, k) =>
              \/ k \in {<<"copy", l, ListingKey(l)>>, <<"typed", l, ListingKey(l)>>}
              \/ k[1] = "unpaged" /\ k[3] = l /\ k[2] # u
<1>0. PICK a, b, c, g : /\ a = <<"delete", ListingKey(l)>> /\ b = <<"scan", {UserPage(u)}>>
                        /\ c = <<"saveListing", l, offer>> /\ g = <<"geocode">>
  OBVIOUS
<1>1. /\ a[1] = "delete" /\ a[2] = ListingKey(l) /\ b[1] = "scan" /\ b[2] = {UserPage(u)}
      /\ c[1] = "saveListing" /\ c[2] = l /\ c[3] = offer /\ g[1] = "geocode"
  BY <1>0
<1>2. /\ l \in Listings /\ ListingKey(l) \in Copied /\ UserPage(u) \in Copied /\ Subject(ListingKey(l)) = l
      /\ Subject(UserPage(u)) = u /\ RowOf(c) = ListingKey(l) /\ listing[l].owner = u
  BY <1>1, KeyCopied, SubjectIs DEF RowOf, Posted, Owner
<1>3. StepOK(a) /\ StepOK(b) /\ StepOK(c) /\ StepOK(g)
  BY <1>1, <1>2 DEF StepOK, Plain, Final, Listing
<1>4. Minds(a, A) /\ Minds(b, A) /\ Minds(c, A) /\ Minds(g, A)
  BY <1>1, <1>2 DEF Minds, MindsOwner, Listing
<1>5. Ordered(a, b) /\ Ordered(a, c) /\ Ordered(b, c) /\ Ordered(g, a) /\ Ordered(g, b) /\ Ordered(g, c)
  BY <1>1 DEF Ordered
<1>6. PICK p, s : p = <<a, b, c>> /\ s = <<g>>
  OBVIOUS
<1>7. Program(p) /\ Steps(p) = {a, b, c} /\ Program(s) /\ Steps(s) = {g}
  BY <1>6, ProgramOf3, ProgramOf1
<1>8. Adjacent(p) /\ Counting(p)
  BY <1>1, <1>7, NotLinked, NotCounting DEF Linked
<1>9. a[1] \notin Final /\ b[1] \notin Final /\ g[1] \notin Final
  BY <1>1 DEF Final
<1>10. Fit(p, A) /\ Fit(s, A)
  <2>1. Fit(p, A)
    BY <1>3, <1>4, <1>5, <1>6, <1>8, <1>9, FitOf3
  <2>2. Fit(s, A)
    BY <1>1, <1>3, <1>4, <1>6, FitOf1 DEF Linked
  <2>3. QED
    BY <2>1, <2>2
<1>11. PICK w : w = s \o p
  OBVIOUS
<1>12. Steps(w) = {g, a, b, c}
  BY <1>7, <1>11, ProgramJoin
<1>13. Fit(w, A)
  <2>1. Counting(w)
    BY <1>1, <1>12, NotCounting
  <2>2. QED
    BY <1>5, <1>7, <1>9, <1>10, <1>11, <2>1, FitJoin
<1>14. ASSUME NEW z \in {p, w}, NEW k \in Facts, Needs(z, k)
       PROVE  \/ k \in {<<"copy", l, ListingKey(l)>>, <<"typed", l, ListingKey(l)>>}
              \/ k[1] = "unpaged" /\ k[3] = l /\ k[2] # u
  <2>1. /\ \E x \in {g, a, b, c} : Uses(x, k)
        /\ ~Gives(a, k) /\ ~Gives(b, k)
    BY <1>7, <1>12, <1>14 DEF Needs
  <2>2. ~Uses(g, k) /\ ~Uses(a, k) /\ ~Uses(b, k)
    BY <1>1 DEF Uses, Listing
  <2>3. Uses(c, k)
    BY <2>1, <2>2
  <2>4. \/ k \in {<<"copy", l, ListingKey(l)>>, <<"typed", l, ListingKey(l)>>}
        \/ k = <<"dropped", l, Nobody>>
        \/ k[1] = "unpaged" /\ k[3] = l
    BY <1>1, <1>2, <2>3 DEF Uses, Listing
  <2>5. k # <<"dropped", l, Nobody>>
    BY <1>1, <2>1 DEF Gives
  <2>6. k[1] = "unpaged" => k[2] # u
    BY <1>1, <2>1 DEF Gives
  <2>7. QED
    BY <2>4, <2>5, <2>6
<1>15. p = Saving(l, u, offer) /\ w = Located \o Saving(l, u, offer)
  BY <1>0, <1>6, <1>11 DEF Saving, Located
<1>16. q \in {p, w}
  BY <1>15
<1>17. QED
  BY <1>10, <1>13, <1>14, <1>16

LEMMA PrepareInv == ASSUME Inv, Still, NEW r \in Requests, Prepare(r) PROVE Inv'
<1>1. PICK h : h = req[r].todo[1]
  OBVIOUS
<1>2. PICK l, offer, row, A : l = h[2] /\ offer = h[3] /\ row = Got(r, "listing") /\ A = req[r].about
  OBVIOUS
<1>3. PICK q : q = Saving(l, row.owner, offer)
  OBVIOUS
<1>4. /\ req[r].todo # <<>> /\ h[1] = "prepare"
      /\ IF OnePricePerPeriod(offer)
           THEN Do(r, (IF "place" \in DOMAIN offer THEN Located ELSE <<>>) \o q)
           ELSE Throw(r)
  <2>1. /\ At(r, "prepare")
        /\ IF OnePricePerPeriod(Arg(r, 2))
             THEN Do(r, (IF "place" \in DOMAIN Arg(r, 2) THEN Located ELSE <<>>)
                          \o Saving(Arg(r, 1), Got(r, "listing").owner, Arg(r, 2)))
             ELSE Throw(r)
    BY Zenon DEF Prepare, Saving, Located
  <2>2. QED
    BY <1>1, <1>2, <1>3, <2>1, Arguments
<1>5. h[1] \notin Dropping \cup {"insertView"}
  BY <1>4 DEF Dropping
<1>6. /\ StepOK(h) /\ Minds(h, A) /\ Tail(req[r].todo) = <<>> /\ \A k \in Facts : Uses(h, k) => Known(r, k)
  <2>1. h[1] \in Final
    BY <1>4 DEF Final
  <2>2. QED
    BY <1>1, <1>2, <1>4, <2>1, AtHand DEF Inv
<1>7. l \in Listings /\ l \in A /\ l \in Posted /\ row.owner = listing[l].owner /\ listing[l].owner \in Users
  BY <1>1, <1>2, <1>4, RowAtHand DEF Listing
<1>8. PICK u : u = row.owner
  OBVIOUS
<1>9. u \in Users /\ u \in Owner(l) /\ u \in A
  <2>1. MindsOwner(l, A)
    BY <1>2, <1>4, <1>6 DEF Minds
  <2>2. QED
    BY <1>7, <1>8, <2>1 DEF MindsOwner, Owner
<1>10. CASE OnePricePerPeriod(offer)
  <2>1. PatchOK(offer)
    BY <1>2, <1>4, <1>6, <1>10 DEF PatchOK, StepOK
  <2>2. PICK s : s = Located \o q
    OBVIOUS
  <2>3. PICK todo, got : todo = (IF "place" \in DOMAIN offer THEN s ELSE q) /\ got = req[r].got
    OBVIOUS
  <2>4. /\ todo \in {q, s} /\ Fit(q, A) /\ Fit(s, A)
        /\ \A k \in Facts : Needs(todo, k) =>
              \/ k \in {<<"copy", l, ListingKey(l)>>, <<"typed", l, ListingKey(l)>>}
              \/ k[1] = "unpaged" /\ k[3] = l /\ k[2] # u
    BY <1>3, <1>7, <1>8, <1>9, <2>1, <2>2, <2>3, SavingFits
  <2>5. Goes(r, todo, got)
    <3>1. Program(q) /\ Program(s)
      BY <2>4 DEF Fit
    <3>2. <<>> \o q = q
      BY <3>1, NoProgram
    <3>3. q \o <<>> = q /\ s \o <<>> = s
      BY <3>1, NoStepAfter
    <3>4. (IF "place" \in DOMAIN offer THEN Located ELSE <<>>) \o q = todo
      BY <2>2, <2>3, <3>2
    <3>5. todo \o <<>> = todo
      BY <2>3, <3>3
    <3>6. QED
      BY <1>4, <1>6, <1>10, <2>3, <3>4, <3>5 DEF Do
  <2>6. ASSUME NEW k \in Facts, Needs(todo, k) PROVE (k \in Soft /\ k[2] \in contended) \/ Tells(got, A, k)
    <3>1. CASE k \in {<<"copy", l, ListingKey(l)>>, <<"typed", l, ListingKey(l)>>}
      <4>1. RowOf(h) = ListingKey(l)
        BY <1>2, <1>4 DEF RowOf
      <4>2. Uses(h, k)
        BY <1>2, <1>4, <3>1, <4>1 DEF Uses, Listing
      <4>3. QED
        BY <1>2, <1>6, <2>3, <2>6, <4>2 DEF Known
    <3>2. CASE k[1] = "unpaged" /\ k[3] = l /\ k[2] # u
      BY <1>7, <1>8, <3>2 DEF Tells, Owner
    <3>3. QED
      BY <2>4, <2>6, <3>1, <3>2
  <2>7. QED
    BY <1>1, <1>2, <1>4, <1>5, <2>4, <2>5, <2>6, QuietGoes
<1>11. CASE ~OnePricePerPeriod(offer)
  BY <1>1, <1>4, <1>5, <1>11, QuietThrow
<1>12. QED
  BY <1>10, <1>11

-----------------------------------------------------------------------------
(* Steps on the cache *)

LEMMA CopiedSame == Copied' = Copied
BY DEF Copied, ListingKey, UserPage, PlanKey, PlansKey

LEMMA TablesSteady ==
  ASSUME TablesStill, NEW k, k[1] = "dropped" => (ListingKey(k[2]) \in DOMAIN cache' => ListingKey(k[2]) \in DOMAIN cache),
         k[1] = "unpaged" => (UserPage(k[2]) \in DOMAIN cache' => UserPage(k[2]) \in DOMAIN cache)
  PROVE  Steady(k)
<1>1. /\ \A f : Current(f)' = Current(f)
      /\ \A l, u : IsFavorite(l, u)' = IsFavorite(l, u) /\ Seen(l, u)' = Seen(l, u)
      /\ Rows(views)' = Rows(views) /\ \A l : Viewings(l)' = Viewings(l)
      /\ \A u, p : IsSubscribed(u, p)' = IsSubscribed(u, p) /\ listing' = listing
  BY TablesSame DEF TablesStill
<1>2. QED
  BY <1>1 DEF Steady

LEMMA TablesGrowth == ASSUME Inv, TablesStill PROVE Growth
BY NoGrowth DEF Inv, TablesStill

\* What is still to be dropped is dropped later.
LEMMA DropsLater ==
  ASSUME Shaped, NEW r \in Requests, req[r].todo # <<>>, NEW h, h = req[r].todo[1], NEW k, Drops(r, k),
         req'[r].todo = Tail(req[r].todo)
  PROVE  \/ h[1] = "delete" /\ h[2] = k
         \/ h[1] \in {"scan", "unlink"} /\ k \in h[2]
         \/ Drops(r, k)'
<1>1. PICK q, t : q = req[r].todo /\ t = Tail(q)
  OBVIOUS
<1>2. PICK i \in DOMAIN q :
        /\ \A j \in 1..i : q[j][1] \in Dropping
        /\ IF q[i][1] = "delete" THEN q[i][2] = k ELSE k \in q[i][2]
  BY <1>1 DEF Drops
<1>3. /\ Len(q) \in Nat \ {0} /\ Len(t) = Len(q) - 1 /\ DOMAIN q = 1..Len(q) /\ DOMAIN t = 1..Len(t)
      /\ \A j \in DOMAIN t : j + 1 \in DOMAIN q /\ t[j] = q[j + 1]
  BY <1>1, ProgramTail DEF Shaped, Fit
<1>4. q[1][1] \in Dropping
  BY <1>2, <1>3
<1>5. CASE i = 1
  BY <1>1, <1>2, <1>4, <1>5 DEF Dropping
<1>6. CASE i # 1
  <2>1. PICK n : n = i - 1
    OBVIOUS
  <2>2. n \in DOMAIN t /\ n \in Nat /\ i = n + 1 /\ t[n] = q[i]
    BY <1>2, <1>3, <1>6, <2>1
  <2>3. \A j \in 1..n : t[j][1] \in Dropping
    <3>1. ASSUME NEW j \in 1..n PROVE t[j][1] \in Dropping
      <4>1. j \in DOMAIN t /\ j + 1 \in 1..i
        BY <1>3, <2>2
      <4>2. QED
        BY <1>2, <1>3, <4>1
    <3>2. QED
      BY <3>1
  <2>4. Drops(r, k)'
    <3>1. req'[r].todo = t
      BY <1>1
    <3>2. QED
      BY <1>2, <2>2, <2>3, <3>1 DEF Drops, Dropping
  <2>5. QED
    BY <2>4
<1>7. QED
  BY <1>5, <1>6

LEMMA NeedsLater ==
  ASSUME NEW q, Program(q), q # <<>>, NEW k, Needs(q, k), ~Uses(q[1], k)
  PROVE  Needs(Tail(q), k)
<1>1. Steps(q) = {q[1]} \cup Steps(Tail(q))
  BY ProgramTail
<1>2. QED
  BY <1>1 DEF Needs

\* A step that removes the keys S.
LEMMA RemovesInv ==
  ASSUME Inv, TablesStill, NEW r \in Requests, req[r].todo # <<>>, NEW h, h = req[r].todo[1], NEW S,
         cache' = Without(cache, S), Continue(r),
         \/ h[1] = "delete" /\ S = {h[2]}
         \/ h[1] = "unlink" /\ S = h[2]
  PROVE  Inv'
<1>0. Shaped /\ Growth
  BY TablesGrowth DEF Inv
<1>1. \A k : k \in DOMAIN cache' <=> k \in DOMAIN cache /\ k \notin S
  BY WithoutIs
<1>2. \A k \in DOMAIN cache : k \notin S => cache'[k] = cache[k]
  BY WithoutKeeps
<1>3. \A k : Steady(k)
  BY <1>1, TablesSteady
<1>4. Minding(r)
  BY <1>3 DEF Minding
<1>5. PICK got, A, q : got = req[r].got /\ A = req[r].about /\ q = Tail(req[r].todo)
  OBVIOUS
<1>6. Goes(r, q, got)
  BY <1>5 DEF Continue
<1>7. ASSUME NEW k \in Facts, Gives(h, k) PROVE Tells(got, A, k)'
  <2>1. CASE h[1] = "delete"
    <3>1. k[1] = "dropped" /\ ListingKey(k[2]) \in S
      BY <1>7, <2>1 DEF Gives
    <3>2. QED
      BY <1>1, <3>1 DEF Tells
  <2>2. CASE h[1] = "unlink"
    <3>1. k[1] = "unpaged" /\ UserPage(k[2]) \in S
      BY <1>7, <2>2 DEF Gives
    <3>2. QED
      BY <1>1, <3>1 DEF Tells
  <2>3. QED
    BY <2>1, <2>2
<1>8. /\ Shaped' /\ Elsewhere(r) /\ req'[r].todo = q
      /\ UNCHANGED <<mix, calls, faults, contended>>
  <2>1. /\ \A k \in Facts : Gives(h, k) /\ Needs(Tail(req[r].todo), k) =>
             (k \in Soft /\ k[2] \in contended) \/ Tells(got, A, k)'
        /\ \A k \in Facts : ~Gives(h, k) /\ Needs(Tail(req[r].todo), k) =>
             /\ k \in Soft => Steady(k)
             /\ GotFor(k) \in DOMAIN req[r].got =>
                  GotFor(k) \in DOMAIN got /\ got[GotFor(k)] = req[r].got[GotFor(k)]
    BY <1>3, <1>5, <1>7
  <2>2. Goes(r, Tail(req[r].todo), got)
    BY <1>5, <1>6
  <2>3. QED
    BY <1>0, <1>4, <1>5, <2>1, <2>2, PassShaped
<1>9. CacheFresh'
  <2>1. ASSUME NEW k \in Copied, k \in DOMAIN cache'
        PROVE  k \in DOMAIN cache /\ cache'[k] = cache[k] /\ (Drops(r, k) => Drops(r, k)')
    <3>1. k \in DOMAIN cache /\ k \notin S
      BY <1>1, <2>1
    <3>2. Drops(r, k) => Drops(r, k)'
      BY <1>0, <1>5, <1>8, <3>1, DropsLater
    <3>3. QED
      BY <1>2, <3>1, <3>2
  <2>2. QED
    BY <1>8, <2>1, FreshKeys
<1>10. TablesOK' /\ InterestInOthers' /\ OneSubscription' /\ Balanced' /\ Novel'
  <2>1. ASSUME NEW l \in Posted, Needs(req[r].todo, <<"ahead", l, Nobody>>)
        PROVE  Needs(req'[r].todo, <<"ahead", l, Nobody>>)
    <3>1. ~Uses(h, <<"ahead", l, Nobody>>)
      BY DEF Uses, Listing
    <3>2. Program(req[r].todo)
      BY <1>0 DEF Shaped, Fit
    <3>3. QED
      BY <1>5, <1>8, <2>1, <3>1, <3>2, NeedsLater
  <2>2. QED
    BY <1>8, <2>1, TablesRest
<1>11. Cached'
  BY <1>1, <1>2, CopiedSame, TablesSame DEF Inv, Cached
<1>12. QED
  BY <1>8, <1>9, <1>10, <1>11 DEF Inv, Fresh

LEMMA CacheDeleteInv == ASSUME Inv, TablesStill, NEW r \in Requests, CacheDelete(r) PROVE Inv'
<1>1. PICK h : h = req[r].todo[1]
  OBVIOUS
<1>2. PICK S : S = {h[2]}
  OBVIOUS
<1>3. req[r].todo # <<>> /\ h[1] = "delete" /\ cache' = Without(cache, S) /\ Continue(r)
  BY <1>1, <1>2, Arguments DEF CacheDelete
<1>4. QED
  BY <1>1, <1>2, <1>3, RemovesInv

LEMMA CacheUnlinkInv == ASSUME Inv, TablesStill, NEW r \in Requests, CacheUnlink(r) PROVE Inv'
<1>1. PICK h : h = req[r].todo[1]
  OBVIOUS
<1>2. PICK S : S = h[2]
  OBVIOUS
<1>3. req[r].todo # <<>> /\ h[1] = "unlink" /\ cache' = Without(cache, S) /\ Continue(r)
  BY <1>1, <1>2, Arguments DEF CacheUnlink
<1>4. QED
  BY <1>1, <1>2, <1>3, RemovesInv

LEMMA CacheSetInv == ASSUME Inv, TablesStill, NEW r \in Requests, CacheSet(r) PROVE Inv'
<1>1. PICK h : h = req[r].todo[1]
  OBVIOUS
<1>2. PICK c, v, q, got, A : c = h[2] /\ v = req[r].got[h[2][1]] /\ q = Tail(req[r].todo) /\ got = req[r].got
                             /\ A = req[r].about
  OBVIOUS
<1>3. req[r].todo # <<>> /\ h[1] = "set" /\ cache' = With(cache, c, v) /\ Goes(r, q, got)
  BY <1>1, <1>2, Arguments DEF CacheSet, Got, Continue
<1>4. /\ c \in DOMAIN cache' /\ cache'[c] = v
      /\ \A k : k \in DOMAIN cache' <=> k \in DOMAIN cache \/ k = c
      /\ \A k \in DOMAIN cache : k # c => cache'[k] = cache[k]
  <2>1. PICK f : f = cache
    OBVIOUS
  <2>2. cache' = With(f, c, v)
    BY <1>3, <2>1
  <2>3. /\ c \in DOMAIN With(f, c, v) /\ With(f, c, v)[c] = v
        /\ \A x \in DOMAIN f : x # c => x \in DOMAIN With(f, c, v) /\ With(f, c, v)[x] = f[x]
        /\ \A x : x \in DOMAIN With(f, c, v) <=> x \in DOMAIN f \/ x = c
    BY WithIs
  <2>4. QED
    BY <2>1, <2>2, <2>3
<1>5. Shaped /\ Growth
  BY TablesGrowth DEF Inv
<1>6. /\ StepOK(h) /\ Minds(h, A) /\ \A y \in Steps(q) : Ordered(h, y)
      /\ \A k \in Facts : Uses(h, k) => Known(r, k)
  BY <1>1, <1>2, <1>3, <1>5, AtHand
<1>7. c \in Copied => Subject(c) \in A
  BY <1>2, <1>3, <1>6, CopiedKinds DEF Minds
<1>8. ASSUME c \in Copied
      PROVE  ValueOK(c, v) /\ (Subject(c) \in contended \/ v = Current(c))
  <2>1. PICK f, g : f = <<"copy", Subject(c), c>> /\ g = <<"typed", Subject(c), c>>
    OBVIOUS
  <2>2. f \in Facts /\ g \in Facts /\ g \notin Soft
    BY <1>8, <2>1, CopyFact
  <2>3. Uses(h, f) /\ Uses(h, g)
    BY <1>2, <1>3, <1>8, <2>1 DEF Uses
  <2>4. Known(r, f) /\ Known(r, g)
    BY <1>6, <2>2, <2>3
  <2>5. f[1] = "copy" /\ f[2] = Subject(c) /\ f[3] = c /\ g[1] = "typed" /\ g[3] = c
    BY <2>1
  <2>6. ValueOK(c, v)
    BY <1>2, <2>2, <2>4, <2>5 DEF Known, Tells
  <2>7. Subject(c) \in contended \/ v = Current(c)
    BY <1>2, <2>4, <2>5 DEF Known, Tells
  <2>8. QED
    BY <2>6, <2>7
<1>9. Minding(r)
  <2>1. ASSUME NEW k \in Soft, k[2] \notin req[r].about PROVE Steady(k)
    <3>1. CASE k[1] = "dropped"
      <4>1. k[2] \in Listings
        BY <3>1, SoftKinds
      <4>2. ListingKey(k[2]) \in Copied /\ Subject(ListingKey(k[2])) = k[2]
        BY <4>1, KeyCopied, SubjectIs
      <4>3. ListingKey(k[2]) # c
        BY <1>2, <1>7, <2>1, <4>2
      <4>4. QED
        BY <1>4, <3>1, <4>3, TablesSteady
    <3>2. CASE k[1] = "unpaged"
      <4>1. k[2] \in Users
        BY <3>2, SoftKinds
      <4>2. UserPage(k[2]) \in Copied /\ Subject(UserPage(k[2])) = k[2]
        BY <4>1, KeyCopied, SubjectIs
      <4>3. UserPage(k[2]) # c
        BY <1>2, <1>7, <2>1, <4>2
      <4>4. QED
        BY <1>4, <3>2, <4>3, TablesSteady
    <3>3. CASE k[1] \notin {"dropped", "unpaged"}
      BY <3>3, TablesSteady
    <3>4. QED
      BY <3>1, <3>2, <3>3
  <2>2. QED
    BY <2>1 DEF Minding
<1>10. /\ Shaped' /\ Elsewhere(r) /\ req'[r].todo = q
       /\ UNCHANGED <<mix, calls, faults, contended>>
  <2>1. \A k : ~Gives(h, k)
    BY <1>3, NoGifts
  <2>2. ASSUME NEW k \in Facts, Needs(q, k) PROVE Steady(k)
    <3>1. k[1] \notin {"dropped", "unpaged"}
      <4>1. PICK y \in Steps(q) : Uses(y, k)
        BY <2>2 DEF Needs
      <4>2. y[1] \notin {"saveListing", "insertListing"}
        BY <1>3, <1>6 DEF Ordered
      <4>3. QED
        BY <4>1, <4>2 DEF Uses
    <3>2. QED
      BY <3>1, TablesSteady
  <2>3. /\ \A k \in Facts : Gives(h, k) /\ Needs(Tail(req[r].todo), k) =>
             (k \in Soft /\ k[2] \in contended) \/ Tells(got, A, k)'
        /\ \A k \in Facts : ~Gives(h, k) /\ Needs(Tail(req[r].todo), k) =>
             /\ k \in Soft => Steady(k)
             /\ GotFor(k) \in DOMAIN req[r].got =>
                  GotFor(k) \in DOMAIN got /\ got[GotFor(k)] = req[r].got[GotFor(k)]
    BY <1>2, <2>1, <2>2
  <2>4. Goes(r, Tail(req[r].todo), got)
    BY <1>2, <1>3
  <2>5. QED
    BY <1>1, <1>2, <1>3, <1>5, <1>9, <2>3, <2>4, PassShaped
<1>11. \A k : ~Drops(r, k)
  <2>1. Program(req[r].todo)
    BY <1>5 DEF Shaped, Fit
  <2>2. ASSUME NEW i \in DOMAIN req[r].todo PROVE 1 \in 1..i
    BY <2>1 DEF Program
  <2>3. QED
    BY <1>1, <1>3, <2>2 DEF Drops, Dropping
<1>12. CacheFresh'
  <2>1. ASSUME NEW k \in Copied, k \in DOMAIN cache'
        PROVE  \/ Contended(k) \/ cache'[k] = Current(k)
               \/ k \in DOMAIN cache /\ cache'[k] = cache[k] /\ (Drops(r, k) => Drops(r, k)')
    <3>1. CASE k = c
      <4>1. Subject(k) \in contended \/ cache'[k] = Current(k)
        BY <1>4, <1>8, <2>1, <3>1
      <4>2. Subject(k) \in contended => Contended(k)
        BY CopiedKinds, SubjectIs DEF Contended, Calm
      <4>3. QED
        BY <4>1, <4>2
    <3>2. CASE k # c
      BY <1>4, <1>11, <2>1, <3>2
    <3>3. QED
      BY <3>1, <3>2
  <2>2. QED
    BY <1>10, <2>1, FreshKeys
<1>13. TablesOK' /\ InterestInOthers' /\ OneSubscription' /\ Balanced' /\ Novel'
  <2>1. ASSUME NEW l \in Posted PROVE ~Needs(req[r].todo, <<"ahead", l, Nobody>>)
    <3>1. Fit(req[r].todo, req[r].about) /\ h \in Steps(req[r].todo)
      BY <1>1, <1>3, <1>5, ProgramTail DEF Shaped, Fit
    <3>2. QED
      BY <1>3, <3>1, AheadHead
  <2>2. QED
    BY <1>10, <2>1, TablesRest
<1>14. Cached'
  <2>1. ASSUME NEW k \in Copied, k \in DOMAIN cache' PROVE ValueOK(k, cache'[k])
    BY <1>4, <1>8, <2>1 DEF Inv, Cached
  <2>2. QED
    BY <2>1, CopiedSame, TablesSame DEF Cached
<1>15. QED
  BY <1>10, <1>12, <1>13, <1>14 DEF Inv, Fresh

LEMMA CacheScanInv == ASSUME Inv, Still, NEW r \in Requests, CacheScan(r) PROVE Inv'
<1>1. PICK h : h = req[r].todo[1]
  OBVIOUS
<1>2. PICK found, q, got, A : found = h[2] \cap DOMAIN cache /\ q = Tail(req[r].todo) /\ got = req[r].got
                              /\ A = req[r].about
  OBVIOUS
<1>3. PICK x : x = <<"unlink", found>>
  OBVIOUS
<1>4. PICK more : more = IF found = {} THEN <<>> ELSE <<x>>
  OBVIOUS
<1>5. PICK todo : todo = more \o q
  OBVIOUS
<1>6. req[r].todo # <<>> /\ h[1] = "scan" /\ Goes(r, todo, got)
  <2>1. /\ req[r].todo # <<>> /\ h[1] = "scan"
        /\ Do(r, IF found = {} THEN <<>> ELSE <<<<"unlink", found>>>>)
    <3>1. At(r, "scan") /\ Do(r, IF Arg(r, 1) \cap DOMAIN cache = {} THEN <<>>
                                 ELSE <<<<"unlink", Arg(r, 1) \cap DOMAIN cache>>>>)
      BY Zenon DEF CacheScan
    <3>2. found = Arg(r, 1) \cap DOMAIN cache
      BY <1>1, <1>2, Arguments
    <3>3. QED
      BY <1>1, <3>1, <3>2, Arguments
  <2>2. Do(r, more)
    BY <1>3, <1>4, <2>1
  <2>3. QED
    BY <1>2, <1>5, <2>1, <2>2 DEF Do
<1>7. Shaped /\ Growth /\ Fit(req[r].todo, A) /\ Program(req[r].todo)
  BY <1>2, StillGrowth DEF Inv, Shaped, Fit
<1>8. /\ Fit(q, A) /\ StepOK(h) /\ Minds(h, A)
      /\ \A k \in Facts : Needs(q, k) => Gives(h, k) \/ Known(r, k)
  BY <1>1, <1>2, <1>6, <1>7, AtHand
<1>9. /\ Program(q) /\ Steps(req[r].todo) = {h} \cup Steps(q) /\ Len(req[r].todo) \in Nat \ {0}
      /\ Len(q) = Len(req[r].todo) - 1 /\ DOMAIN req[r].todo = 1..Len(req[r].todo) /\ DOMAIN q = 1..Len(q)
      /\ \A j \in DOMAIN q : j + 1 \in DOMAIN req[r].todo /\ q[j] = req[r].todo[j + 1]
  BY <1>1, <1>2, <1>6, <1>7, ProgramTail
<1>10. x[1] = "unlink" /\ x[2] = found
  BY <1>3
<1>11. Fit(todo, A) /\ (found = {} => todo = q) /\ (found # {} => Steps(todo) = {x} \cup Steps(q) /\ todo = <<x>> \o q)
  <2>1. CASE found = {}
    <3>1. todo = q
      BY <1>4, <1>5, <1>9, <2>1, NoProgram
    <3>2. QED
      BY <1>8, <2>1, <3>1
  <2>2. CASE found # {}
    <3>1. PICK s : s = <<x>>
      OBVIOUS
    <3>2. Program(s) /\ Steps(s) = {x}
      BY <3>1, ProgramOf1
    <3>3. todo = s \o q
      BY <1>4, <1>5, <2>2, <3>1
    <3>4. Steps(todo) = {x} \cup Steps(q)
      BY <1>9, <3>2, <3>3, ProgramJoin
    <3>5. StepOK(x) /\ Minds(x, A)
      <4>1. h[2] \subseteq Copied /\ \A k \in h[2] : Subject(k) \in A
        BY <1>6, <1>8 DEF StepOK, Minds
      <4>2. found \subseteq Copied /\ \A k \in found : Subject(k) \in A
        BY <1>2, <4>1
      <4>3. StepOK(x)
        BY <1>10, <4>2 DEF StepOK, Plain, Listing
      <4>4. Minds(x, A)
        BY <1>10, <4>2 DEF Minds, Listing
      <4>5. QED
        BY <4>3, <4>4
    <3>6. Fit(s, A)
      BY <1>10, <3>1, <3>5, FitOf1 DEF Linked
    <3>7. \A y \in Steps(s) : y[1] \notin Final
      BY <1>10, <3>2 DEF Final
    <3>8. \A y \in Steps(s), z \in Steps(q) : Ordered(y, z)
      BY <1>10, <3>2 DEF Ordered
    <3>9. Counting(s \o q)
      <4>1. Counting(req[r].todo)
        BY <1>7 DEF Fit
      <4>2. QED
        BY <1>6, <1>9, <1>10, <3>3, <3>4, <4>1 DEF Counting
    <3>10. Fit(s \o q, A)
      BY <1>8, <3>6, <3>7, <3>8, <3>9, FitJoin
    <3>11. QED
      BY <2>2, <3>1, <3>3, <3>4, <3>10
  <2>3. QED
    BY <2>1, <2>2
<1>12. ASSUME NEW k \in Facts, Needs(todo, k) PROVE (k \in Soft /\ k[2] \in contended) \/ Tells(got, A, k)
  <2>1. Needs(q, k) /\ (found # {} => ~Gives(x, k))
    <3>1. CASE found = {}
      BY <1>11, <1>12, <3>1
    <3>2. CASE found # {}
      <4>1. ~Uses(x, k)
        BY <1>10 DEF Uses, Listing
      <4>2. QED
        BY <1>11, <1>12, <3>2, <4>1 DEF Needs
    <3>3. QED
      BY <3>1, <3>2
  <2>2. CASE Gives(h, k)
    <3>1. k[1] = "unpaged" /\ UserPage(k[2]) \in h[2]
      BY <1>6, <2>2 DEF Gives
    <3>2. UserPage(k[2]) \notin found
      <4>1. ASSUME UserPage(k[2]) \in found PROVE FALSE
        <5>1. Gives(x, k) /\ found # {}
          BY <1>10, <3>1, <4>1 DEF Gives
        <5>2. QED
          BY <2>1, <5>1
      <4>2. QED
        BY <4>1
    <3>3. UserPage(k[2]) \notin DOMAIN cache
      BY <1>2, <3>1, <3>2
    <3>4. QED
      BY <3>1, <3>3 DEF Tells
  <2>3. CASE ~Gives(h, k)
    BY <1>2, <1>8, <2>1, <2>3, <1>12 DEF Known
  <2>4. QED
    BY <2>2, <2>3
<1>13. /\ Shaped' /\ Elsewhere(r) /\ req'[r].todo = todo
       /\ UNCHANGED <<mix, calls, faults, contended>>
  <2>1. Minding(r) /\ \A k \in Facts : Needs(todo, k) => (k \in Soft /\ k[2] \in contended) \/ Tells(got, A, k)'
    BY <1>12, StillMinding, StillTells
  <2>2. QED
    BY <1>2, <1>6, <1>7, <1>11, <2>1, GoesShaped
<1>14. ASSUME NEW k \in Copied, k \in DOMAIN cache, Drops(r, k) PROVE Drops(r, k)'
  <2>1. PICK i \in DOMAIN req[r].todo :
          /\ \A j \in 1..i : req[r].todo[j][1] \in Dropping
          /\ IF req[r].todo[i][1] = "delete" THEN req[r].todo[i][2] = k ELSE k \in req[r].todo[i][2]
    BY <1>14 DEF Drops
  <2>2. CASE found = {}
    <3>1. k \notin h[2]
      BY <1>2, <1>14, <2>2
    <3>2. req'[r].todo = Tail(req[r].todo)
      BY <1>2, <1>11, <1>13, <2>2
    <3>3. QED
      BY <1>1, <1>6, <1>7, <1>14, <3>1, <3>2, DropsLater
  <2>3. CASE found # {}
    <3>1. /\ Len(q) \in Nat /\ DOMAIN todo = 1..Len(q) + 1 /\ todo[1] = x
          /\ \A j \in 1..Len(q) : todo[j + 1] = q[j]
      <4>1. PICK s : s = <<x>>
        OBVIOUS
      <4>2. Program(s) /\ Len(s) = 1 /\ s[1] = x /\ todo = s \o q
        BY <1>11, <2>3, <4>1, ProgramOf1
      <4>3. /\ Len(q) \in Nat /\ DOMAIN todo = 1..1 + Len(q)
            /\ \A j \in 1..1 + Len(q) : todo[j] = IF j <= 1 THEN s[j] ELSE q[j - 1]
        <5>1. /\ Len(s) \in Nat /\ Len(q) \in Nat /\ DOMAIN (s \o q) = 1..Len(s) + Len(q)
              /\ \A j \in 1..Len(s) + Len(q) : (s \o q)[j] = IF j <= Len(s) THEN s[j] ELSE q[j - Len(s)]
          BY <1>9, <4>2, ProgramJoin
        <5>2. QED
          BY <4>2, <5>1
      <4>4. todo[1] = x
        BY <4>2, <4>3
      <4>5. ASSUME NEW j \in 1..Len(q) PROVE todo[j + 1] = q[j]
        BY <4>3
      <4>6. QED
        BY <4>3, <4>4, <4>5
    <3>2. CASE i = 1
      <4>1. k \in found
        BY <1>1, <1>2, <1>6, <1>14, <2>1, <3>2
      <4>2. 1 \in DOMAIN todo /\ \A j \in 1..1 : todo[j][1] \in Dropping
        BY <1>10, <3>1 DEF Dropping
      <4>3. QED
        BY <1>10, <1>13, <3>1, <4>1, <4>2 DEF Drops
    <3>3. CASE i # 1
      <4>1. i \in DOMAIN todo /\ \A j \in 1..i : j # 1 => todo[j] = req[r].todo[j]
        <5>1. i \in DOMAIN todo
          BY <1>9, <3>1
        <5>2. ASSUME NEW j \in 1..i, j # 1 PROVE todo[j] = req[r].todo[j]
          <6>1. PICK n : n = j - 1
            OBVIOUS
          <6>2. n \in 1..Len(q) /\ n + 1 = j
            BY <1>9, <5>2, <6>1
          <6>3. QED
            BY <1>9, <3>1, <6>2
        <5>3. QED
          BY <5>1, <5>2
      <4>2. \A j \in 1..i : todo[j][1] \in Dropping
        <5>1. x[1] \in Dropping
          BY <1>10 DEF Dropping
        <5>2. QED
          BY <2>1, <3>1, <4>1, <5>1
      <4>3. todo[i] = req[r].todo[i]
        <5>1. i \in 1..i
          BY <1>9
        <5>2. QED
          BY <3>3, <4>1, <5>1
      <4>4. QED
        BY <1>13, <2>1, <4>1, <4>2, <4>3 DEF Drops
    <3>4. QED
      BY <3>2, <3>3
  <2>4. QED
    BY <2>2, <2>3
<1>15. ASSUME NEW l \in Posted, Needs(req[r].todo, <<"ahead", l, Nobody>>) PROVE FALSE
  <2>1. h \in Steps(req[r].todo)
    BY <1>9
  <2>2. QED
    BY <1>6, <1>7, <1>15, <2>1, AheadHead
<1>16. QED
  BY <1>13, <1>14, <1>15, StillRest

-----------------------------------------------------------------------------
(* Keys expire *)

LEMMA SameShaped ==
  ASSUME Shaped, Growth, UNCHANGED handlerVars, \A k \in Soft : Steady(k)
  PROVE  Shaped'
<1>1. /\ UNCHANGED <<req, mix, calls, faults, contended>>
  BY DEF handlerVars
<1>2. Proper' /\ Apart' /\ Counted'
  BY <1>1 DEF Shaped, Proper, Apart, Counted
<1>3. ASSUME NEW r \in Requests PROVE Fit(req[r].todo, req[r].about)' /\ Knows(r)'
  <2>1. PICK todo, got, about : todo = req[r].todo /\ got = req[r].got /\ about = req[r].about
    OBVIOUS
  <2>2. Fit(todo, about)'
    BY <2>1, FitStays DEF Shaped
  <2>3. Fit(req[r].todo, req[r].about)'
    BY <1>1, <2>1, <2>2
  <2>4. ASSUME NEW k \in Facts, Needs(todo, k) PROVE Known(r, k)'
    <3>1. (k \in Soft /\ k[2] \in contended) \/ Tells(got, about, k)
      BY <2>1, <2>4 DEF Shaped, Knows, Known
    <3>2. CASE k \in Soft /\ k[2] \in contended
      BY <1>1, <3>2, FactsStay DEF Known
    <3>3. CASE Tells(got, about, k)
      <4>1. Tells(got, about, k)'
        BY <3>3, TellsStays
      <4>2. QED
        BY <1>1, <2>1, <4>1 DEF Known
    <3>4. QED
      BY <3>1, <3>2, <3>3
  <2>5. \A k \in Facts : Needs(req'[r].todo, k) => Known(r, k)'
    BY <1>1, <2>1, <2>4
  <2>6. Knows(r)'
    BY <2>5, FactsStay DEF Knows, Needs, Uses, Gives
  <2>7. QED
    BY <2>3, <2>6
<1>4. QED
  BY <1>2, <1>3 DEF Shaped

\* Nothing changes but that keys are gone.
LEMMA LessCached ==
  ASSUME Inv, TablesStill, UNCHANGED handlerVars, \A k \in DOMAIN cache' : k \in DOMAIN cache /\ cache'[k] = cache[k]
  PROVE  Inv'
<1>1. Growth /\ \A k : Steady(k)
  BY TablesGrowth, TablesSteady
<1>2. Shaped'
  BY <1>1, SameShaped DEF Inv
<1>3. UNCHANGED <<req, mix, calls, faults, contended>>
  BY DEF handlerVars
<1>4. Posted' = Posted /\ Existing' = Existing /\ \A k : Current(k)' = Current(k)
  BY TablesSame
<1>5. TablesOK'
  BY <1>4 DEF Inv, TablesOK, TablesStill
<1>6. InterestInOthers'
  BY <1>4 DEF Inv, InterestInOthers, TablesStill, Rows, Owner
<1>7. OneSubscription'
  BY <1>3, <1>4 DEF Inv, OneSubscription, TablesStill
<1>8. Balanced'
  BY <1>3, <1>4 DEF Inv, Fresh, Balanced, TablesStill, Viewings, Needs, Uses, Gives
<1>9. Novel'
  BY <1>3, <1>4 DEF Inv, Fresh, Novel, TablesStill, Viewings
<1>10. Cached'
  BY CopiedSame, TablesSame DEF Inv, Cached
<1>11. CacheFresh'
  <2>1. ASSUME NEW k \in Copied, k \in DOMAIN cache'
        PROVE  Contended(k)' \/ cache'[k] = Current(k) \/ \E s \in Requests : Drops(s, k)'
    <3>1. Contended(k) \/ cache'[k] = Current(k) \/ \E s \in Requests : Drops(s, k)
      BY <2>1 DEF Inv, Fresh, CacheFresh
    <3>2. ASSUME NEW s \in Requests, Drops(s, k) PROVE Drops(s, k)'
      BY <1>3, <3>2 DEF Drops
    <3>3. Contended(k) => Contended(k)'
      BY <1>1, <1>3, ContendedStays
    <3>4. QED
      BY <3>1, <3>2, <3>3
  <2>2. QED
    BY <1>4, <2>1, CopiedSame DEF CacheFresh
<1>12. QED
  BY <1>2, <1>5, <1>6, <1>7, <1>8, <1>9, <1>10, <1>11 DEF Inv, Fresh

LEMMA ForgetInv == ASSUME Inv, Forget PROVE Inv'
<1>1. PICK c \in DOMAIN cache : cache' = Without(cache, {c}) /\ UNCHANGED handlerVars /\ TablesStill
  BY DEF Forget, Expire, TablesStill
<1>2. \A k \in DOMAIN cache' : k \in DOMAIN cache /\ cache'[k] = cache[k]
  BY <1>1, WithoutIs, WithoutKeeps
<1>3. QED
  BY <1>1, <1>2, LessCached

LEMMA StutterInv == ASSUME Inv, UNCHANGED vars PROVE Inv'
<1>1. TablesStill /\ UNCHANGED handlerVars /\ cache' = cache
  BY DEF vars, TablesStill, handlerVars
<1>2. QED
  BY <1>1, LessCached

\* The steps of getOrSet and of the invalidations.
LEMMA RedisInv == ASSUME Inv, TablesStill, NEW r \in Requests, RedisSteps(r) PROVE Inv'
<1>1. cache' = cache => Still
  BY DEF TablesStill, Still
<1>2. ~CachePut(r) /\ ~CachePeek(r)
  BY NoPut DEF Inv
<1>3. CASE CacheGet(r)
  BY <1>1, <1>3, CacheGetInv DEF CacheGet
<1>4. CASE CacheScan(r)
  BY <1>1, <1>4, CacheScanInv DEF CacheScan
<1>5. QED
  BY <1>2, <1>3, <1>4, CacheSetInv, CacheDeleteInv, CacheUnlinkInv DEF RedisSteps

-----------------------------------------------------------------------------
(* Steps on tables that no key copies *)

\* The last step of a handler.
LEMMA LastShaped ==
  ASSUME Shaped, Growth, NEW r \in Requests, req[r].todo # <<>>, NEW h, h = req[r].todo[1], h[1] \in Final,
         Continue(r) \/ Throw(r), Minding(r)
  PROVE  Shaped' /\ Elsewhere(r) /\ req'[r].todo = <<>> /\ UNCHANGED <<mix, calls, faults, contended>>
<1>1. CASE Throw(r)
  BY <1>1, ThrowShaped
<1>2. CASE Continue(r)
  <2>1. PICK got, A : got = req[r].got /\ A = req[r].about
    OBVIOUS
  <2>2. Tail(req[r].todo) = <<>>
    BY AtHand
  <2>3. Goes(r, <<>>, got) /\ Fit(<<>>, A)
    BY <1>2, <2>1, <2>2, FitNone DEF Continue
  <2>4. QED
    BY <2>1, <2>3, NeedsNothing, GoesShaped
<1>3. QED
  BY <1>1, <1>2

LEMMA NoDrops ==
  ASSUME Shaped, NEW r \in Requests, req[r].todo # <<>>, NEW h, h = req[r].todo[1], h[1] \notin Dropping
  PROVE  \A k : ~Drops(r, k)
<1>1. Program(req[r].todo)
  BY DEF Shaped, Fit
<1>2. ASSUME NEW i \in DOMAIN req[r].todo PROVE 1 \in 1..i
  BY <1>1 DEF Program
<1>3. QED
  BY <1>2 DEF Drops

\* The cache, and what it copies, is left alone.
LEMMA KeysRest ==
  ASSUME Inv, Growth, UNCHANGED <<cache, listing, plan>>, NEW r \in Requests, req[r].todo # <<>>,
         NEW h, h = req[r].todo[1], h[1] \notin Dropping, Elsewhere(r), contended \subseteq contended'
  PROVE  CacheFresh' /\ Cached'
<1>1. Posted' = Posted /\ Existing' = Existing
  BY DEF Posted, Existing
<1>2. \A k : Current(k)' = Current(k)
  BY <1>1 DEF Current, Search, Matches, MatchingPrices, ActivePlans
<1>3. \A k, v : ValueOK(k, v)' = ValueOK(k, v)
  BY <1>1 DEF ValueOK
<1>4. \A k : ~Drops(r, k)
  BY NoDrops DEF Inv
<1>5. ASSUME NEW k \in Copied, k \in DOMAIN cache
      PROVE  Contended(k)' \/ cache[k] = Current(k) \/ \E s \in Requests : Drops(s, k)'
  <2>1. Contended(k) \/ cache[k] = Current(k) \/ \E s \in Requests : Drops(s, k)
    BY <1>5 DEF Inv, Fresh, CacheFresh
  <2>2. Contended(k) => Contended(k)'
    BY ContendedStays
  <2>3. ASSUME NEW s \in Requests, Drops(s, k) PROVE Drops(s, k)'
    BY <1>4, <2>3 DEF Drops, Elsewhere
  <2>4. QED
    BY <2>1, <2>2, <2>3
<1>6. CacheFresh'
  BY <1>2, <1>5, CopiedSame DEF CacheFresh
<1>7. Cached'
  BY <1>3, CopiedSame DEF Inv, Cached
<1>8. QED
  BY <1>6, <1>7

\* The counters and the views are left alone.
LEMMA CountsRest ==
  ASSUME Inv, UNCHANGED <<listing, views>>, NEW r \in Requests, req[r].todo # <<>>,
         NEW h, h = req[r].todo[1], h[1] \notin {"delete", "insertView"}, Elsewhere(r), contended \subseteq contended'
  PROVE  Balanced' /\ Novel'
<1>1. Posted' = Posted /\ \A l : Viewings(l)' = Viewings(l)
  BY DEF Posted, Viewings
<1>2. ASSUME NEW l \in Posted
      PROVE  \/ l \in contended'
             \/ \E s \in Requests : Needs(req'[s].todo, <<"ahead", l, Nobody>>)
             \/ listing[l].views = Cardinality(Viewings(l))
  <2>1. ~Needs(req[r].todo, <<"ahead", l, Nobody>>)
    <3>1. Fit(req[r].todo, req[r].about) /\ Program(req[r].todo)
      BY DEF Inv, Shaped, Fit
    <3>2. h \in Steps(req[r].todo)
      BY <3>1, ProgramTail
    <3>3. QED
      BY <3>1, <3>2, AheadHead
  <2>2. ASSUME NEW s \in Requests, Needs(req[s].todo, <<"ahead", l, Nobody>>)
        PROVE  Needs(req'[s].todo, <<"ahead", l, Nobody>>)
    BY <2>1, <2>2 DEF Elsewhere
  <2>3. QED
    BY <1>2, <2>2 DEF Inv, Fresh, Balanced
<1>3. Balanced'
  BY <1>1, <1>2 DEF Balanced, Needs, Uses, Gives
<1>4. Novel'
  BY <1>1 DEF Inv, Fresh, Novel
<1>5. QED
  BY <1>3, <1>4

\* A fact of listings, pages and plans is as it was.
LEMMA CopiesSteady ==
  ASSUME UNCHANGED <<cache, listing, plan>>, NEW k, k[1] \notin {"favorite", "seen", "novel", "ahead", "alone"}
  PROVE  Steady(k)
<1>1. Posted' = Posted /\ Existing' = Existing
  BY DEF Posted, Existing
<1>2. \A f : Current(f)' = Current(f)
  BY <1>1 DEF Current, Search, Matches, MatchingPrices, ActivePlans
<1>3. QED
  BY <1>2 DEF Steady

-----------------------------------------------------------------------------
(* Subscriptions *)

LEMMA SubscriptionsMinding ==
  ASSUME Inv, UNCHANGED <<cache, listing, views, favorites, questions, plan>>, NEW k,
         k[1] = "alone" => (IsSubscribed(k[2], k[3])' => IsSubscribed(k[2], k[3]))
  PROVE  Steady(k)
<1>1. \A l, u : IsFavorite(l, u)' = IsFavorite(l, u) /\ Seen(l, u)' = Seen(l, u)
  BY DEF IsFavorite, Seen, Rows, Posted
<1>2. Rows(views)' = Rows(views) /\ \A l : Viewings(l)' = Viewings(l)
  BY DEF Rows, Viewings
<1>3. CASE k[1] \notin {"favorite", "seen", "novel", "ahead", "alone"}
  BY <1>3, CopiesSteady
<1>4. CASE k[1] \in {"favorite", "seen", "novel", "ahead", "alone"}
  BY <1>1, <1>2, <1>4 DEF Steady
<1>5. QED
  BY <1>3, <1>4

SubscriptionRow == [user: Landlords, plan: Plans, status: {"ACTIVE", "CANCELLED"}]

LEMMA SubscriptionsInv ==
  ASSUME Inv, UNCHANGED <<cache, listing, views, favorites, questions, plan>>, NEW r \in Requests,
         req[r].todo # <<>>, NEW h, h = req[r].todo[1], h[1] \in {"insertSubscription", "cancel"}, Continue(r),
         subscriptions' \in Seq(SubscriptionRow), DOMAIN subscriptions \subseteq DOMAIN subscriptions',
         \A k \in Soft : k[1] = "alone" =>
            k[2] \in req[r].about \/ (IsSubscribed(k[2], k[3])' => IsSubscribed(k[2], k[3])),
         \A i, j \in DOMAIN subscriptions' :
           i # j /\ subscriptions'[i].status = "ACTIVE" /\ subscriptions'[i].user \notin contended
             => subscriptions'[i] # subscriptions'[j]
  PROVE  Inv'
<1>0. Shaped /\ TablesOK /\ InterestInOthers /\ OneSubscription
  BY DEF Inv
<1>1. Posted' = Posted /\ Existing' = Existing /\ \A l \in Posted : listing[l].owner \in Users
  BY <1>0, PostedTyped DEF Posted, Existing
<1>2. Growth
  BY <1>1 DEF Growth
<1>3. Minding(r)
  BY SubscriptionsMinding DEF Minding
<1>4. h[1] \in Final /\ h[1] \notin Dropping /\ h[1] \notin {"delete", "insertView"}
  BY DEF Final, Dropping
<1>5. Shaped' /\ Elsewhere(r) /\ UNCHANGED <<mix, calls, faults, contended>>
  BY <1>0, <1>2, <1>3, <1>4, LastShaped
<1>6. TablesOK'
  BY <1>0, <1>1 DEF TablesOK, SubscriptionRow
<1>7. InterestInOthers'
  BY <1>0, <1>1 DEF InterestInOthers, Rows, Owner
<1>8. OneSubscription'
  BY <1>0, <1>1, <1>5 DEF OneSubscription
<1>9. CacheFresh' /\ Cached' /\ Balanced' /\ Novel'
  BY <1>2, <1>4, <1>5, KeysRest, CountsRest
<1>10. QED
  BY <1>5, <1>6, <1>7, <1>8, <1>9 DEF Inv, Fresh

LEMMA InsertSubscriptionInv ==
  ASSUME Inv, UNCHANGED <<listing, views, favorites, questions>>, NEW r \in Requests, InsertSubscription(r)
  PROVE  Inv'
<1>1. PICK h : h = req[r].todo[1]
  OBVIOUS
<1>2. PICK u, p, s, A : u = h[2] /\ p = h[3] /\ s = Subscription(h[2], h[3]) /\ A = req[r].about
  OBVIOUS
<1>3. /\ req[r].todo # <<>> /\ h[1] = "insertSubscription" /\ subscriptions' = Append(subscriptions, s) /\ Continue(r)
      /\ UNCHANGED <<cache, plan>>
  BY <1>1, <1>2, Arguments DEF InsertSubscription
<1>4. /\ StepOK(h) /\ Minds(h, A) /\ \A k \in Facts : Uses(h, k) => Known(r, k)
  BY <1>1, <1>2, <1>3, AtHand DEF Inv
<1>5. u \in Buyers /\ p \in Plans /\ u \in A
  BY <1>2, <1>3, <1>4 DEF StepOK, Minds
<1>6. u \in Landlords /\ (u \in contended \/ ~IsSubscribed(u, p))
  <2>1. PICK f, g : f = <<"landlord", u, Nobody>> /\ g = <<"alone", u, p>>
    OBVIOUS
  <2>2. f \in Facts /\ f \notin Soft /\ g \in Facts /\ f[1] = "landlord" /\ f[2] = u /\ g[1] = "alone" /\ g[2] = u /\ g[3] = p
    <3>1. f \in Facts /\ g \in Facts
      BY <1>5, <2>1 DEF Facts, Soft, Hard
    <3>2. f \notin Soft
      BY <2>1, SoftKinds
    <3>3. QED
      BY <2>1, <3>1, <3>2
  <2>3. Uses(h, f) /\ Uses(h, g)
    BY <1>2, <1>3, <2>1 DEF Uses
  <2>4. Known(r, f) /\ Known(r, g)
    BY <1>4, <2>2, <2>3
  <2>5. QED
    BY <2>2, <2>4 DEF Known, Tells
<1>7. s \in SubscriptionRow /\ s.user = u /\ s.plan = p /\ s.status = "ACTIVE"
  BY <1>2, <1>5, <1>6 DEF Subscription, SubscriptionRow
<1>8. subscriptions \in Seq(SubscriptionRow)
  BY DEF Inv, TablesOK, SubscriptionRow
<1>9. PICK n : n = Len(subscriptions) + 1
  OBVIOUS
<1>10. /\ subscriptions' \in Seq(SubscriptionRow) /\ DOMAIN subscriptions' = DOMAIN subscriptions \cup {n}
       /\ n \notin DOMAIN subscriptions /\ subscriptions'[n] = s
       /\ \A i \in DOMAIN subscriptions : subscriptions'[i] = subscriptions[i]
  BY <1>3, <1>7, <1>8, <1>9, RowAdded
<1>11. ASSUME NEW k \in Soft, k[1] = "alone"
       PROVE  k[2] \in req[r].about \/ (IsSubscribed(k[2], k[3])' => IsSubscribed(k[2], k[3]))
  <2>1. CASE k[2] = u
    BY <1>2, <1>5, <2>1
  <2>2. ASSUME k[2] # u, IsSubscribed(k[2], k[3])' PROVE IsSubscribed(k[2], k[3])
    <3>1. PICK i \in DOMAIN subscriptions' : subscriptions'[i] = Subscription(k[2], k[3])
      BY <2>2 DEF IsSubscribed
    <3>2. subscriptions'[i].user = k[2]
      BY <3>1 DEF Subscription
    <3>3. QED
      BY <1>7, <1>10, <2>2, <3>1, <3>2 DEF IsSubscribed
  <2>3. QED
    BY <2>1, <2>2
<1>12. ASSUME NEW i \in DOMAIN subscriptions', NEW j \in DOMAIN subscriptions', i # j,
              subscriptions'[i].status = "ACTIVE", subscriptions'[i].user \notin contended
       PROVE  subscriptions'[i] # subscriptions'[j]
  <2>1. CASE i # n /\ j # n
    BY <1>10, <1>12, <2>1 DEF Inv, OneSubscription
  <2>2. ASSUME subscriptions'[i] = subscriptions'[j], i = n \/ j = n PROVE FALSE
    <3>1. PICK m \in DOMAIN subscriptions : subscriptions[m] = s
      BY <1>10, <1>12, <2>2
    <3>2. IsSubscribed(u, p)
      BY <1>2, <3>1 DEF IsSubscribed
    <3>3. u \notin contended
      BY <1>7, <1>10, <1>12, <2>2
    <3>4. QED
      BY <1>6, <3>2, <3>3
  <2>3. QED
    BY <2>1, <2>2
<1>13. QED
  BY <1>1, <1>3, <1>10, <1>11, <1>12, SubscriptionsInv

LEMMA CancelSubscriptionInv ==
  ASSUME Inv, UNCHANGED <<listing, views, favorites, questions>>, NEW r \in Requests, CancelSubscription(r)
  PROVE  Inv'
<1>1. PICK h : h = req[r].todo[1]
  OBVIOUS
<1>2. PICK n : n = h[2]
  OBVIOUS
<1>3. /\ req[r].todo # <<>> /\ h[1] = "cancel" /\ Continue(r) /\ UNCHANGED <<cache, plan>>
      /\ subscriptions' = [subscriptions EXCEPT ![n].status = "CANCELLED"]
  <2>1. /\ At(r, "cancel") /\ Continue(r) /\ UNCHANGED <<cache, plan>>
        /\ subscriptions' = [subscriptions EXCEPT ![Arg(r, 1)].status = "CANCELLED"]
    BY Zenon DEF CancelSubscription
  <2>2. n = Arg(r, 1) /\ h[1] = "cancel" /\ req[r].todo # <<>>
    BY <1>1, <1>2, <2>1, Arguments
  <2>3. QED
    BY Zenon, <2>1, <2>2
<1>4. subscriptions \in Seq(SubscriptionRow)
  BY DEF Inv, TablesOK, SubscriptionRow
<1>5. /\ DOMAIN subscriptions' = DOMAIN subscriptions
      /\ \A i \in DOMAIN subscriptions :
           subscriptions'[i] = IF i = n THEN [subscriptions[i] EXCEPT !.status = "CANCELLED"] ELSE subscriptions[i]
      /\ subscriptions' = [i \in DOMAIN subscriptions |-> subscriptions'[i]]
  BY <1>3
<1>6. \A i \in DOMAIN subscriptions : subscriptions[i] \in SubscriptionRow
  BY <1>4, ElementOfSeq
<1>7. \A i \in DOMAIN subscriptions :
        /\ subscriptions'[i] \in SubscriptionRow
        /\ i = n => subscriptions'[i].status = "CANCELLED"
        /\ i # n => subscriptions'[i] = subscriptions[i]
  BY <1>5, <1>6 DEF SubscriptionRow
<1>8. subscriptions' \in Seq(SubscriptionRow)
  BY <1>4, <1>5, <1>7, RowsChange
<1>9. ASSUME NEW k \in Soft, IsSubscribed(k[2], k[3])' PROVE IsSubscribed(k[2], k[3])
  <2>1. PICK i \in DOMAIN subscriptions' : subscriptions'[i] = Subscription(k[2], k[3])
    BY <1>9 DEF IsSubscribed
  <2>2. subscriptions'[i].status = "ACTIVE"
    BY <2>1 DEF Subscription
  <2>3. i # n
    BY <1>5, <1>7, <2>2
  <2>4. QED
    BY <1>5, <1>7, <2>1, <2>3 DEF IsSubscribed
<1>10. ASSUME NEW i \in DOMAIN subscriptions', NEW j \in DOMAIN subscriptions', i # j,
              subscriptions'[i].status = "ACTIVE", subscriptions'[i].user \notin contended
       PROVE  subscriptions'[i] # subscriptions'[j]
  <2>1. i # n
    BY <1>5, <1>7, <1>10
  <2>2. CASE j = n
    BY <1>5, <1>7, <1>10, <2>2
  <2>3. CASE j # n
    BY <1>5, <1>7, <1>10, <2>1, <2>3 DEF Inv, OneSubscription
  <2>4. QED
    BY <2>2, <2>3
<1>11. QED
  BY <1>1, <1>3, <1>5, <1>8, <1>9, <1>10, SubscriptionsInv

-----------------------------------------------------------------------------
(* Favorites and questions *)

FavoriteRow == [listing: Listings, user: Users, removed: BOOLEAN]
QuestionRow == [listing: Listings, from: Users, to: Users, answered: BOOLEAN]

LEMMA InterestSteady ==
  ASSUME UNCHANGED <<cache, listing, views, plan, subscriptions>>, NEW k,
         k[1] \in {"favorite", "seen"} => IsFavorite(k[2], k[3])' = IsFavorite(k[2], k[3])
  PROVE  Steady(k)
<1>1. CASE k[1] \notin {"favorite", "seen", "novel", "ahead", "alone"}
  BY <1>1, CopiesSteady
<1>2. CASE k[1] = "favorite"
  BY <1>2 DEF Steady
<1>3. CASE k[1] = "seen"
  <2>1. Seen(k[2], k[3])' = Seen(k[2], k[3])
    BY <1>3 DEF Seen, Posted
  <2>2. QED
    BY <1>3, <2>1 DEF Steady
<1>4. CASE k[1] \in {"novel", "ahead", "alone"}
  <2>1. Rows(views)' = Rows(views) /\ \A l : Viewings(l)' = Viewings(l)
    BY DEF Rows, Viewings
  <2>2. \A u, p : IsSubscribed(u, p)' = IsSubscribed(u, p)
    BY DEF IsSubscribed
  <2>3. QED
    BY <1>4, <2>1, <2>2 DEF Steady
<1>5. QED
  BY <1>1, <1>2, <1>3, <1>4

LEMMA InterestInv ==
  ASSUME Inv, UNCHANGED <<cache, listing, views, plan, subscriptions>>, NEW r \in Requests,
         req[r].todo # <<>>, NEW h, h = req[r].todo[1],
         h[1] \in {"insertFavorite", "removeFavorite", "ask", "answer"}, Continue(r),
         favorites' \in Seq(FavoriteRow), questions' \in Seq(QuestionRow),
         DOMAIN questions \subseteq DOMAIN questions', DOMAIN favorites \subseteq DOMAIN favorites',
         \A i \in DOMAIN favorites : favorites'[i].listing = favorites[i].listing,
         \A l, u : l \in req[r].about \/ IsFavorite(l, u)' = IsFavorite(l, u),
         \A i \in DOMAIN favorites' : favorites'[i].listing \in Posted, InterestInOthers'
  PROVE  Inv'
<1>0. Shaped /\ TablesOK /\ OneSubscription
  BY DEF Inv
<1>1. Posted' = Posted /\ Existing' = Existing /\ \A l \in Posted : listing[l].owner \in Users
  BY <1>0, PostedTyped DEF Posted, Existing
<1>2. Growth
  BY <1>1 DEF Growth
<1>3. Minding(r)
  BY InterestSteady DEF Minding
<1>4. h[1] \in Final /\ h[1] \notin Dropping /\ h[1] \notin {"delete", "insertView"}
  BY DEF Final, Dropping
<1>5. Shaped' /\ Elsewhere(r) /\ UNCHANGED <<mix, calls, faults, contended>>
  BY <1>0, <1>2, <1>3, <1>4, LastShaped
<1>6. TablesOK'
  BY <1>0, <1>1 DEF TablesOK, FavoriteRow, QuestionRow
<1>7. OneSubscription'
  BY <1>0, <1>1, <1>5 DEF OneSubscription
<1>8. CacheFresh' /\ Cached' /\ Balanced' /\ Novel'
  BY <1>2, <1>4, <1>5, KeysRest, CountsRest
<1>9. QED
  BY <1>5, <1>6, <1>7, <1>8 DEF Inv, Fresh

LEMMA InsertFavoriteInv ==
  ASSUME Inv, UNCHANGED <<plan, subscriptions>>, NEW r \in Requests, InsertFavorite(r)
  PROVE  Inv'
<1>1. PICK h, l, u, A : h = req[r].todo[1] /\ l = h[2] /\ u = h[3] /\ A = req[r].about
  OBVIOUS
<1>2. /\ req[r].todo # <<>> /\ h[1] = "insertFavorite" /\ UNCHANGED <<cache, listing, views, questions>>
      /\ \/ Throw(r) /\ UNCHANGED favorites
         \/ ~IsFavorite(l, u) /\ Continue(r) /\ favorites' = Append(favorites, Favorite(l, u))
  BY <1>1, Arguments DEF InsertFavorite
<1>3. CASE Throw(r) /\ UNCHANGED favorites
  <2>1. Still /\ h[1] \notin Dropping \cup {"insertView"}
    BY <1>2, <1>3 DEF Still, Dropping
  <2>2. QED
    BY <1>1, <1>2, <1>3, <2>1, QuietThrow
<1>4. CASE ~IsFavorite(l, u) /\ Continue(r) /\ favorites' = Append(favorites, Favorite(l, u))
  <2>1. /\ StepOK(h) /\ Minds(h, A) /\ \A k \in Facts : Uses(h, k) => Known(r, k)
    BY <1>1, <1>2, AtHand DEF Inv
  <2>2. l \in Listings /\ u \in Users /\ l \in A
    BY <1>1, <1>2, <2>1 DEF StepOK, Minds
  <2>3. l \in Posted /\ listing[l].owner # u
    <3>1. PICK f : f = <<"notOwner", l, u>>
      OBVIOUS
    <3>2. f \in Facts /\ f \notin Soft /\ f[1] = "notOwner" /\ f[2] = l /\ f[3] = u
      <4>1. f \in Facts
        BY <2>2, <3>1 DEF Facts, Hard
      <4>2. f \notin Soft
        BY <3>1, SoftKinds
      <4>3. QED
        BY <3>1, <4>1, <4>2
    <3>3. Uses(h, f)
      BY <1>1, <1>2, <3>1 DEF Uses
    <3>4. Known(r, f)
      BY <2>1, <3>2, <3>3
    <3>5. QED
      BY <3>2, <3>4 DEF Known, Tells
  <2>4. PICK row : row = Favorite(l, u)
    OBVIOUS
  <2>5. row \in FavoriteRow /\ row.listing = l /\ row.user = u /\ ~row.removed
    BY <2>2, <2>4 DEF Favorite, FavoriteRow
  <2>6. favorites \in Seq(FavoriteRow) /\ questions \in Seq(QuestionRow)
    BY DEF Inv, TablesOK, FavoriteRow, QuestionRow
  <2>7. PICK n : n = Len(favorites) + 1
    OBVIOUS
  <2>8. /\ favorites' \in Seq(FavoriteRow) /\ DOMAIN favorites' = DOMAIN favorites \cup {n}
        /\ n \notin DOMAIN favorites /\ favorites'[n] = row
        /\ \A i \in DOMAIN favorites : favorites'[i] = favorites[i]
    BY <1>4, <2>4, <2>5, <2>6, <2>7, RowAdded
  <2>9. ASSUME NEW m, NEW w, m \notin A PROVE IsFavorite(m, w)' = IsFavorite(m, w)
    <3>1. Favorite(m, w) # row
      BY <2>2, <2>5, <2>9 DEF Favorite
    <3>2. Favorite(m, w)' = Favorite(m, w)
      BY DEF Favorite
    <3>3. QED
      BY <2>8, <3>1, <3>2 DEF IsFavorite, Rows
  <2>10. \A i \in DOMAIN favorites : favorites[i] # row
    BY <1>4, <2>4 DEF IsFavorite, Rows
  <2>11. Owner(l)' = Owner(l) /\ \A m : Owner(m)' = Owner(m)
    BY <1>2 DEF Owner, Posted
  <2>12. InterestInOthers'
    <3>0. InterestInOthers
      BY DEF Inv
    <3>1. ASSUME NEW i \in DOMAIN favorites', NEW j \in DOMAIN favorites', i # j, favorites'[i] = favorites'[j]
          PROVE  favorites'[i].removed
      <4>1. i # n /\ j # n
        BY <2>8, <2>10, <3>1
      <4>2. QED
        BY <2>8, <3>0, <3>1, <4>1 DEF InterestInOthers
    <3>2. ASSUME NEW i \in DOMAIN favorites' PROVE listing[favorites'[i].listing].owner # favorites'[i].user
      <4>1. CASE i = n
        BY <2>3, <2>5, <2>8, <4>1
      <4>2. CASE i # n
        BY <2>8, <3>0, <3>2, <4>2 DEF InterestInOthers, Rows
      <4>3. QED
        BY <4>1, <4>2
    <3>3. \A q \in Rows(questions) : q.to \in Owner(q.listing) /\ q.from # q.to
      BY <3>0 DEF InterestInOthers
    <3>4. Rows(questions)' = Rows(questions)
      BY <1>2 DEF Rows
    <3>5. QED
      BY <1>2, <2>11, <3>1, <3>2, <3>3, <3>4 DEF InterestInOthers, Rows
  <2>13. h[1] \in {"insertFavorite", "removeFavorite", "ask", "answer"}
    BY <1>2
  <2>14. questions' \in Seq(QuestionRow) /\ DOMAIN questions \subseteq DOMAIN questions'
    BY <1>2, <2>6
  <2>15. /\ DOMAIN favorites \subseteq DOMAIN favorites'
         /\ \A i \in DOMAIN favorites : favorites'[i].listing = favorites[i].listing
    BY <2>8
  <2>16. \A m, w : m \in req[r].about \/ IsFavorite(m, w)' = IsFavorite(m, w)
    BY <1>1, <2>9
  <2>17. \A i \in DOMAIN favorites' : favorites'[i].listing \in Posted
    BY <2>3, <2>5, <2>8 DEF Inv, TablesOK
  <2>18. QED
    BY <1>1, <1>2, <1>4, <2>8, <2>12, <2>13, <2>14, <2>15, <2>16, <2>17, InterestInv
<1>5. QED
  BY <1>2, <1>3, <1>4

LEMMA DeleteFavoriteInv ==
  ASSUME Inv, UNCHANGED <<plan, subscriptions>>, NEW r \in Requests, DeleteFavorite(r)
  PROVE  Inv'
<1>1. PICK h, n, A : h = req[r].todo[1] /\ n = Got(r, "row") /\ A = req[r].about
  OBVIOUS
<1>2. /\ req[r].todo # <<>> /\ h[1] = "removeFavorite" /\ UNCHANGED <<cache, listing, views, questions>>
      /\ Continue(r) /\ favorites' = [favorites EXCEPT ![n].removed = TRUE]
  <2>1. /\ At(r, "removeFavorite") /\ UNCHANGED <<cache, listing, views, questions>>
        /\ Continue(r) /\ favorites' = [favorites EXCEPT ![Got(r, "row")].removed = TRUE]
    BY Zenon DEF DeleteFavorite
  <2>2. h[1] = "removeFavorite" /\ req[r].todo # <<>>
    BY <1>1, <2>1, Arguments
  <2>3. QED
    BY Zenon, <1>1, <2>1, <2>2
<1>3. n \in DOMAIN favorites /\ favorites[n].listing \in A
  <2>1. PICK f : f = <<"row", Nobody, Nobody>>
    OBVIOUS
  <2>2. f \in Facts /\ f \notin Soft /\ f[1] = "row"
    <3>1. f \in Facts
      BY <2>1 DEF Facts, Hard
    <3>2. f \notin Soft
      BY <2>1, SoftKinds
    <3>3. QED
      BY <2>1, <3>1, <3>2
  <2>3. Uses(h, f)
    BY <1>2, <2>1 DEF Uses
  <2>4. Known(r, f)
    BY <1>1, <1>2, <2>2, <2>3, AtHand DEF Inv
  <2>5. QED
    BY <1>1, <2>2, <2>4 DEF Known, Tells, Got
<1>4. favorites \in Seq(FavoriteRow) /\ questions \in Seq(QuestionRow)
  BY DEF Inv, TablesOK, FavoriteRow, QuestionRow
<1>5. \A i \in DOMAIN favorites : favorites[i] \in FavoriteRow
  BY <1>4, ElementOfSeq
<1>6. /\ DOMAIN favorites' = DOMAIN favorites
      /\ favorites' = [i \in DOMAIN favorites |-> favorites'[i]]
      /\ \A i \in DOMAIN favorites :
           /\ favorites'[i] \in FavoriteRow
           /\ favorites'[i].listing = favorites[i].listing /\ favorites'[i].user = favorites[i].user
           /\ i = n => favorites'[i].removed
           /\ i # n => favorites'[i] = favorites[i]
  BY <1>2, <1>5 DEF FavoriteRow
<1>7. favorites' \in Seq(FavoriteRow)
  BY <1>4, <1>6, RowsChange
<1>8. ASSUME NEW m, NEW w, m \notin A PROVE IsFavorite(m, w)' = IsFavorite(m, w)
  <2>1. favorites[n] # Favorite(m, w) /\ favorites'[n] # Favorite(m, w)
    BY <1>3, <1>6, <1>8 DEF Favorite
  <2>2. Favorite(m, w)' = Favorite(m, w)
    BY DEF Favorite
  <2>3. QED
    BY <1>3, <1>6, <2>1, <2>2 DEF IsFavorite, Rows
<1>9. \A m : Owner(m)' = Owner(m)
  BY <1>2 DEF Owner, Posted
<1>10. InterestInOthers'
  <2>0. InterestInOthers
    BY DEF Inv
  <2>1. ASSUME NEW i \in DOMAIN favorites', NEW j \in DOMAIN favorites', i # j, favorites'[i] = favorites'[j]
        PROVE  favorites'[i].removed
    <3>1. CASE i # n /\ j # n
      BY <1>6, <2>0, <2>1, <3>1 DEF InterestInOthers
    <3>2. CASE i = n \/ j = n
      BY <1>6, <2>1, <3>2
    <3>3. QED
      BY <3>1, <3>2
  <2>2. ASSUME NEW i \in DOMAIN favorites' PROVE listing[favorites'[i].listing].owner # favorites'[i].user
    <3>1. listing[favorites[i].listing].owner # favorites[i].user
      BY <1>6, <2>0, <2>2 DEF InterestInOthers, Rows
    <3>2. QED
      BY <1>6, <2>2, <3>1
  <2>3. \A q \in Rows(questions) : q.to \in Owner(q.listing) /\ q.from # q.to
    BY <2>0 DEF InterestInOthers
  <2>4. Rows(questions)' = Rows(questions)
    BY <1>2 DEF Rows
  <2>5. QED
    BY <1>2, <1>9, <2>1, <2>2, <2>3, <2>4 DEF InterestInOthers, Rows
<1>11. questions' \in Seq(QuestionRow) /\ DOMAIN questions \subseteq DOMAIN questions'
  BY <1>2, <1>4
<1>12. /\ DOMAIN favorites \subseteq DOMAIN favorites'
       /\ \A i \in DOMAIN favorites : favorites'[i].listing = favorites[i].listing
  BY <1>6
<1>13. \A m, w : m \in req[r].about \/ IsFavorite(m, w)' = IsFavorite(m, w)
  BY <1>1, <1>8
<1>14. h[1] \in {"insertFavorite", "removeFavorite", "ask", "answer"}
  BY <1>2
<1>15. \A i \in DOMAIN favorites' : favorites'[i].listing \in Posted
  BY <1>6 DEF Inv, TablesOK
<1>16. QED
  BY <1>1, <1>2, <1>7, <1>10, <1>11, <1>12, <1>13, <1>14, <1>15, InterestInv

\* A question goes to the owner of the listing that was read.
LEMMA AskOwnerInv ==
  ASSUME Inv, UNCHANGED <<plan, subscriptions>>, NEW r \in Requests, AskOwner(r)
  PROVE  Inv'
<1>1. PICK h, l, u, row : h = req[r].todo[1] /\ l = h[2] /\ u = h[3] /\ row = Got(r, "listing")
  OBVIOUS
<1>2. /\ req[r].todo # <<>> /\ h[1] = "ask" /\ UNCHANGED <<cache, listing, views, favorites>>
      /\ \/ Throw(r) /\ UNCHANGED questions
         \/ u # row.owner /\ Continue(r) /\ questions' = Append(questions, Question(l, u, row.owner))
  BY <1>1, Arguments DEF AskOwner
<1>3. CASE Throw(r) /\ UNCHANGED questions
  <2>1. Still /\ h[1] \notin Dropping \cup {"insertView"}
    BY <1>2, <1>3 DEF Still, Dropping
  <2>2. QED
    BY <1>1, <1>2, <1>3, <2>1, QuietThrow
<1>4. CASE u # row.owner /\ Continue(r) /\ questions' = Append(questions, Question(l, u, row.owner))
  <2>1. StepOK(h)
    BY <1>1, <1>2, AtHand DEF Inv
  <2>2. h[1] \in Listing
    BY <1>2 DEF Listing
  <2>3. l \in Listings /\ l \in Posted /\ row.owner = listing[l].owner /\ listing[l].owner \in Users
    BY <1>1, <1>2, <2>2, RowAtHand
  <2>4. u \in Users
    BY <1>1, <1>2, <2>1 DEF StepOK
  <2>5. PICK q : q = Question(l, u, row.owner)
    OBVIOUS
  <2>6. q \in QuestionRow /\ q.listing = l /\ q.from = u /\ q.to = row.owner
    BY <2>3, <2>4, <2>5 DEF Question, QuestionRow
  <2>7. favorites \in Seq(FavoriteRow) /\ questions \in Seq(QuestionRow)
    BY DEF Inv, TablesOK, FavoriteRow, QuestionRow
  <2>8. PICK n : n = Len(questions) + 1
    OBVIOUS
  <2>9. /\ questions' \in Seq(QuestionRow) /\ DOMAIN questions' = DOMAIN questions \cup {n}
        /\ n \notin DOMAIN questions /\ questions'[n] = q
        /\ \A i \in DOMAIN questions : questions'[i] = questions[i]
    BY <1>4, <2>5, <2>6, <2>7, <2>8, RowAdded
  <2>10. \A m : Owner(m)' = Owner(m)
    BY <1>2 DEF Owner, Posted
  <2>11. Rows(favorites)' = Rows(favorites) /\ \A m, w : IsFavorite(m, w)' = IsFavorite(m, w)
    BY <1>2 DEF Rows, IsFavorite
  <2>12. InterestInOthers'
    <3>0. InterestInOthers
      BY DEF Inv
    <3>1. ASSUME NEW i \in DOMAIN questions'
          PROVE  questions'[i].to \in Owner(questions'[i].listing) /\ questions'[i].from # questions'[i].to
      <4>1. CASE i = n
        BY <1>4, <2>3, <2>6, <2>9, <4>1 DEF Owner
      <4>2. CASE i # n
        BY <2>9, <3>0, <3>1, <4>2 DEF InterestInOthers, Rows
      <4>3. QED
        BY <4>1, <4>2
    <3>2. QED
      BY <1>2, <2>10, <2>11, <3>0, <3>1 DEF InterestInOthers, Rows
  <2>13. /\ DOMAIN questions \subseteq DOMAIN questions' /\ DOMAIN favorites \subseteq DOMAIN favorites'
         /\ \A i \in DOMAIN favorites : favorites'[i].listing = favorites[i].listing
         /\ favorites' \in Seq(FavoriteRow) /\ \A i \in DOMAIN favorites' : favorites'[i].listing \in Posted
    BY <1>2, <2>7, <2>9 DEF Inv, TablesOK
  <2>14. h[1] \in {"insertFavorite", "removeFavorite", "ask", "answer"}
    BY <1>2
  <2>15. QED
    BY <1>1, <1>2, <1>4, <2>9, <2>11, <2>12, <2>13, <2>14, InterestInv
<1>5. QED
  BY <1>2, <1>3, <1>4

LEMMA SaveAnswerInv ==
  ASSUME Inv, UNCHANGED <<plan, subscriptions>>, NEW r \in Requests, SaveAnswer(r)
  PROVE  Inv'
<1>1. PICK h, n : h = req[r].todo[1] /\ n = h[2]
  OBVIOUS
<1>2. /\ req[r].todo # <<>> /\ h[1] = "answer" /\ UNCHANGED <<cache, listing, views, favorites>>
      /\ Continue(r) /\ questions' = [questions EXCEPT ![n].answered = TRUE]
  <2>1. /\ At(r, "answer") /\ UNCHANGED <<cache, listing, views, favorites>>
        /\ Continue(r) /\ questions' = [questions EXCEPT ![Arg(r, 1)].answered = TRUE]
    BY Zenon DEF SaveAnswer
  <2>2. h[1] = "answer" /\ req[r].todo # <<>> /\ n = Arg(r, 1)
    BY <1>1, <2>1, Arguments
  <2>3. QED
    BY Zenon, <2>1, <2>2
<1>3. favorites \in Seq(FavoriteRow) /\ questions \in Seq(QuestionRow)
  BY DEF Inv, TablesOK, FavoriteRow, QuestionRow
<1>4. \A i \in DOMAIN questions : questions[i] \in QuestionRow
  BY <1>3, ElementOfSeq
<1>5. /\ DOMAIN questions' = DOMAIN questions /\ questions' = [i \in DOMAIN questions |-> questions'[i]]
      /\ \A i \in DOMAIN questions :
           /\ questions'[i] \in QuestionRow /\ questions'[i].listing = questions[i].listing
           /\ questions'[i].from = questions[i].from /\ questions'[i].to = questions[i].to
  BY <1>2, <1>4 DEF QuestionRow
<1>6. questions' \in Seq(QuestionRow)
  BY <1>3, <1>5, RowsChange
<1>7. \A m : Owner(m)' = Owner(m)
  BY <1>2 DEF Owner, Posted
<1>8. Rows(favorites)' = Rows(favorites) /\ \A m, w : IsFavorite(m, w)' = IsFavorite(m, w)
  BY <1>2 DEF Rows, IsFavorite
<1>9. InterestInOthers'
  <2>0. InterestInOthers
    BY DEF Inv
  <2>1. \A i \in DOMAIN questions' :
          questions'[i].to \in Owner(questions'[i].listing) /\ questions'[i].from # questions'[i].to
    BY <1>5, <2>0 DEF InterestInOthers, Rows
  <2>2. QED
    BY <1>2, <1>7, <1>8, <2>0, <2>1 DEF InterestInOthers, Rows
<1>10. /\ DOMAIN questions \subseteq DOMAIN questions' /\ DOMAIN favorites \subseteq DOMAIN favorites'
       /\ \A i \in DOMAIN favorites : favorites'[i].listing = favorites[i].listing
       /\ favorites' \in Seq(FavoriteRow) /\ \A i \in DOMAIN favorites' : favorites'[i].listing \in Posted
  BY <1>2, <1>3, <1>5 DEF Inv, TablesOK
<1>11. h[1] \in {"insertFavorite", "removeFavorite", "ask", "answer"}
  BY <1>2
<1>12. QED
  BY <1>1, <1>2, <1>6, <1>8, <1>9, <1>10, <1>11, InterestInv

-----------------------------------------------------------------------------
(* Views *)

\* The rows of the history of a listing are finitely many.
LEMMA ViewingsFinite ==
  ASSUME NEW S, views \in Seq(S), NEW l
  PROVE  IsFiniteSet(Viewings(l)) /\ Viewings(l) \subseteq DOMAIN views
<1>1. Len(views) \in Nat /\ DOMAIN views = 1..Len(views)
  OBVIOUS
<1>2. IsFiniteSet(1..Len(views))
  BY <1>1, FS_Interval
<1>3. Viewings(l) \subseteq DOMAIN views
  BY DEF Viewings
<1>4. QED
  BY <1>1, <1>2, <1>3, FS_Subset

LEMMA InsertViewInv ==
  ASSUME Inv, UNCHANGED <<plan, subscriptions>>, NEW r \in Requests, InsertView(r)
  PROVE  Inv'
<1>0. Shaped /\ TablesOK /\ InterestInOthers /\ OneSubscription /\ Balanced /\ Novel
  BY DEF Inv, Fresh
<1>1. PICK h, l, u, A : h = req[r].todo[1] /\ l = h[2] /\ u = h[3] /\ A = req[r].about
  OBVIOUS
<1>2. /\ req[r].todo # <<>> /\ h[1] = "insertView" /\ Continue(r)
      /\ UNCHANGED <<cache, listing, favorites, questions>> /\ views' = Append(views, <<l, u>>)
  BY <1>1, Arguments DEF InsertView
<1>3. /\ StepOK(h) /\ Minds(h, A) /\ \A k \in Facts : Uses(h, k) => Known(r, k)
  BY <1>0, <1>1, <1>2, AtHand
<1>4. l \in Listings /\ u \in Users /\ l \in A /\ l \in Posted
  <2>1. h[1] \in Listing
    BY <1>2 DEF Listing
  <2>2. l \in Listings /\ l \in A /\ l \in Posted
    BY <1>1, <1>2, <2>1, RowAtHand
  <2>3. u \in Users
    BY <1>1, <1>2, <1>3 DEF StepOK
  <2>4. QED
    BY <2>2, <2>3
<1>5. \/ l \in contended
      \/ /\ <<l, u>> \notin Rows(views)
         /\ listing[l].views = Cardinality(Viewings(l)) + 1
  <2>1. PICK f, g : f = <<"novel", l, u>> /\ g = <<"ahead", l, Nobody>>
    OBVIOUS
  <2>2. f \in Facts /\ g \in Facts /\ f[1] = "novel" /\ f[2] = l /\ f[3] = u /\ g[1] = "ahead" /\ g[2] = l
    BY <1>4, <2>1 DEF Facts, Soft
  <2>3. Uses(h, f) /\ Uses(h, g)
    BY <1>1, <1>2, <2>1 DEF Uses
  <2>4. Known(r, f) /\ Known(r, g)
    BY <1>3, <2>2, <2>3
  <2>5. QED
    BY <2>2, <2>4 DEF Known, Tells
<1>6. PICK n : n = Len(views) + 1
  OBVIOUS
<1>7. /\ views' \in Seq(Listings \X Users) /\ DOMAIN views' = DOMAIN views \cup {n}
      /\ n \notin DOMAIN views /\ views'[n] = <<l, u>> /\ \A i \in DOMAIN views : views'[i] = views[i]
  <2>1. <<l, u>> \in Listings \X Users /\ views \in Seq(Listings \X Users)
    BY <1>0, <1>4 DEF TablesOK
  <2>2. QED
    BY <1>2, <1>6, <2>1, RowAdded
<1>8. Posted' = Posted /\ Existing' = Existing /\ \A m \in Posted : listing[m].owner \in Users
  BY <1>0, <1>2, PostedTyped DEF Posted, Existing
<1>9. Growth
  BY <1>2, <1>8 DEF Growth
<1>10. Viewings(l)' = Viewings(l) \cup {n} /\ \A m : m # l => Viewings(m)' = Viewings(m)
  BY <1>7 DEF Viewings
<1>11. Minding(r)
  <2>1. ASSUME NEW k \in Soft, k[2] \notin A PROVE Steady(k)
    <3>1. k[2] # l
      BY <1>4, <2>1
    <3>2. CASE k[1] \notin {"favorite", "seen", "novel", "ahead", "alone"}
      BY <1>2, <3>2, CopiesSteady
    <3>3. CASE k[1] \in {"favorite", "seen", "alone"}
      <4>1. \A m, w : IsFavorite(m, w)' = IsFavorite(m, w) /\ Seen(m, w)' = Seen(m, w)
        BY <1>2, <1>8 DEF IsFavorite, Rows, Seen
      <4>2. \A w, p : IsSubscribed(w, p)' = IsSubscribed(w, p)
        BY DEF IsSubscribed
      <4>3. QED
        BY <3>3, <4>1, <4>2 DEF Steady
    <3>4. CASE k[1] = "novel"
      <4>1. <<k[2], k[3]>> # <<l, u>>
        BY <3>1
      <4>2. <<k[2], k[3]>> \in Rows(views)' => <<k[2], k[3]>> \in Rows(views)
        BY <1>7, <4>1 DEF Rows
      <4>3. QED
        BY <3>4, <4>2 DEF Steady
    <3>5. CASE k[1] = "ahead"
      BY <1>2, <1>10, <3>1, <3>5 DEF Steady
    <3>6. QED
      BY <3>2, <3>3, <3>4, <3>5
  <2>2. QED
    BY <1>1, <2>1 DEF Minding
<1>12. h[1] \in Final /\ h[1] \notin Dropping
  BY <1>2 DEF Final, Dropping
<1>13. Shaped' /\ Elsewhere(r) /\ req'[r].todo = <<>> /\ UNCHANGED <<mix, calls, faults, contended>>
  BY <1>0, <1>1, <1>2, <1>9, <1>11, <1>12, LastShaped
<1>14. CacheFresh' /\ Cached'
  BY <1>1, <1>2, <1>9, <1>12, <1>13, KeysRest
<1>15. TablesOK'
  <2>1. \A i \in DOMAIN views' : views'[i][1] \in Posted
    BY <1>0, <1>4, <1>7 DEF TablesOK
  <2>2. QED
    BY <1>0, <1>2, <1>7, <1>8, <2>1 DEF TablesOK
<1>16. InterestInOthers' /\ OneSubscription'
  BY <1>0, <1>2, <1>8, <1>13 DEF InterestInOthers, OneSubscription, Rows, Owner
<1>17. ASSUME NEW m \in Posted
       PROVE  \/ m \in contended
              \/ \E s \in Requests : Needs(req'[s].todo, <<"ahead", m, Nobody>>)
              \/ listing[m].views = Cardinality(Viewings(m)')
  <2>1. CASE m = l
    <3>1. IsFiniteSet(Viewings(l)) /\ n \notin Viewings(l)
      BY <1>0, <1>7, ViewingsFinite DEF TablesOK
    <3>2. Cardinality(Viewings(l) \cup {n}) = Cardinality(Viewings(l)) + 1
      BY <3>1, FS_AddElement
    <3>3. QED
      BY <1>5, <1>10, <2>1, <3>2
  <2>2. CASE m # l
    <3>1. ASSUME NEW s \in Requests, Needs(req[s].todo, <<"ahead", m, Nobody>>)
          PROVE  Needs(req'[s].todo, <<"ahead", m, Nobody>>)
      <4>1. CASE s = r
        <5>1. Fit(req[r].todo, A) /\ Steps(req[r].todo) = {h}
          <6>1. Fit(req[r].todo, A)
            BY <1>0, <1>1 DEF Shaped
          <6>2. QED
            BY <1>1, <1>2, <1>12, <6>1, FitTail
        <5>2. \E x \in Steps(req[r].todo) : x[1] = "insertView" /\ x[2] = m
          BY <3>1, <4>1, <5>1, AheadHead
        <5>3. QED
          BY <1>1, <2>2, <5>1, <5>2
      <4>2. CASE s # r
        BY <1>13, <3>1, <4>2 DEF Elsewhere
      <4>3. QED
        BY <4>1, <4>2
    <3>2. QED
      BY <1>0, <1>10, <1>17, <2>2, <3>1 DEF Balanced
  <2>3. QED
    BY <2>1, <2>2
<1>18. Balanced'
  BY <1>2, <1>8, <1>13, <1>17 DEF Balanced, Needs, Uses, Gives
<1>19. ASSUME NEW m \in Posted, m \notin contended, NEW i \in Viewings(m)', NEW j \in Viewings(m)', i # j
       PROVE  views'[i] # views'[j]
  <2>1. CASE m # l
    BY <1>0, <1>7, <1>10, <1>19, <2>1 DEF Novel, Viewings
  <2>2. CASE m = l /\ i # n /\ j # n
    BY <1>0, <1>7, <1>10, <1>19, <2>2 DEF Novel, Viewings
  <2>3. CASE m = l /\ (i = n \/ j = n)
    <3>1. <<l, u>> \notin Rows(views)
      BY <1>5, <1>19, <2>3
    <3>2. \A x \in Viewings(l) : views[x] # <<l, u>> /\ views'[x] = views[x]
      BY <1>7, <3>1 DEF Rows, Viewings
    <3>3. QED
      BY <1>7, <1>10, <1>19, <2>3, <3>2
  <2>4. QED
    BY <2>1, <2>2, <2>3
<1>20. Novel'
  BY <1>8, <1>13, <1>19 DEF Novel
<1>21. QED
  BY <1>13, <1>14, <1>15, <1>16, <1>18, <1>20 DEF Inv, Fresh

-----------------------------------------------------------------------------
(* The table of listings *)

\* The row of the listing l is written, and nothing else.
Rewritten(l, row) ==
  /\ listing' = [listing EXCEPT ![l] = row]
  /\ UNCHANGED <<cache, views, favorites, questions, plan, subscriptions>>

\* A listing keeps its owner.
Kin(l, row) == l \in Posted => row.owner = listing[l].owner

LEMMA RewrittenIs ==
  ASSUME Inv, NEW l \in Listings, NEW row, Whole(row), Rewritten(l, row)
  PROVE  /\ Posted' = Posted \cup {l} /\ listing'[l] = row /\ \A m \in Listings : m # l => listing'[m] = listing[m]
         /\ listing' \in [Listings -> ListingRow \cup {NoRow}] /\ Existing' = Existing
         /\ row \in ListingRow /\ row # NoRow /\ row.owner \in Users /\ row.owner # Nobody
         /\ Nobody \notin Users /\ Posted \subseteq Listings
<1>1. listing \in [Listings -> ListingRow \cup {NoRow}]
  BY DEF Inv, TablesOK
<1>2. row \in ListingRow /\ row.owner \in Users
  BY DEF Whole, ListingRow
<1>3. row # NoRow /\ row.owner # Nobody /\ Nobody \notin Users
  BY <1>2, ListingsAssumption
<1>4. /\ listing'[l] = row /\ \A m \in Listings : m # l => listing'[m] = listing[m]
      /\ listing' \in [Listings -> ListingRow \cup {NoRow}]
  BY <1>1, <1>2 DEF Rewritten
<1>5. Posted' = Posted \cup {l} /\ Posted \subseteq Listings
  BY <1>3, <1>4 DEF Posted
<1>6. Existing' = Existing
  BY DEF Rewritten, Existing
<1>7. QED
  BY <1>2, <1>3, <1>4, <1>5, <1>6

LEMMA RewrittenGrowth ==
  ASSUME Inv, NEW l \in Listings, NEW row, Whole(row), Rewritten(l, row), Kin(l, row)
  PROVE  Growth
<1>1. /\ Posted' = Posted \cup {l} /\ listing'[l] = row /\ \A m \in Listings : m # l => listing'[m] = listing[m]
      /\ row.owner \in Users /\ Posted \subseteq Listings /\ Existing' = Existing
  BY RewrittenIs
<1>2. \A m \in Posted : listing[m].owner \in Users
  BY PostedTyped DEF Inv
<1>3. /\ \A m \in Posted : listing'[m].owner = listing[m].owner
      /\ \A m \in Posted' : listing'[m].owner \in Users
  BY <1>1, <1>2 DEF Kin
<1>4. QED
  BY <1>1, <1>3 DEF Growth, Rewritten

\* A page does not show what it showed only if the listing is the user's, and active.
Shown(l, row) == row.status = "ACTIVE" \/ (l \in Posted /\ listing[l].status = "ACTIVE")

Found(d, u) ==
  {l \in Posted : /\ Matches(listing[l], d)
                  /\ u \in {Nobody, listing[l].owner}
                  /\ d.status \in {Anything, listing[l].status}}
Shape(l, d) ==
  [c \in ListingColumns \ {"views"} |-> IF c = "pricings" THEN MatchingPrices(listing[l], d) ELSE listing[l][c]]

LEMMA PageSame ==
  ASSUME Inv, NEW l \in Listings, NEW row, Whole(row), Rewritten(l, row), Kin(l, row), NEW u \in Users,
         row.owner # u \/ ~Shown(l, row)
  PROVE  Search(ActiveListings, u)' = Search(ActiveListings, u)
<1>1. /\ Posted' = Posted \cup {l} /\ listing'[l] = row /\ \A m \in Listings : m # l => listing'[m] = listing[m]
      /\ Nobody \notin Users /\ Posted \subseteq Listings
  BY RewrittenIs
<1>2. PICK d : d = ActiveListings
  OBVIOUS
<1>3. d' = d /\ ActiveListings' = d /\ d.status = "ACTIVE" /\ "ACTIVE" # Anything /\ u # Nobody
  BY <1>1, <1>2, ActiveFields, ListingsAssumption DEF ActiveListings, AnyListing, SearchFields, Statuses
<1>4. Found(d, u)' = Found(d, u) /\ l \notin Found(d, u)
  <2>1. l \notin Found(d, u) /\ l \notin Found(d, u)'
    <3>1. CASE row.owner # u
      BY <1>1, <1>3, <3>1 DEF Found, Kin
    <3>2. CASE ~Shown(l, row)
      BY <1>1, <1>3, <3>2 DEF Found, Shown
    <3>3. QED
      BY <3>1, <3>2
  <2>2. ASSUME NEW m, m # l PROVE m \in Found(d, u)' <=> m \in Found(d, u)
    BY <1>1, <2>2 DEF Found, Matches, MatchingPrices
  <2>3. QED
    BY <2>1, <2>2
<1>5. \A m \in Found(d, u) : Shape(m, d)' = Shape(m, d)
  <2>1. ASSUME NEW m \in Found(d, u) PROVE listing'[m] = listing[m]
    BY <1>1, <1>4, <2>1 DEF Found
  <2>2. QED
    BY <2>1 DEF Shape, MatchingPrices
<1>6. Search(d, u) = [m \in Found(d, u) |-> Shape(m, d)]
  BY DEF Search, Found, Shape
<1>7. Search(d, u)' = [m \in Found(d, u)' |-> Shape(m, d)']
  BY DEF Search, Found, Shape
<1>8. QED
  BY <1>2, <1>3, <1>4, <1>5, <1>6, <1>7

\* How often a listing was viewed is left out of pages.
LEMMA PageWithoutViews ==
  ASSUME Inv, NEW l \in Posted, NEW row, Whole(row), Rewritten(l, row), NEW u,
         \A c \in ListingColumns \ {"views"} : row[c] = listing[l][c]
  PROVE  Search(ActiveListings, u)' = Search(ActiveListings, u)
<1>0. l \in Listings
  BY DEF Posted
<1>1. /\ Posted' = Posted \cup {l} /\ listing'[l] = row /\ \A m \in Listings : m # l => listing'[m] = listing[m]
      /\ Posted \subseteq Listings
  BY <1>0, RewrittenIs
<1>2. PICK d : d = ActiveListings
  OBVIOUS
<1>3. d' = d /\ ActiveListings' = d
  BY <1>2 DEF ActiveListings, AnyListing, SearchFields
<1>4. /\ row.type = listing[l].type /\ row.title = listing[l].title /\ row.pricings = listing[l].pricings
      /\ row.place = listing[l].place /\ row.amenities = listing[l].amenities /\ row.owner = listing[l].owner
      /\ row.status = listing[l].status
  BY DEF ListingColumns, Offered
<1>5. /\ Posted' = Posted
      /\ \A m \in Posted : /\ Matches(listing'[m], d) <=> Matches(listing[m], d)
                           /\ listing'[m].owner = listing[m].owner /\ listing'[m].status = listing[m].status
                           /\ MatchingPrices(listing'[m], d) = MatchingPrices(listing[m], d)
                           /\ \A c \in ListingColumns \ {"views"} : listing'[m][c] = listing[m][c]
  <2>1. MatchingPrices(row, d) = MatchingPrices(listing[l], d)
    BY <1>4 DEF MatchingPrices
  <2>2. Matches(row, d) <=> Matches(listing[l], d)
    BY <1>4, <2>1 DEF Matches
  <2>3. QED
    BY <1>1, <1>4, <2>1, <2>2
<1>6. Found(d, u)' = Found(d, u)
  BY <1>5 DEF Found, Matches, MatchingPrices
<1>7. \A m \in Found(d, u) : Shape(m, d)' = Shape(m, d)
  <2>1. ASSUME NEW m \in Found(d, u) PROVE m \in Posted
    BY <2>1 DEF Found
  <2>2. QED
    BY <1>5, <2>1 DEF Shape, MatchingPrices
<1>8. Search(d, u) = [m \in Found(d, u) |-> Shape(m, d)]
  BY DEF Search, Found, Shape
<1>9. Search(d, u)' = [m \in Found(d, u)' |-> Shape(m, d)']
  BY DEF Search, Found, Shape
<1>10. QED
  BY <1>2, <1>3, <1>6, <1>7, <1>8, <1>9

PageKept(u) == Search(ActiveListings, u)' = Search(ActiveListings, u)

LEMMA CurrentSame ==
  ASSUME Inv, NEW l \in Listings, NEW row, Whole(row), Rewritten(l, row), NEW k \in Copied, k # ListingKey(l),
         \A u \in Users : k = UserPage(u) => PageKept(u)
  PROVE  Current(k)' = Current(k)
<1>1. /\ Posted' = Posted \cup {l} /\ \A m \in Listings : m # l => listing'[m] = listing[m]
      /\ Existing' = Existing /\ plan' = plan
  BY RewrittenIs DEF Rewritten
<1>2. CASE k[1] = "listing"
  <2>1. PICK m \in Listings : k = ListingKey(m) /\ k[2] = m
    BY <1>2, CopiedKinds
  <2>2. QED
    BY <1>1, <1>2, <2>1 DEF Current
<1>3. CASE k[1] = "user:listings"
  <2>1. PICK u \in Users : k = UserPage(u) /\ k[2] = u
    BY <1>3, CopiedKinds
  <2>2. QED
    BY <1>3, <2>1 DEF Current, PageKept
<1>4. CASE k[1] \in {"plan", "plans"}
  BY <1>1, <1>4 DEF Current, ActivePlans
<1>5. QED
  BY <1>2, <1>3, <1>4, CopiedKinds

\* The facts that the step may end are about the listing, if it is there, and pages that change.
LEMMA RewrittenSteady ==
  ASSUME Inv, NEW l \in Listings, NEW row, Whole(row), Rewritten(l, row), NEW k \in Soft,
         k[2] = l => l \notin Posted,
         k[2] \in Users /\ k[1] = "copy" => PageKept(k[2])
  PROVE  Steady(k)
<1>1. /\ Posted' = Posted \cup {l} /\ \A m \in Listings : m # l => listing'[m] = listing[m]
      /\ Posted \subseteq Listings /\ UNCHANGED <<cache, views, favorites, plan, subscriptions>>
  BY RewrittenIs DEF Rewritten
<1>2. CASE k[1] = "copy"
  <2>1. k[3] \in Copied /\ k[2] = Subject(k[3])
    BY <1>2, SoftKinds
  <2>2. CASE k[3] = ListingKey(l)
    <3>1. k[2] = l
      BY <2>1, <2>2, SubjectIs
    <3>2. ~Present(k[3])
      BY <2>2, <3>1, KeyIs DEF Present
    <3>3. QED
      BY <1>2, <3>2 DEF Steady
  <2>3. CASE k[3] # ListingKey(l)
    <3>1. \A u \in Users : k[3] = UserPage(u) => PageKept(u)
      BY <1>2, <2>1, SubjectIs
    <3>2. QED
      BY <1>2, <2>1, <2>3, <3>1, CurrentSame DEF Steady
  <2>4. QED
    BY <2>2, <2>3
<1>3. CASE k[1] \in {"favorite", "novel", "alone", "dropped", "unpaged"}
  <2>1. \A m, w : IsFavorite(m, w)' = IsFavorite(m, w)
    BY <1>1 DEF IsFavorite, Rows
  <2>2. Rows(views)' = Rows(views) /\ \A w, p : IsSubscribed(w, p)' = IsSubscribed(w, p)
    BY <1>1 DEF Rows, IsSubscribed
  <2>3. QED
    BY <1>1, <1>3, <2>1, <2>2 DEF Steady
<1>4. CASE k[1] = "seen"
  <2>1. Seen(k[2], k[3]) => k[2] # l /\ k[2] \in Posted
    BY DEF Seen
  <2>2. \A m, w : IsFavorite(m, w)' = IsFavorite(m, w)
    BY <1>1 DEF IsFavorite, Rows
  <2>3. Seen(k[2], k[3]) => Seen(k[2], k[3])'
    BY <1>1, <2>1, <2>2 DEF Seen
  <2>4. QED
    BY <1>4, <2>3 DEF Steady
<1>5. CASE k[1] = "ahead"
  <2>1. k[2] \in Posted => k[2] # l /\ listing'[k[2]] = listing[k[2]]
    BY <1>1
  <2>2. Viewings(k[2])' = Viewings(k[2])
    BY <1>1 DEF Viewings
  <2>3. QED
    BY <1>5, <2>1, <2>2 DEF Steady
<1>6. QED
  BY <1>2, <1>3, <1>4, <1>5, SoftKinds

\* What was found under a key still is of its type.
LEMMA GrowthValues ==
  ASSUME Growth, NEW k, NEW v, ValueOK(k, v)
  PROVE  ValueOK(k, v)'
<1>1. CASE k[1] = "listing"
  BY <1>1 DEF ValueOK, Growth
<1>2. CASE k[1] = "plan"
  BY <1>2 DEF ValueOK, Growth
<1>3. QED
  BY <1>1, <1>2 DEF ValueOK

\* After the step, the key that copies the row is dropped, or was, and so is the page of the owner if it changes.
Tracked(r, l, row) ==
  /\ ListingKey(l) \in DOMAIN cache => l \in contended \/ Drops(r, ListingKey(l))'
  /\ LET page == UserPage(row.owner) IN
     page \in DOMAIN cache => Contended(page) \/ PageKept(row.owner) \/ Drops(r, page)'
\* The counter is what it was, that of the views, or what it will be.
Tallied(r, l, row) ==
  \/ l \in contended
  \/ l \in Posted /\ row.views = listing[l].views
  \/ row.views = Cardinality(Viewings(l))
  \/ Needs(req'[r].todo, <<"ahead", l, Nobody>>)

LEMMA RewrittenInv ==
  ASSUME Inv, NEW l \in Listings, NEW row, Whole(row), Rewritten(l, row), Kin(l, row), NEW r \in Requests,
         req[r].todo # <<>>, NEW h, h = req[r].todo[1], h[1] \notin Dropping \cup {"insertView"},
         Shaped', Elsewhere(r), UNCHANGED <<mix, calls, faults, contended>>, Tracked(r, l, row), Tallied(r, l, row)
  PROVE  Inv'
<1>0. TablesOK /\ Cached /\ InterestInOthers /\ OneSubscription /\ CacheFresh /\ Balanced /\ Novel /\ Shaped
  BY DEF Inv, Fresh
<1>1. /\ Posted' = Posted \cup {l} /\ listing'[l] = row /\ \A m \in Listings : m # l => listing'[m] = listing[m]
      /\ listing' \in [Listings -> ListingRow \cup {NoRow}] /\ Existing' = Existing
      /\ Posted \subseteq Listings /\ UNCHANGED <<cache, views, favorites, questions, plan, subscriptions>>
  BY RewrittenIs DEF Rewritten
<1>2. Growth
  BY RewrittenGrowth
<1>3. TablesOK'
  <2>1. \A m \in Posted' : Whole(listing'[m])
    BY <1>0, <1>1 DEF TablesOK
  <2>2. \A m \in Posted' : Whole(listing[m])'
    BY <2>1 DEF Whole
  <2>3. QED
    BY <1>0, <1>1, <2>2 DEF TablesOK
<1>4. Cached'
  BY <1>0, <1>1, <1>2, GrowthValues, CopiedSame DEF Cached
<1>5. InterestInOthers'
  <2>1. \A m \in Posted : listing'[m].owner = listing[m].owner /\ Owner(m)' = Owner(m)
    BY <1>1 DEF Kin, Owner
  <2>2. \A i \in DOMAIN favorites : listing'[favorites[i].listing].owner # favorites[i].user
    BY <1>0, <2>1 DEF TablesOK, InterestInOthers, Rows
  <2>3. ASSUME NEW q \in Rows(questions) PROVE q.to \in Owner(q.listing)' /\ q.from # q.to
    <3>1. q.to \in Owner(q.listing) /\ q.from # q.to
      BY <1>0, <2>3 DEF InterestInOthers
    <3>2. q.listing \in Posted
      BY <3>1 DEF Owner
    <3>3. QED
      BY <2>1, <3>1, <3>2
  <2>4. QED
    BY <1>0, <1>1, <2>2, <2>3 DEF InterestInOthers, Rows
<1>6. OneSubscription'
  BY <1>0, <1>1 DEF OneSubscription
<1>7. \A k : ~Drops(r, k)
  BY <1>0, NoDrops
<1>8. ASSUME NEW k \in Copied, k \in DOMAIN cache
      PROVE  Contended(k)' \/ cache[k] = Current(k)' \/ \E s \in Requests : Drops(s, k)'
  <2>1. ASSUME NEW s \in Requests, Drops(s, k) PROVE Drops(s, k)'
    BY <1>7, <2>1 DEF Drops, Elsewhere
  <2>2. Contended(k) => Contended(k)'
    BY <1>2, ContendedStays
  <2>3. CASE Current(k)' = Current(k)
    BY <1>0, <1>8, <2>1, <2>2, <2>3 DEF CacheFresh
  <2>4. CASE k = ListingKey(l)
    <3>1. l \in contended => Contended(k)
      BY <2>4, SubjectIs, KeyIs DEF Contended
    <3>2. QED
      BY <1>8, <2>2, <2>4, <3>1 DEF Tracked
  <2>5. CASE k # ListingKey(l) /\ Current(k)' # Current(k)
    <3>1. PICK u \in Users : k = UserPage(u) /\ ~PageKept(u)
      BY <2>5, CurrentSame
    <3>2. u = row.owner
      <4>1. row.owner # u => PageKept(u)
        BY PageSame DEF PageKept
      <4>2. QED
        BY <3>1, <4>1
    <3>3. QED
      BY <1>8, <2>2, <3>1, <3>2 DEF Tracked
  <2>6. QED
    BY <2>3, <2>4, <2>5
<1>9. CacheFresh'
  BY <1>1, <1>8, CopiedSame DEF CacheFresh
<1>10. \A m : Viewings(m)' = Viewings(m)
  BY <1>1 DEF Viewings
<1>11. ASSUME NEW m, NEW s \in Requests, Needs(req[s].todo, <<"ahead", m, Nobody>>)
       PROVE  Needs(req'[s].todo, <<"ahead", m, Nobody>>)
  <2>1. CASE s = r
    <3>1. Fit(req[r].todo, req[r].about) /\ Program(req[r].todo)
      BY <1>0 DEF Shaped, Fit
    <3>2. h \in Steps(req[r].todo)
      BY <3>1, ProgramTail
    <3>3. QED
      BY <1>11, <2>1, <3>1, <3>2, AheadHead DEF Dropping
  <2>2. CASE s # r
    BY <1>11, <2>2 DEF Elsewhere
  <2>3. QED
    BY <2>1, <2>2
<1>12. ASSUME NEW m \in Posted'
       PROVE  \/ m \in contended
              \/ \E s \in Requests : Needs(req'[s].todo, <<"ahead", m, Nobody>>)
              \/ listing'[m].views = Cardinality(Viewings(m))
  <2>1. CASE m # l
    BY <1>0, <1>1, <1>11, <1>12, <2>1 DEF Balanced
  <2>2. CASE m = l
    BY <1>0, <1>1, <1>11, <2>2 DEF Balanced, Tallied
  <2>3. QED
    BY <2>1, <2>2
<1>13. Balanced'
  BY <1>10, <1>12 DEF Balanced, Needs, Uses, Gives
<1>14. Novel'
  <2>1. l \notin Posted => Viewings(l) = {}
    BY <1>0 DEF TablesOK, Viewings
  <2>2. ASSUME NEW m \in Posted', m \notin contended, NEW i \in Viewings(m), NEW j \in Viewings(m), i # j
        PROVE  views[i] # views[j]
    BY <1>0, <1>1, <2>1, <2>2 DEF Novel
  <2>3. QED
    BY <1>1, <1>10, <2>2 DEF Novel
<1>15. QED
  BY <1>3, <1>4, <1>5, <1>6, <1>9, <1>13, <1>14 DEF Inv, Fresh

\* The first step of what is left drops the key.
LEMMA DropsNext ==
  ASSUME NEW r, NEW k, 1 \in DOMAIN req'[r].todo, req'[r].todo[1] = <<"delete", k>>
  PROVE  Drops(r, k)'
<1>1. PICK q : q = req'[r].todo
  OBVIOUS
<1>2. q[1][1] = "delete" /\ q[1][2] = k /\ \A j \in 1..1 : j = 1
  BY <1>1
<1>3. \A j \in 1..1 : q[j][1] \in Dropping
  BY <1>2 DEF Dropping
<1>4. QED
  BY <1>1, <1>2, <1>3 DEF Drops

\* The second does.
LEMMA DropsThen ==
  ASSUME NEW r, NEW k, NEW S, k \in S, NEW q, q = req'[r].todo, 1 \in DOMAIN q, 2 \in DOMAIN q, q[1][1] = "delete",
         q[2] = <<"scan", S>>
  PROVE  Drops(r, k)'
<1>1. q[2][1] = "scan" /\ q[2][2] = S /\ \A j \in 1..2 : j = 1 \/ j = 2
  OBVIOUS
<1>2. \A j \in 1..2 : q[j][1] \in Dropping
  BY <1>1 DEF Dropping
<1>3. q[2][1] # "delete"
  BY <1>1
<1>4. QED
  BY <1>1, <1>2, <1>3 DEF Drops

-----------------------------------------------------------------------------

LEMMA CountViewInv ==
  ASSUME Inv, UNCHANGED <<plan, subscriptions>>, NEW r \in Requests, CountView(r)
  PROVE  Inv'
<1>0. Shaped /\ TablesOK /\ Balanced
  BY DEF Inv, Fresh
<1>1. PICK h, l, A, q : h = req[r].todo[1] /\ l = h[2] /\ A = req[r].about /\ q = req[r].todo
  OBVIOUS
<1>2. /\ req[r].todo # <<>> /\ h[1] = "countView" /\ Continue(r) /\ UNCHANGED <<cache, views, favorites, questions>>
      /\ listing' = [listing EXCEPT ![l].views = @ + 1]
  <2>1. /\ At(r, "countView") /\ Continue(r) /\ UNCHANGED <<cache, views, favorites, questions>>
        /\ listing' = [listing EXCEPT ![Arg(r, 1)].views = @ + 1]
    BY Zenon DEF CountView
  <2>2. h[1] = "countView" /\ req[r].todo # <<>> /\ l = Arg(r, 1)
    BY <1>1, <2>1, Arguments
  <2>3. QED
    BY Zenon, <2>1, <2>2
<1>3. l \in Listings /\ l \in A /\ l \in Posted
  <2>1. h[1] \in Listing
    BY <1>2 DEF Listing
  <2>2. QED
    BY <1>1, <1>2, <2>1, RowAtHand
<1>4. listing[l] \in ListingRow /\ Whole(listing[l])
  BY <1>0, <1>3 DEF TablesOK, Whole
<1>5. PICK row : row = [listing[l] EXCEPT !.views = listing[l].views + 1]
  OBVIOUS
<1>6. /\ row \in ListingRow /\ row.views = listing[l].views + 1
      /\ \A c \in ListingColumns \ {"views"} : row[c] = listing[l][c]
  BY <1>4, <1>5 DEF ListingRow, ListingColumns, Offered
<1>7. row.owner = listing[l].owner /\ row.pricings = listing[l].pricings
  BY <1>6 DEF ListingColumns, Offered
<1>8. Whole(row)
  <2>1. "pricings" \in DOMAIN listing[l]
    BY <1>4 DEF ListingRow
  <2>2. OnePricePerPeriod(row)
    BY <1>4, <1>7, <2>1 DEF Whole, OnePricePerPeriod
  <2>3. QED
    BY <1>4, <1>6, <1>7, <2>2 DEF Whole
<1>9. Rewritten(l, row)
  <2>1. listing' = [listing EXCEPT ![l] = row]
    BY <1>2, <1>5
  <2>2. QED
    BY <1>2, <2>1 DEF Rewritten
<1>10. Kin(l, row)
  BY <1>7 DEF Kin
<1>11. Growth
  BY <1>3, <1>8, <1>9, <1>10, RewrittenGrowth
<1>12. \A u : PageKept(u)
  BY <1>3, <1>6, <1>8, <1>9, PageWithoutViews DEF PageKept
<1>13. \A k \in Soft : k[2] # l => Steady(k)
  BY <1>3, <1>8, <1>9, <1>12, RewrittenSteady
<1>14. Minding(r)
  BY <1>1, <1>3, <1>13 DEF Minding
<1>15. /\ Fit(Tail(q), A) /\ \A y \in Steps(Tail(q)) : Ordered(h, y)
       /\ Program(q) /\ Adjacent(q) /\ Fit(q, A)
  BY <1>0, <1>1, <1>2, AtHand DEF Shaped, Fit
<1>16. /\ 1 \in DOMAIN q /\ q[1] = h /\ \A i \in DOMAIN Tail(q) : Tail(q)[i] = q[i + 1]
       /\ Len(q) \in Nat /\ Len(Tail(q)) = Len(q) - 1 /\ DOMAIN q = 1..Len(q) /\ DOMAIN Tail(q) = 1..Len(Tail(q))
       /\ h \in Steps(q)
  BY <1>1, <1>2, <1>15, ProgramTail
<1>17. 1 + 2 \in DOMAIN q /\ q[1 + 1] = <<"delete", ListingKey(l)>> /\ q[1 + 2][1] = "insertView" /\ q[1 + 2][2] = l
  BY <1>1, <1>2, <1>15, <1>16 DEF Adjacent
<1>18. /\ 1 \in DOMAIN Tail(q) /\ Tail(q)[1] = <<"delete", ListingKey(l)>>
       /\ 2 \in DOMAIN Tail(q) /\ Tail(q)[2][1] = "insertView" /\ Tail(q)[2][2] = l
  BY <1>16, <1>17
<1>19. PICK f : f = <<"ahead", l, Nobody>>
  OBVIOUS
<1>20. f \in Soft /\ f \in Facts /\ f[1] = "ahead" /\ f[2] = l
  BY <1>3, <1>19 DEF Facts, Soft
<1>21. \A y \in Steps(Tail(q)) : y[1] \in {"delete", "insertView"}
  BY <1>2, <1>15 DEF Ordered
<1>22. Needs(Tail(q), f)
  <2>1. Tail(q)[2] \in Steps(Tail(q))
    BY <1>18 DEF Steps
  <2>2. Uses(Tail(q)[2], f)
    BY <1>18, <1>19 DEF Uses
  <2>3. \A y \in Steps(Tail(q)) : ~Gives(y, f)
    BY <1>19, <1>21 DEF Gives
  <2>4. QED
    BY <2>1, <2>2, <2>3 DEF Needs
<1>23. l \in contended \/ listing[l].views = Cardinality(Viewings(l))
  <2>1. ASSUME NEW s \in Requests, Needs(req[s].todo, <<"ahead", l, Nobody>>) PROVE l \in contended
    <3>1. Fit(req[s].todo, req[s].about)
      BY <1>0 DEF Shaped
    <3>2. l \in req[s].about /\ \A x \in Steps(req[s].todo) : x[1] \in {"delete", "insertView"}
      BY <2>1, <3>1, AheadHead
    <3>3. s # r
      BY <1>1, <1>2, <1>16, <3>2
    <3>4. QED
      BY <1>0, <1>1, <1>3, <3>2, <3>3 DEF Shaped, Apart
  <2>2. QED
    BY <1>0, <1>3, <2>1 DEF Balanced
<1>24. PICK got : got = req[r].got
  OBVIOUS
<1>25. l \in contended \/ Tells(got, A, f)'
  <2>1. /\ Posted' = Posted \cup {l} /\ listing'[l] = row /\ Viewings(l)' = Viewings(l)
    <3>1. Posted' = Posted \cup {l} /\ listing'[l] = row
      BY <1>3, <1>8, <1>9, RewrittenIs
    <3>2. Viewings(l)' = Viewings(l)
      BY <1>2 DEF Viewings
    <3>3. QED
      BY <3>1, <3>2
  <2>2. CASE listing[l].views = Cardinality(Viewings(l))
    BY <1>6, <1>20, <2>1, <2>2 DEF Tells
  <2>3. QED
    BY <1>23, <2>2
<1>26. \A k \in Facts : Gives(h, k) => k = f
  BY <1>1, <1>2, <1>19 DEF Gives
<1>27. ASSUME NEW k \in Facts, ~Gives(h, k), Needs(Tail(q), k), k \in Soft PROVE Steady(k)
  <2>1. PICK y \in Steps(Tail(q)) : Uses(y, k)
    BY <1>27 DEF Needs
  <2>2. y[1] = "insertView" /\ y[2] = l
    <3>1. y[1] = "insertView"
      BY <1>21, <2>1 DEF Uses, Listing
    <3>2. Ordered(h, y)
      BY <1>15
    <3>3. QED
      BY <1>1, <1>2, <3>1, <3>2 DEF Ordered
  <2>3. k = <<"typed", l, RowOf(y)>> \/ k = <<"novel", l, y[3]>> \/ k = f
    BY <1>19, <2>1, <2>2 DEF Uses
  <2>4. k # f
    <3>1. Gives(h, f)
      BY <1>1, <1>2, <1>19 DEF Gives
    <3>2. QED
      BY <1>27, <3>1
  <2>5. k[1] = "typed" \/ k[1] = "novel"
    BY <2>3, <2>4
  <2>6. k[1] = "novel"
    BY <1>27, <2>5, SoftKinds
  <2>7. Rows(views)' = Rows(views)
    BY <1>2 DEF Rows
  <2>8. QED
    BY <2>6, <2>7 DEF Steady
<1>28. Goes(r, Tail(req[r].todo), got)
  BY <1>2, <1>24 DEF Continue
<1>29. \A k \in Facts : Gives(h, k) /\ Needs(Tail(req[r].todo), k) =>
         (k \in Soft /\ k[2] \in contended) \/ Tells(got, A, k)'
  BY <1>20, <1>25, <1>26
<1>30. \A k \in Facts : ~Gives(h, k) /\ Needs(Tail(req[r].todo), k) =>
         /\ k \in Soft => Steady(k)
         /\ GotFor(k) \in DOMAIN req[r].got => GotFor(k) \in DOMAIN got /\ got[GotFor(k)] = req[r].got[GotFor(k)]
  BY <1>1, <1>24, <1>27
<1>31. /\ Shaped' /\ Elsewhere(r) /\ req'[r].todo = Tail(q) /\ UNCHANGED <<mix, calls, faults, contended>>
  BY <1>0, <1>1, <1>2, <1>11, <1>14, <1>28, <1>29, <1>30, PassShaped
<1>32. Drops(r, ListingKey(l))'
  BY <1>18, <1>31, DropsNext
<1>33. Tracked(r, l, row)
  BY <1>12, <1>32 DEF Tracked
<1>34. Tallied(r, l, row)
  BY <1>19, <1>22, <1>31 DEF Tallied
<1>35. h[1] \notin Dropping \cup {"insertView"}
  BY <1>2 DEF Dropping
<1>36. QED
  BY <1>1, <1>2, <1>3, <1>8, <1>9, <1>10, <1>31, <1>33, <1>34, <1>35, RewrittenInv

\* The last step of update: the keys are gone that copy the listing, and the row is what was read, patched.
LEMMA MergedIs ==
  ASSUME NEW row, Whole(row), NEW patch, PatchOK(patch) \/ \E s \in Statuses : patch = [status |-> s]
  PROVE  /\ Whole(Merged(row, patch)) /\ Merged(row, patch).owner = row.owner /\ Merged(row, patch).views = row.views
         /\ \A c \in ListingColumns : Merged(row, patch)[c] = IF c \in DOMAIN patch THEN patch[c] ELSE row[c]
<1>1. PICK new : new = Merged(row, patch)
  OBVIOUS
<1>2. /\ new = [c \in ListingColumns |-> new[c]]
      /\ \A c \in ListingColumns : new[c] = IF c \in DOMAIN patch THEN patch[c] ELSE row[c]
  BY <1>1 DEF Merged
<1>3. row \in ListingRow /\ row.pricings # {} /\ OnePricePerPeriod(row)
  BY DEF Whole
<1>4. /\ "owner" \notin DOMAIN patch /\ "views" \notin DOMAIN patch
      /\ "status" \in DOMAIN patch => patch["status"] \in Statuses
      /\ \A c \in Offered : c \in DOMAIN patch => patch[c] \in Values(c)
      /\ "pricings" \in DOMAIN patch => patch.pricings # {} /\ OnePricePerPeriod(patch)
  <2>1. CASE PatchOK(patch)
    <3>1. patch \in Offers /\ OnePricePerPeriod(patch) /\ patch \in Given
      BY <2>1 DEF PatchOK, Given
    <3>2. DOMAIN patch \subseteq Offered /\ ("pricings" \in DOMAIN patch => patch.pricings # {})
      BY <3>1, ListingsAssumption
    <3>3. QED
      BY <3>1, <3>2 DEF Values, Offered
  <2>2. CASE \E s \in Statuses : patch = [status |-> s]
    BY <2>2 DEF Offered
  <2>3. QED
    BY <2>1, <2>2
<1>5. new \in ListingRow
  <2>1. /\ new.type \in Values("type") /\ new.title \in Values("title") /\ new.pricings \in Values("pricings")
        /\ new.place \in Values("place") /\ new.amenities \in Values("amenities")
    BY <1>2, <1>3, <1>4 DEF ListingRow, ListingColumns, Offered
  <2>2. new.owner = row.owner /\ new.views = row.views /\ new.status \in Statuses
    BY <1>2, <1>3, <1>4 DEF ListingRow, ListingColumns
  <2>3. row.owner \in Users /\ row.views \in Nat
    BY <1>3 DEF ListingRow
  <2>4. ListingColumns = {"type", "title", "pricings", "place", "amenities", "owner", "status", "views"}
    BY DEF ListingColumns, Offered
  <2>5. new = [type |-> new.type, title |-> new.title, pricings |-> new.pricings, place |-> new.place,
               amenities |-> new.amenities, owner |-> new.owner, status |-> new.status, views |-> new.views]
    BY <1>2, <2>4
  <2>6. QED
    BY <2>1, <2>2, <2>3, <2>5 DEF ListingRow
<1>6. new.pricings # {} /\ OnePricePerPeriod(new)
  <2>1. new.pricings = IF "pricings" \in DOMAIN patch THEN patch.pricings ELSE row.pricings
    BY <1>2 DEF ListingColumns, Offered
  <2>2. "pricings" \in DOMAIN row
    BY <1>3 DEF ListingRow
  <2>3. QED
    BY <1>3, <1>4, <2>1, <2>2 DEF OnePricePerPeriod
<1>7. new.owner = row.owner /\ new.views = row.views
  BY <1>2, <1>4 DEF ListingColumns
<1>8. QED
  BY <1>1, <1>2, <1>5, <1>6, <1>7 DEF Whole

\* What update and updateStatus write.
LEMMA SaveListingIs ==
  ASSUME Inv, UNCHANGED <<views, favorites, questions, plan, subscriptions>>, NEW r \in Requests, SaveListing(r),
         NEW l, l = Arg(r, 1), NEW patch, patch = Arg(r, 2), NEW old, old = Got(r, "listing"),
         NEW row, row = Merged(old, patch)
  PROVE  /\ l \in Listings /\ l \in Posted /\ Whole(row) /\ Kin(l, row) /\ Rewritten(l, row)
         /\ l \in contended \/ old = listing[l]
         /\ row.views = old.views
         /\ \A c \in ListingColumns : row[c] = IF c \in DOMAIN patch THEN patch[c] ELSE old[c]
<1>1. PICK h : h = req[r].todo[1]
  OBVIOUS
<1>2. /\ req[r].todo # <<>> /\ h[1] = "saveListing" /\ l = h[2] /\ patch = h[3] /\ UNCHANGED cache
      /\ listing' = [listing EXCEPT ![l] = row]
  BY <1>1, Arguments DEF SaveListing
<1>3. StepOK(h)
  BY <1>1, <1>2, AtHand DEF Inv
<1>4. PatchOK(patch)
  BY <1>2, <1>3 DEF StepOK
<1>5. h[1] \in Listing
  BY <1>2 DEF Listing
<1>6. /\ l \in Listings /\ l \in Posted /\ Whole(old) /\ old.owner = listing[l].owner
      /\ l \in contended \/ old = listing[l]
  BY <1>1, <1>2, <1>5, RowAtHand
<1>7. /\ Whole(row) /\ row.owner = old.owner /\ row.views = old.views
      /\ \A c \in ListingColumns : row[c] = IF c \in DOMAIN patch THEN patch[c] ELSE old[c]
  BY <1>4, <1>6, MergedIs
<1>8. Kin(l, row) /\ Rewritten(l, row)
  BY <1>2, <1>6, <1>7 DEF Kin, Rewritten
<1>9. QED
  BY <1>6, <1>7, <1>8

LEMMA SaveListingInv ==
  ASSUME Inv, UNCHANGED <<views, favorites, questions, plan, subscriptions>>, NEW r \in Requests, SaveListing(r)
  PROVE  Inv'
<1>0. Shaped
  BY DEF Inv
<1>1. PICK h, l, patch, old : h = req[r].todo[1] /\ l = Arg(r, 1) /\ patch = Arg(r, 2) /\ old = Got(r, "listing")
  OBVIOUS
<1>2. PICK row : row = Merged(old, patch)
  OBVIOUS
<1>3. /\ req[r].todo # <<>> /\ h[1] = "saveListing" /\ l = h[2] /\ patch = h[3] /\ Continue(r)
  BY <1>1, Arguments DEF SaveListing
<1>4. /\ l \in Listings /\ l \in Posted /\ Whole(row) /\ Kin(l, row) /\ Rewritten(l, row)
      /\ l \in contended \/ old = listing[l]
      /\ row.views = old.views
  BY <1>1, <1>2, SaveListingIs
<1>5. /\ Minds(h, req[r].about) /\ \A k \in Facts : Uses(h, k) => Known(r, k)
  BY <1>0, <1>1, <1>3, AtHand
<1>6. l \in req[r].about /\ listing[l].owner \in req[r].about /\ row.owner = listing[l].owner
  BY <1>3, <1>4, <1>5 DEF Minds, MindsOwner, Listing, Kin
<1>7. row.owner \in Users /\ Growth
  BY <1>4, RewrittenIs, RewrittenGrowth
<1>8. \A u \in Users : u # row.owner => PageKept(u)
  BY <1>4, PageSame DEF PageKept
<1>9. ASSUME NEW k \in Soft, k[2] \notin req[r].about PROVE Steady(k)
  <2>1. k[2] # l /\ k[2] # row.owner
    BY <1>6, <1>9
  <2>2. k[2] \in Users => PageKept(k[2])
    BY <1>8, <2>1
  <2>3. QED
    BY <1>4, <2>1, <2>2, RewrittenSteady
<1>10. Minding(r)
  BY <1>9 DEF Minding
<1>11. h[1] \in Final /\ h[1] \notin Dropping \cup {"insertView"}
  BY <1>3 DEF Final, Dropping
<1>12. Shaped' /\ Elsewhere(r) /\ UNCHANGED <<mix, calls, faults, contended>>
  BY <1>0, <1>1, <1>3, <1>7, <1>10, <1>11, LastShaped
<1>13. l \in contended \/ ListingKey(l) \notin DOMAIN cache
  <2>1. PICK f : f = <<"dropped", l, Nobody>>
    OBVIOUS
  <2>2. f \in Facts /\ f[1] = "dropped" /\ f[2] = l
    BY <1>4, <2>1 DEF Facts, Soft
  <2>3. Uses(h, f)
    BY <1>3, <2>1 DEF Uses
  <2>4. Known(r, f)
    BY <1>5, <2>2, <2>3
  <2>5. QED
    BY <2>2, <2>4 DEF Known, Tells
<1>14. row.owner \in contended \/ UserPage(row.owner) \notin DOMAIN cache
  <2>1. PICK f : f = <<"unpaged", row.owner, l>>
    OBVIOUS
  <2>2. f \in Facts /\ f[1] = "unpaged" /\ f[2] = row.owner /\ f[3] = l
    BY <1>4, <1>7, <2>1 DEF Facts, Soft
  <2>3. Uses(h, f)
    BY <1>3, <2>1 DEF Uses
  <2>4. Known(r, f)
    BY <1>5, <2>2, <2>3
  <2>5. row.owner \in Owner(l)
    BY <1>4, <1>6 DEF Owner
  <2>6. QED
    BY <2>2, <2>4, <2>5 DEF Known, Tells
<1>15. Tracked(r, l, row)
  <2>1. row.owner \in contended => Contended(UserPage(row.owner))
    BY KeyIs DEF Contended, Calm
  <2>2. QED
    BY <1>13, <1>14, <2>1 DEF Tracked
<1>16. Tallied(r, l, row)
  BY <1>4 DEF Tallied
<1>17. QED
  BY <1>1, <1>3, <1>4, <1>11, <1>12, <1>15, <1>16, RewrittenInv

-----------------------------------------------------------------------------

Drop(l, u, both) == IF both THEN <<<<"delete", ListingKey(l)>>, <<"scan", {UserPage(u)}>>>> ELSE <<<<"delete", ListingKey(l)>>>>

\* What is left after a status is saved: the keys are dropped.
LEMMA DropFits ==
  ASSUME NEW l \in Listings, NEW A, l \in A, NEW u \in Users, u \in A, NEW both, NEW q, q = Drop(l, u, both)
  PROVE  Fit(q, A) /\ \A k : ~Needs(q, k)
<1>1. PICK a, b : a = <<"delete", ListingKey(l)>> /\ b = <<"scan", {UserPage(u)}>>
  OBVIOUS
<1>2. a[1] = "delete" /\ a[2] = ListingKey(l) /\ b[1] = "scan" /\ b[2] = {UserPage(u)}
  BY <1>1
<1>3. StepOK(a) /\ StepOK(b) /\ Minds(a, A) /\ Minds(b, A)
  <2>1. ListingKey(l) \in Copied /\ UserPage(u) \in Copied
    BY KeyCopied
  <2>2. Subject(ListingKey(l)) = l /\ Subject(UserPage(u)) = u
    BY SubjectIs
  <2>3. StepOK(a) /\ StepOK(b)
    BY <1>2, <2>1 DEF StepOK, Listing, Plain
  <2>4. Minds(a, A) /\ Minds(b, A)
    BY <1>2, <2>2 DEF Minds, Listing
  <2>5. QED
    BY <2>3, <2>4
<1>4. Ordered(a, b) /\ a[1] \notin Final /\ a[1] \notin Linked
  BY <1>2 DEF Ordered, Final, Linked
<1>5. Fit(<<a>>, A)
  BY <1>3, <1>4, FitOf1
<1>6. Fit(<<a, b>>, A)
  <2>1. Steps(<<a, b>>) = {a, b}
    BY ProgramOf2
  <2>2. Adjacent(<<a, b>>) /\ Counting(<<a, b>>)
    BY <1>2, <2>1, NotLinked, NotCounting DEF Linked
  <2>3. QED
    BY <1>3, <1>4, <2>2, FitOf2
<1>7. q = <<a>> \/ q = <<a, b>>
  BY <1>1 DEF Drop
<1>8. \A x \in Steps(q) : x[1] \in {"delete", "scan"}
  BY <1>2, <1>7, ProgramOf1, ProgramOf2
<1>9. \A k : ~Needs(q, k)
  BY <1>8 DEF Needs, Uses, Listing
<1>10. QED
  BY <1>5, <1>6, <1>7, <1>9

LEMMA SetStatusIs ==
  ASSUME Inv, UNCHANGED <<views, favorites, questions, plan, subscriptions>>, NEW r \in Requests, SetStatus(r),
         NEW l, l = Arg(r, 1), NEW status, status = Arg(r, 2), NEW old, old = Got(r, "listing"),
         NEW row, row = Merged(old, [status |-> status])
  PROVE  /\ l \in Listings /\ l \in Posted /\ Whole(row) /\ Kin(l, row) /\ row.owner \in Users
         /\ l \in contended \/ old = listing[l]
         /\ row.views = old.views /\ row.status = status
         /\ \A c \in ListingColumns : c # "status" => row[c] = old[c]
         /\ \/ Continue(r) /\ UNCHANGED <<cache, listing>>
            \/ Rewritten(l, row) /\ Do(r, Drop(l, row.owner, "ACTIVE" \in {old.status, status}))
<1>1. PICK h, patch : h = req[r].todo[1] /\ patch = [status |-> status]
  OBVIOUS
<1>2. /\ req[r].todo # <<>> /\ h[1] = "setStatus" /\ l = h[2] /\ status = h[3]
  BY <1>1, Arguments DEF SetStatus
<1>3. StepOK(h)
  BY <1>1, <1>2, AtHand DEF Inv
<1>4. status \in Statuses
  BY <1>2, <1>3 DEF StepOK
<1>5. h[1] \in Listing
  BY <1>2 DEF Listing
<1>6. /\ l \in Listings /\ l \in Posted /\ Whole(old) /\ old.owner = listing[l].owner /\ listing[l].owner \in Users
      /\ l \in contended \/ old = listing[l]
  BY <1>1, <1>2, <1>5, RowAtHand
<1>7. /\ Whole(row) /\ row.owner = old.owner /\ row.views = old.views
      /\ \A c \in ListingColumns : row[c] = IF c \in DOMAIN patch THEN patch[c] ELSE old[c]
  BY <1>1, <1>4, <1>6, MergedIs
<1>8. row.status = status /\ \A c \in ListingColumns : c # "status" => row[c] = old[c]
  BY <1>1, <1>7 DEF ListingColumns
<1>9. Kin(l, row)
  BY <1>6, <1>7 DEF Kin
<1>10. PICK a, b : a = <<"delete", ListingKey(l)>> /\ b = <<"scan", {UserPage(old.owner)}>>
  OBVIOUS
<1>11. \/ Continue(r) /\ UNCHANGED <<cache, listing>>
       \/ /\ listing' = [listing EXCEPT ![l] = row] /\ UNCHANGED cache
          /\ Do(r, <<a>> \o IF "ACTIVE" \in {old.status, status} THEN <<b>> ELSE <<>>)
  <2>1. \/ Continue(r) /\ UNCHANGED <<cache, listing>>
        \/ /\ listing' = [listing EXCEPT ![Arg(r, 1)] = Merged(Got(r, "listing"), [status |-> Arg(r, 2)])]
           /\ UNCHANGED cache
           /\ Do(r, <<<<"delete", ListingKey(Arg(r, 1))>>>> \o
                    IF "ACTIVE" \in {Got(r, "listing").status, Arg(r, 2)}
                      THEN <<<<"scan", {UserPage(Got(r, "listing").owner)}>>>> ELSE <<>>)
    BY Zenon DEF SetStatus
  <2>2. QED
    BY Zenon, <1>10, <2>1
<1>12. <<a>> \o <<b>> = <<a, b>> /\ <<a>> \o <<>> = <<a>>
  BY JoinOf1, NoStepAfter, ProgramOf1
<1>13. \A both : <<a>> \o (IF both THEN <<b>> ELSE <<>>) = Drop(l, row.owner, both)
  BY <1>7, <1>10, <1>12 DEF Drop
<1>14. QED
  BY <1>6, <1>7, <1>8, <1>9, <1>11, <1>13 DEF Rewritten

LEMMA DropDrops ==
  ASSUME NEW r, NEW l, NEW u, NEW both, req'[r].todo = Drop(l, u, both)
  PROVE  Drops(r, ListingKey(l))' /\ (both => Drops(r, UserPage(u))')
<1>1. PICK q, a, S : q = req'[r].todo /\ a = <<"delete", ListingKey(l)>> /\ S = {UserPage(u)}
  OBVIOUS
<1>2. CASE both
  <2>1. q = <<a, <<"scan", S>>>>
    BY <1>1, <1>2 DEF Drop
  <2>2. 1 \in DOMAIN q /\ q[1] = a /\ 2 \in DOMAIN q /\ q[2] = <<"scan", S>> /\ a[1] = "delete" /\ UserPage(u) \in S
    BY <1>1, <2>1
  <2>3. QED
    BY <1>1, <2>2, DropsNext, DropsThen
<1>3. CASE ~both
  <2>1. q = <<a>>
    BY <1>1, <1>3 DEF Drop
  <2>2. 1 \in DOMAIN q /\ q[1] = a
    BY <2>1
  <2>3. QED
    BY <1>1, <1>3, <2>2, DropsNext
<1>4. QED
  BY <1>2, <1>3

LEMMA SetStatusInv ==
  ASSUME Inv, UNCHANGED <<views, favorites, questions, plan, subscriptions>>, NEW r \in Requests, SetStatus(r)
  PROVE  Inv'
<1>0. Shaped
  BY DEF Inv
<1>1. PICK h, l, status, old : /\ h = req[r].todo[1] /\ l = Arg(r, 1) /\ status = Arg(r, 2)
                               /\ old = Got(r, "listing")
  OBVIOUS
<1>2. PICK row, both : row = Merged(old, [status |-> status]) /\ both = ("ACTIVE" \in {old.status, status})
  OBVIOUS
<1>3. /\ req[r].todo # <<>> /\ h[1] = "setStatus" /\ l = h[2]
  BY <1>1, Arguments DEF SetStatus
<1>4. /\ l \in Listings /\ l \in Posted /\ Whole(row) /\ Kin(l, row) /\ row.owner \in Users
      /\ l \in contended \/ old = listing[l]
      /\ row.views = old.views /\ row.status = status
      /\ \/ Continue(r) /\ UNCHANGED <<cache, listing>>
         \/ Rewritten(l, row) /\ Do(r, Drop(l, row.owner, both))
  BY <1>1, <1>2, SetStatusIs
<1>5. h[1] \notin Dropping \cup {"insertView"} /\ h[1] \in Final
  BY <1>3 DEF Dropping, Final
<1>6. CASE Continue(r) /\ UNCHANGED <<cache, listing>>
  <2>1. Still /\ \A k : ~Gives(h, k)
    BY <1>3, <1>6, NoGifts DEF Still
  <2>2. QED
    BY <1>1, <1>3, <1>5, <1>6, <2>1, QuietContinue
<1>7. CASE Rewritten(l, row) /\ Do(r, Drop(l, row.owner, both))
  <2>1. PICK A, u, q, got : A = req[r].about /\ u = row.owner /\ q = Drop(l, u, both) /\ got = req[r].got
    OBVIOUS
  <2>2. Minds(h, A) /\ Tail(req[r].todo) = <<>>
    BY <1>0, <1>1, <1>3, <1>5, <2>1, AtHand
  <2>3. l \in A /\ u \in A /\ u = listing[l].owner /\ u \in Users
    BY <1>3, <1>4, <2>1, <2>2 DEF Minds, MindsOwner, Listing, Kin
  <2>4. Fit(q, A) /\ \A k : ~Needs(q, k)
    BY <1>4, <2>1, <2>3, DropFits
  <2>5. Goes(r, q, got)
    <3>1. q \o <<>> = q
      BY <2>4, NoStepAfter DEF Fit
    <3>2. QED
      BY <1>7, <2>1, <2>2, <3>1 DEF Do
  <2>6. Growth
    BY <1>4, <1>7, RewrittenGrowth
  <2>7. ASSUME NEW k \in Soft, k[2] \notin A PROVE Steady(k)
    <3>1. k[2] # l /\ k[2] # u
      BY <2>3, <2>7
    <3>2. k[2] \in Users => PageKept(k[2])
      BY <1>4, <1>7, <2>1, <3>1, PageSame DEF PageKept
    <3>3. QED
      BY <1>4, <1>7, <3>1, <3>2, RewrittenSteady
  <2>8. Minding(r)
    BY <2>1, <2>7 DEF Minding
  <2>9. Shaped' /\ Elsewhere(r) /\ req'[r].todo = q /\ UNCHANGED <<mix, calls, faults, contended>>
    BY <1>0, <2>1, <2>4, <2>5, <2>6, <2>8, GoesShaped
  <2>10. Drops(r, ListingKey(l))' /\ (both => Drops(r, UserPage(u))')
    BY <2>1, <2>9, DropDrops
  <2>11. ~both => Contended(UserPage(u)) \/ PageKept(u)
    <3>1. CASE l \in contended
      <4>1. u \in Owner(l)
        BY <1>4, <2>3 DEF Owner
      <4>2. ~Calm(u)
        BY <1>4, <3>1, <4>1 DEF Calm
      <4>3. QED
        BY <4>2, KeyIs DEF Contended
    <3>2. CASE old = listing[l]
      <4>1. ~both => ~Shown(l, row)
        BY <1>2, <1>4, <3>2 DEF Shown
      <4>2. QED
        BY <1>4, <1>7, <2>3, <4>1, PageSame DEF PageKept
    <3>3. QED
      BY <1>4, <3>1, <3>2
  <2>12. Tracked(r, l, row)
    BY <2>1, <2>10, <2>11 DEF Tracked
  <2>13. Tallied(r, l, row)
    BY <1>4 DEF Tallied
  <2>14. QED
    BY <1>1, <1>3, <1>4, <1>5, <1>7, <2>9, <2>12, <2>13, RewrittenInv
<1>8. QED
  BY <1>4, <1>6, <1>7

LEMMA InsertListingInv ==
  ASSUME Inv, UNCHANGED <<views, favorites, questions, plan, subscriptions>>, NEW r \in Requests, InsertListing(r)
  PROVE  Inv'
<1>0. Shaped /\ TablesOK /\ Cached
  BY DEF Inv
<1>1. PICK h, u, offer, A : h = req[r].todo[1] /\ u = h[2] /\ offer = h[3] /\ A = req[r].about
  OBVIOUS
<1>2. PICK row : row = NewListing(u, offer)
  OBVIOUS
<1>3. /\ req[r].todo # <<>> /\ h[1] = "insertListing" /\ Continue(r) /\ UNCHANGED cache
      /\ \E l \in Listings \ Posted : listing' = [listing EXCEPT ![l] = row]
  <2>1. /\ At(r, "insertListing") /\ Continue(r) /\ UNCHANGED cache
        /\ \E l \in Listings \ Posted : listing' = [listing EXCEPT ![l] = NewListing(Arg(r, 1), Arg(r, 2))]
    BY Zenon DEF InsertListing
  <2>2. h[1] = "insertListing" /\ req[r].todo # <<>> /\ u = Arg(r, 1) /\ offer = Arg(r, 2)
    BY <1>1, <2>1, Arguments
  <2>3. QED
    BY Zenon, <1>2, <2>1, <2>2
<1>4. PICK l \in Listings \ Posted : listing' = [listing EXCEPT ![l] = row]
  BY <1>3
<1>5. /\ StepOK(h) /\ Minds(h, A) /\ \A k \in Facts : Uses(h, k) => Known(r, k)
  BY <1>0, <1>1, <1>3, AtHand
<1>6. u \in Users /\ offer \in Offers /\ DOMAIN offer = Offered /\ u \in A
  BY <1>1, <1>3, <1>5 DEF StepOK, Minds
<1>7. OnePricePerPeriod(offer)
  <2>1. PICK f : f = <<"periods", offer, Nobody>>
    OBVIOUS
  <2>2. f \in Facts /\ f \notin Soft /\ f[1] = "periods" /\ f[2] = offer
    <3>1. f \in Facts
      BY <1>6, <2>1 DEF Facts, Hard
    <3>2. f \notin Soft
      BY <2>1, SoftKinds
    <3>3. QED
      BY <2>1, <3>1, <3>2
  <2>3. Uses(h, f)
    BY <1>1, <1>3, <2>1 DEF Uses
  <2>4. QED
    BY <1>5, <2>2, <2>3 DEF Known, Tells
<1>8. u \in contended \/ UserPage(u) \notin DOMAIN cache
  <2>1. PICK f : f = <<"unpaged", u, Nobody>>
    OBVIOUS
  <2>2. f \in Facts /\ f[1] = "unpaged" /\ f[2] = u /\ f[3] = Nobody
    BY <1>6, <2>1 DEF Facts, Soft
  <2>3. Uses(h, f)
    BY <1>1, <1>3, <2>1 DEF Uses
  <2>4. Nobody \notin Posted
    BY ListingsAssumption DEF Posted
  <2>5. QED
    BY <1>5, <2>2, <2>3, <2>4 DEF Known, Tells
<1>9. /\ row \in ListingRow /\ row.views = 0 /\ row.owner = u /\ row.pricings = offer.pricings
  <2>1. offer \in Given /\ offer.pricings # {}
    BY <1>6, ListingsAssumption DEF Given, Offered
  <2>2. \A c \in Offered : offer[c] \in Values(c)
    BY <1>6, <2>1 DEF Values
  <2>3. /\ row = [c \in ListingColumns |-> row[c]] /\ row.owner = u /\ row.status = "ACTIVE" /\ row.views = 0
        /\ \A c \in Offered : row[c] = offer[c]
    BY <1>2 DEF NewListing, ListingColumns, Offered
  <2>4. ListingColumns = {"type", "title", "pricings", "place", "amenities", "owner", "status", "views"}
    BY DEF ListingColumns, Offered
  <2>5. row = [type |-> row.type, title |-> row.title, pricings |-> row.pricings, place |-> row.place,
               amenities |-> row.amenities, owner |-> row.owner, status |-> row.status, views |-> row.views]
    BY <2>3, <2>4
  <2>6. /\ row.type \in Values("type") /\ row.title \in Values("title") /\ row.pricings \in Values("pricings")
        /\ row.place \in Values("place") /\ row.amenities \in Values("amenities")
    BY <2>2, <2>3 DEF Offered
  <2>7. row.status \in Statuses /\ row.views \in Nat /\ row.owner \in Users
    BY <1>6, <2>3 DEF Statuses
  <2>8. row \in ListingRow
    BY <2>5, <2>6, <2>7 DEF ListingRow
  <2>9. QED
    BY <2>3, <2>8 DEF Offered
<1>10. Whole(row)
  <2>1. "pricings" \in DOMAIN offer /\ offer.pricings # {}
    BY <1>6, ListingsAssumption DEF Offered
  <2>2. QED
    BY <1>7, <1>9, <2>1 DEF Whole, OnePricePerPeriod
<1>11. Rewritten(l, row) /\ Kin(l, row)
  BY <1>3, <1>4 DEF Rewritten, Kin
<1>12. Growth
  BY <1>10, <1>11, RewrittenGrowth
<1>13. ASSUME NEW k \in Soft, k[2] \notin A PROVE Steady(k)
  <2>1. k[2] # u
    BY <1>6, <1>13
  <2>2. k[2] \in Users => PageKept(k[2])
    BY <1>9, <1>10, <1>11, <2>1, PageSame DEF PageKept
  <2>3. QED
    BY <1>4, <1>10, <1>11, <2>2, RewrittenSteady
<1>14. Minding(r)
  BY <1>1, <1>13 DEF Minding
<1>15. h[1] \in Final /\ h[1] \notin Dropping \cup {"insertView"}
  BY <1>3 DEF Final, Dropping
<1>16. Shaped' /\ Elsewhere(r) /\ UNCHANGED <<mix, calls, faults, contended>>
  BY <1>0, <1>1, <1>3, <1>12, <1>14, <1>15, LastShaped
<1>17. Tracked(r, l, row)
  <2>1. ListingKey(l) \notin DOMAIN cache
    BY <1>0, <1>4, KeyCopied, KeyIs DEF Cached, ValueOK
  <2>2. u \in contended => Contended(UserPage(u))
    BY KeyIs DEF Contended, Calm
  <2>3. QED
    BY <1>8, <1>9, <2>1, <2>2 DEF Tracked
<1>18. Tallied(r, l, row)
  <2>1. Viewings(l) = {}
    BY <1>0, <1>4 DEF TablesOK, Viewings
  <2>2. QED
    BY <1>9, <2>1, FS_EmptySet DEF Tallied
<1>19. QED
  BY <1>1, <1>3, <1>4, <1>10, <1>11, <1>15, <1>16, <1>17, <1>18, RewrittenInv

-----------------------------------------------------------------------------
(* The table of plans *)

\* The row of the plan p is written, and nothing else; its name is its own.
Replanned(p, row) ==
  /\ plan' = [plan EXCEPT ![p] = row] /\ ~Taken(row.name, {p})
  /\ UNCHANGED <<cache, listing, views, favorites, questions, subscriptions>>

LEMMA ReplannedIs ==
  ASSUME Inv, NEW p \in Plans, NEW row \in PlanRow, Replanned(p, row)
  PROVE  /\ Existing' = Existing \cup {p} /\ plan'[p] = row /\ \A m \in Plans : m # p => plan'[m] = plan[m]
         /\ plan' \in [Plans -> PlanRow \cup {NoPlan}] /\ Posted' = Posted /\ Growth /\ Existing \subseteq Plans
<1>1. plan \in [Plans -> PlanRow \cup {NoPlan}]
  BY DEF Inv, TablesOK
<1>2. row # NoPlan
  BY SubscriptionsAssumption DEF PlanRow
<1>3. /\ plan'[p] = row /\ \A m \in Plans : m # p => plan'[m] = plan[m]
      /\ plan' \in [Plans -> PlanRow \cup {NoPlan}]
  BY <1>1 DEF Replanned
<1>4. Existing' = Existing \cup {p} /\ Existing \subseteq Plans
  BY <1>2, <1>3 DEF Existing
<1>5. Posted' = Posted
  BY DEF Replanned, Posted
<1>6. \A l \in Posted : listing[l].owner \in Users
  BY PostedTyped DEF Inv
<1>7. Growth
  BY <1>4, <1>5, <1>6 DEF Growth, Replanned
<1>8. QED
  BY <1>3, <1>4, <1>5, <1>7

LEMMA ReplannedCurrent ==
  ASSUME Inv, NEW p \in Plans, NEW row \in PlanRow, Replanned(p, row), NEW k \in Copied, k # PlanKey(p), k # PlansKey
  PROVE  Current(k)' = Current(k)
<1>1. /\ \A m \in Plans : m # p => plan'[m] = plan[m]
      /\ Posted' = Posted /\ listing' = listing
  BY ReplannedIs DEF Replanned
<1>2. CASE k[1] = "plan"
  <2>1. PICK m \in Plans : k = PlanKey(m) /\ k[2] = m
    BY <1>2, CopiedKinds
  <2>2. QED
    BY <1>1, <1>2, <2>1 DEF Current
<1>3. CASE k[1] \in {"listing", "user:listings"}
  BY <1>1, <1>3 DEF Current, Search, Matches, MatchingPrices
<1>4. QED
  BY <1>2, <1>3, CopiedKinds

LEMMA ReplannedSteady ==
  ASSUME Inv, NEW p \in Plans, NEW row \in PlanRow, Replanned(p, row), NEW k \in Soft,
         k[2] = p => p \notin Existing, k[2] # "plans"
  PROVE  Steady(k)
<1>1. UNCHANGED <<cache, listing, views, favorites, subscriptions>>
  BY DEF Replanned
<1>2. CASE k[1] = "copy"
  <2>1. k[3] \in Copied /\ k[2] = Subject(k[3])
    BY <1>2, SoftKinds
  <2>2. CASE k[3] = PlanKey(p)
    <3>1. k[2] = p
      BY <2>1, <2>2, SubjectIs
    <3>2. ~Present(k[3])
      BY <2>2, <3>1, KeyIs DEF Present
    <3>3. QED
      BY <1>2, <3>2 DEF Steady
  <2>3. CASE k[3] # PlanKey(p)
    <3>1. k[3] # PlansKey
      BY <2>1, SubjectIs
    <3>2. QED
      BY <1>2, <2>1, <2>3, <3>1, ReplannedCurrent DEF Steady
  <2>4. QED
    BY <2>2, <2>3
<1>3. CASE k[1] \in {"favorite", "seen", "novel", "alone", "dropped", "unpaged", "ahead"}
  <2>1. \A m, w : IsFavorite(m, w)' = IsFavorite(m, w)
    BY <1>1 DEF IsFavorite, Rows
  <2>2. Rows(views)' = Rows(views) /\ \A w, q : IsSubscribed(w, q)' = IsSubscribed(w, q)
    BY <1>1 DEF Rows, IsSubscribed
  <2>3. \A m, w : Seen(m, w)' = Seen(m, w)
    BY <1>1, <2>1 DEF Seen, Posted
  <2>4. \A m : Viewings(m)' = Viewings(m)
    BY <1>1 DEF Viewings
  <2>5. QED
    BY <1>1, <1>3, <2>1, <2>2, <2>3, <2>4 DEF Steady
<1>4. QED
  BY <1>2, <1>3, SoftKinds

LEMMA ReplannedInv ==
  ASSUME Inv, NEW p \in Plans, NEW row \in PlanRow, Replanned(p, row), NEW r \in Requests,
         req[r].todo # <<>>, NEW h, h = req[r].todo[1], h[1] \in {"savePlan", "insertPlan"}, Continue(r),
         p \in req[r].about \/ p \notin Existing, Drops(r, PlansKey)', Drops(r, PlanKey(p))' \/ p \notin Existing
  PROVE  Inv'
<1>0. TablesOK /\ Cached /\ InterestInOthers /\ OneSubscription /\ CacheFresh /\ Shaped
  BY DEF Inv, Fresh
<1>1. /\ Existing' = Existing \cup {p} /\ plan'[p] = row /\ \A m \in Plans : m # p => plan'[m] = plan[m]
      /\ plan' \in [Plans -> PlanRow \cup {NoPlan}] /\ Posted' = Posted /\ Growth /\ Existing \subseteq Plans
      /\ UNCHANGED <<cache, listing, views, favorites, questions, subscriptions>>
  BY ReplannedIs DEF Replanned
<1>2. PICK A, q, got : A = req[r].about /\ q = req[r].todo /\ got = req[r].got
  OBVIOUS
<1>3. "plans" \in A /\ \A y \in Steps(Tail(q)) : Ordered(h, y)
  <2>1. Minds(h, A) /\ \A y \in Steps(Tail(q)) : Ordered(h, y)
    BY <1>0, <1>2, AtHand
  <2>2. QED
    BY <2>1 DEF Minds
<1>4. \A k : ~Needs(Tail(q), k)
  <2>1. \A y \in Steps(Tail(q)) : y[1] \in {"delete", "scan", "unlink"}
    BY <1>3 DEF Ordered
  <2>2. QED
    BY <2>1 DEF Needs, Uses, Listing
<1>5. Minding(r)
  <2>1. ASSUME NEW k \in Soft, k[2] \notin A PROVE Steady(k)
    <3>1. (k[2] = p => p \notin Existing) /\ k[2] # "plans"
      BY <1>2, <1>3, <2>1
    <3>2. QED
      BY <3>1, ReplannedSteady
  <2>2. QED
    BY <1>2, <2>1 DEF Minding
<1>6. Goes(r, Tail(req[r].todo), got)
  BY <1>2 DEF Continue
<1>7. Shaped' /\ Elsewhere(r) /\ UNCHANGED <<mix, calls, faults, contended>>
  BY <1>0, <1>1, <1>2, <1>4, <1>5, <1>6, PassShaped
<1>8. TablesOK'
  BY <1>0, <1>1 DEF TablesOK
<1>9. Cached'
  BY <1>0, <1>1, GrowthValues, CopiedSame DEF Cached
<1>10. InterestInOthers'
  BY <1>0, <1>1 DEF InterestInOthers, Rows, Owner
<1>11. OneSubscription'
  <2>1. ASSUME NEW m \in Existing', NEW n \in Existing', m # n PROVE plan'[m].name # plan'[n].name
    <3>1. \A x \in Existing \ {p} : plan[x].name # row.name
      BY DEF Replanned, Taken
    <3>2. CASE m # p /\ n # p
      BY <1>0, <1>1, <2>1, <3>2 DEF OneSubscription
    <3>3. CASE m = p \/ n = p
      BY <1>1, <2>1, <3>1, <3>3
    <3>4. QED
      BY <3>2, <3>3
  <2>2. QED
    BY <1>0, <1>1, <1>7, <2>1 DEF OneSubscription
<1>12. h[1] \notin Dropping /\ h[1] \notin {"delete", "insertView"}
  BY DEF Dropping
<1>13. Balanced' /\ Novel'
  BY <1>1, <1>7, <1>12, CountsRest
<1>14. \A k : ~Drops(r, k)
  BY <1>0, <1>12, NoDrops
<1>15. ASSUME NEW k \in Copied, k \in DOMAIN cache
       PROVE  Contended(k)' \/ cache[k] = Current(k)' \/ \E s \in Requests : Drops(s, k)'
  <2>1. ASSUME NEW s \in Requests, Drops(s, k) PROVE Drops(s, k)'
    BY <1>7, <1>14, <2>1 DEF Drops, Elsewhere
  <2>2. Contended(k) => Contended(k)'
    BY <1>1, <1>7, ContendedStays
  <2>3. CASE k = PlansKey
    BY <2>3
  <2>4. CASE k = PlanKey(p)
    <3>1. p \in Existing
      BY <1>0, <1>15, <2>4, KeyIs DEF Cached, ValueOK
    <3>2. QED
      BY <2>4, <3>1
  <2>5. CASE k # PlansKey /\ k # PlanKey(p)
    <3>1. Current(k)' = Current(k)
      BY <2>5, ReplannedCurrent
    <3>2. QED
      BY <1>0, <1>15, <2>1, <2>2, <3>1 DEF CacheFresh
  <2>6. QED
    BY <2>3, <2>4, <2>5
<1>16. CacheFresh'
  BY <1>1, <1>15, CopiedSame DEF CacheFresh
<1>17. QED
  BY <1>7, <1>8, <1>9, <1>10, <1>11, <1>13, <1>16 DEF Inv, Fresh

-----------------------------------------------------------------------------

LEMMA InsertPlanInv ==
  ASSUME Inv, UNCHANGED <<listing, views, favorites, questions>>, NEW r \in Requests, InsertPlan(r)
  PROVE  Inv'
<1>0. Shaped
  BY DEF Inv
<1>1. PICK h, name, q : h = req[r].todo[1] /\ name = h[2] /\ q = req[r].todo
  OBVIOUS
<1>2. /\ req[r].todo # <<>> /\ h[1] = "insertPlan" /\ UNCHANGED <<cache, subscriptions>>
      /\ \/ Throw(r) /\ UNCHANGED plan
         \/ /\ ~Taken(name, {}) /\ Continue(r)
            /\ \E p \in Plans \ Existing : plan' = [plan EXCEPT ![p] = NewPlan(name)]
  <2>1. /\ At(r, "insertPlan") /\ UNCHANGED <<cache, subscriptions>>
        /\ \/ Throw(r) /\ UNCHANGED plan
           \/ /\ ~Taken(Arg(r, 1), {}) /\ Continue(r)
              /\ \E p \in Plans \ Existing : plan' = [plan EXCEPT ![p] = NewPlan(Arg(r, 1))]
    BY Zenon DEF InsertPlan
  <2>2. h[1] = "insertPlan" /\ req[r].todo # <<>> /\ name = Arg(r, 1)
    BY <1>1, <2>1, Arguments
  <2>3. QED
    BY Zenon, <2>1, <2>2
<1>3. CASE Throw(r) /\ UNCHANGED plan
  <2>1. Still /\ h[1] \notin Dropping \cup {"insertView"}
    BY <1>2, <1>3 DEF Still, Dropping
  <2>2. QED
    BY <1>1, <1>2, <1>3, <2>1, QuietThrow
<1>4. CASE ~Taken(name, {}) /\ Continue(r) /\ \E p \in Plans \ Existing : plan' = [plan EXCEPT ![p] = NewPlan(name)]
  <2>1. PICK p \in Plans \ Existing : plan' = [plan EXCEPT ![p] = NewPlan(name)]
    BY <1>4
  <2>2. PICK row : row = NewPlan(name)
    OBVIOUS
  <2>3. StepOK(h) /\ Program(q) /\ Adjacent(q)
    BY <1>0, <1>1, <1>2, AtHand DEF Shaped, Fit
  <2>4. row \in PlanRow /\ row.name = name
    BY <1>1, <1>2, <2>2, <2>3 DEF StepOK, NewPlan, PlanRow
  <2>5. Replanned(p, row)
    BY <1>2, <1>4, <2>1, <2>2, <2>4 DEF Replanned, Taken
  <2>6. 1 \in DOMAIN Tail(q) /\ Tail(q)[1] = DropPlans
    <3>1. /\ 1 \in DOMAIN q /\ \A i \in DOMAIN Tail(q) : Tail(q)[i] = q[i + 1]
          /\ Len(q) \in Nat /\ Len(Tail(q)) = Len(q) - 1 /\ DOMAIN q = 1..Len(q) /\ DOMAIN Tail(q) = 1..Len(Tail(q))
      BY <1>1, <1>2, <2>3, ProgramTail
    <3>2. 1 + 1 \in DOMAIN q /\ q[1 + 1] = DropPlans
      BY <1>1, <1>2, <2>3, <3>1 DEF Adjacent
    <3>3. QED
      BY <3>1, <3>2
  <2>7. req'[r].todo = Tail(q)
    <3>1. Program(Tail(q)) /\ Proper
      BY <1>0, <1>1, <1>2, <2>3, ProgramTail DEF Shaped
    <3>2. QED
      BY <1>1, <1>4, <3>1, GoesOn DEF Continue
  <2>8. Drops(r, PlansKey)'
    <3>1. PICK t, S : t = req'[r].todo /\ S = {PlansKey}
      OBVIOUS
    <3>2. 1 \in DOMAIN t /\ t[1] = <<"scan", S>>
      BY <2>6, <2>7, <3>1 DEF DropPlans
    <3>3. t[1][1] = "scan" /\ t[1][2] = S /\ PlansKey \in S /\ \A j \in 1..1 : j = 1
      BY <3>1, <3>2
    <3>4. (\A j \in 1..1 : t[j][1] \in Dropping) /\ t[1][1] # "delete"
      BY <3>3 DEF Dropping
    <3>5. QED
      BY <3>1, <3>2, <3>3, <3>4 DEF Drops
  <2>9. QED
    BY <1>1, <1>2, <1>4, <2>4, <2>5, <2>8, ReplannedInv
<1>5. QED
  BY <1>2, <1>3, <1>4

LEMMA SavePlanInv ==
  ASSUME Inv, UNCHANGED <<listing, views, favorites, questions>>, NEW r \in Requests, SavePlan(r)
  PROVE  Inv'
<1>0. Shaped
  BY DEF Inv
<1>1. PICK h, p, patch, old, q : /\ h = req[r].todo[1] /\ p = h[2] /\ patch = h[3] /\ q = req[r].todo
                                 /\ old = Got(r, "plan")
  OBVIOUS
<1>2. PICK row : row = [c \in {"name", "active"} |-> IF c \in DOMAIN patch THEN patch[c] ELSE old[c]]
  OBVIOUS
<1>3. /\ req[r].todo # <<>> /\ h[1] = "savePlan" /\ UNCHANGED <<cache, subscriptions>>
      /\ \/ Throw(r) /\ UNCHANGED plan
         \/ ~Taken(row.name, {p}) /\ Continue(r) /\ plan' = [plan EXCEPT ![p] = row]
  <2>1. /\ At(r, "savePlan") /\ h[1] = "savePlan" /\ req[r].todo # <<>> /\ p = Arg(r, 1) /\ patch = Arg(r, 2)
    BY <1>1, Arguments DEF SavePlan
  <2>2. QED
    BY <1>1, <1>2, <2>1 DEF SavePlan
<1>4. CASE Throw(r) /\ UNCHANGED plan
  <2>1. Still /\ h[1] \notin Dropping \cup {"insertView"}
    BY <1>3, <1>4 DEF Still, Dropping
  <2>2. QED
    BY <1>1, <1>3, <1>4, <2>1, QuietThrow
<1>5. CASE ~Taken(row.name, {p}) /\ Continue(r) /\ plan' = [plan EXCEPT ![p] = row]
  <2>1. /\ StepOK(h) /\ Minds(h, req[r].about) /\ (\A k \in Facts : Uses(h, k) => Known(r, k))
        /\ Program(q) /\ Adjacent(q)
    BY <1>0, <1>1, <1>3, AtHand DEF Shaped, Fit
  <2>2. /\ p \in Plans /\ p \in req[r].about
        /\ (\E n \in Names : patch = [name |-> n]) \/ \E b \in BOOLEAN : patch = [active |-> b]
    BY <1>1, <1>3, <2>1 DEF StepOK, Minds
  <2>3. p \in Existing /\ old \in PlanRow
    <3>1. PICK k, f : k = PlanKey(p) /\ f = <<"typed", p, k>>
      OBVIOUS
    <3>2. /\ k[1] = "plan" /\ k[2] = p /\ f[1] = "typed" /\ f[2] = p /\ f[3] = k
          /\ f \in Facts /\ f \notin Soft
      <4>1. k \in Copied /\ Subject(k) = p
        BY <2>2, <3>1, KeyCopied, SubjectIs
      <4>2. QED
        BY <3>1, <4>1, CopyFact, KeyIs
    <3>3. RowOf(h) = k
      BY <1>1, <1>3, <3>1 DEF RowOf
    <3>4. Uses(h, f)
      BY <1>1, <1>3, <3>1, <3>3 DEF Uses
    <3>5. Known(r, f)
      BY <2>1, <3>2, <3>4
    <3>6. ValueOK(k, req[r].got["plan"])
      BY <3>2, <3>5 DEF Known, Tells
    <3>7. QED
      BY <1>1, <3>2, <3>6 DEF ValueOK, Got
  <2>4. row \in PlanRow
    BY <1>2, <2>2, <2>3 DEF PlanRow
  <2>5. Replanned(p, row)
    BY <1>3, <1>5 DEF Replanned
  <2>6. /\ 1 \in DOMAIN Tail(q) /\ Tail(q)[1] = <<"delete", PlanKey(p)>>
        /\ 2 \in DOMAIN Tail(q) /\ Tail(q)[2] = DropPlans
    <3>1. /\ 1 \in DOMAIN q /\ \A i \in DOMAIN Tail(q) : Tail(q)[i] = q[i + 1]
          /\ Len(q) \in Nat /\ Len(Tail(q)) = Len(q) - 1 /\ DOMAIN q = 1..Len(q) /\ DOMAIN Tail(q) = 1..Len(Tail(q))
      BY <1>1, <1>3, <2>1, ProgramTail
    <3>2. 1 + 2 \in DOMAIN q /\ q[1 + 1] = <<"delete", PlanKey(p)>> /\ q[1 + 2] = DropPlans
      BY <1>1, <1>3, <2>1, <3>1 DEF Adjacent
    <3>3. QED
      BY <3>1, <3>2
  <2>7. req'[r].todo = Tail(q)
    <3>1. Program(Tail(q)) /\ Proper
      BY <1>0, <1>1, <1>3, <2>1, ProgramTail DEF Shaped
    <3>2. QED
      BY <1>1, <1>5, <3>1, GoesOn DEF Continue
  <2>8. Drops(r, PlanKey(p))'
    BY <2>6, <2>7, DropsNext
  <2>9. Drops(r, PlansKey)'
    <3>1. PICK t, S : t = req'[r].todo /\ S = {PlansKey}
      OBVIOUS
    <3>2. 1 \in DOMAIN t /\ 2 \in DOMAIN t /\ t[1][1] = "delete" /\ t[2] = <<"scan", S>> /\ PlansKey \in S
      BY <2>6, <2>7, <3>1 DEF DropPlans
    <3>3. QED
      BY <3>1, <3>2, DropsThen
  <2>10. QED
    BY <1>1, <1>3, <1>5, <2>2, <2>4, <2>5, <2>8, <2>9, ReplannedInv
<1>6. QED
  BY <1>3, <1>4, <1>5

-----------------------------------------------------------------------------
(* Requests arrive *)

LEMMA BeginInv ==
  ASSUME Inv, Still, NEW r \in Requests, NEW op, NEW A, NEW q, Begin(r, op, A, q), Fit(q, A), Closed(q)
  PROVE  Inv'
<1>0. Shaped
  BY DEF Inv
<1>1. /\ op \in mix.ops /\ calls < mix.calls /\ calls' = calls + 1 /\ Start(r, op, A, q)
  BY DEF Begin
<1>2. Program(q) /\ Proper
  BY <1>0 DEF Fit, Shaped
<1>3. /\ Proper' /\ Elsewhere(r) /\ req[r] = Idle
      /\ req'[r] = [op |-> op, about |-> A, todo |-> q, got |-> <<>>]
      /\ contended' = contended \cup (A \cap Others(r)) /\ UNCHANGED <<mix, faults>>
  BY <1>1, <1>2, Starts
<1>4. req'[r].op = op /\ req'[r].about = A /\ req'[r].todo = q /\ req[r].todo = <<>> /\ contended \subseteq contended'
  BY <1>3 DEF Idle
<1>5. Growth /\ Minding(r)
  BY StillGrowth, StillMinding
<1>6. Apart'
  BY <1>0, <1>3, <1>4, ApartWhenMore DEF Shaped
<1>7. Counted'
  <2>1. mix.calls \in Nat
    BY <1>0, HandlersAssumption DEF Shaped, Counted
  <2>2. calls' \in 0..mix.calls
    BY <1>0, <1>1, <2>1 DEF Shaped, Counted
  <2>3. \A s \in Requests : req'[s].op \in mix.ops \cup {"none"}
    BY <1>0, <1>1, <1>3, <1>4 DEF Shaped, Counted, Elsewhere
  <2>4. QED
    BY <1>0, <1>3, <2>2, <2>3 DEF Shaped, Counted
<1>8. Fit(req[r].todo, req[r].about)' /\ Knows(r)'
  <2>1. Fit(q, A)'
    BY <1>5, FitStays
  <2>2. \A k \in Facts : ~Needs(q, k)
    BY DEF Closed
  <2>3. QED
    BY <1>4, <2>1, <2>2, FactsStay DEF Knows, Needs, Uses, Gives
<1>9. ASSUME NEW s \in Requests PROVE Fit(req[s].todo, req[s].about)' /\ Knows(s)'
  <2>1. CASE s = r
    BY <1>8, <2>1
  <2>2. CASE s # r
    BY <1>0, <1>3, <1>4, <1>5, <2>2, OthersStay
  <2>3. QED
    BY <2>1, <2>2
<1>10. Shaped'
  BY <1>3, <1>6, <1>7, <1>9 DEF Shaped
<1>11. \A k : ~Drops(r, k) /\ ~Needs(req[r].todo, k)
  <2>1. DOMAIN req[r].todo = {}
    BY <1>4
  <2>2. QED
    BY <1>4, <2>1, NeedsNothing DEF Drops
<1>12. QED
  BY <1>3, <1>4, <1>10, <1>11, StillRest

-----------------------------------------------------------------------------
(* Reads through the cache *)

Reads(k, y) == <<<<"get", k>>, y, <<"set", k>>>>

LEMMA ReadsFit ==
  ASSUME NEW k, NEW A, NEW y, y[1] \in {"select", "search"}, y[2] = k, StepOK(y),
         k \in Copied \/ k[1] = "listings", k[1] = "listings" \/ Subject(k) \in A, NEW q, q = Reads(k, y)
  PROVE  /\ Fit(q, A) /\ Steps(q) = {<<"get", k>>, y, <<"set", k>>} /\ Program(q)
         /\ Closed(q)
<1>1. PICK a, c : a = <<"get", k>> /\ c = <<"set", k>>
  OBVIOUS
<1>2. a[1] = "get" /\ a[2] = k /\ c[1] = "set" /\ c[2] = k /\ q = <<a, y, c>>
  BY <1>1 DEF Reads
<1>3. StepOK(a) /\ StepOK(c)
  BY <1>2 DEF StepOK, Plain, Listing
<1>4. Minds(a, A) /\ Minds(c, A) /\ Minds(y, A)
  BY <1>2 DEF Minds, Listing
<1>5. \A f : Copying(f) /\ Uses(c, f) => f[3] = k
  BY <1>2 DEF Copying, Uses, Listing
<1>6. \A f : ~Uses(y, f) /\ ~Uses(a, f)
  BY <1>2 DEF Uses, Listing
<1>7. Ordered(a, y) /\ Ordered(a, c) /\ Ordered(y, c)
  BY <1>2, <1>5, <1>6 DEF Ordered
<1>8. Program(q) /\ Steps(q) = {a, y, c} /\ q[1] = a /\ q[2] = y /\ q[3] = c /\ DOMAIN q = 1..3
  BY <1>2, ProgramOf3
<1>9. Adjacent(q)
  <2>1. 1 + 2 \in DOMAIN q /\ q[1 + 1] = y /\ q[1 + 2] = c
    BY <1>8
  <2>2. \A i \in DOMAIN q : i # 1 => q[i][1] \in {"select", "search", "set"}
    BY <1>2, <1>8
  <2>3. QED
    BY <1>1, <1>2, <1>8, <2>1, <2>2 DEF Adjacent
<1>10. Counting(q)
  BY <1>2, <1>8, NotCounting
<1>11. a[1] \notin Final /\ y[1] \notin Final
  BY <1>2 DEF Final
<1>12. Fit(q, A)
  BY <1>2, <1>3, <1>4, <1>7, <1>9, <1>10, <1>11, FitOf3
<1>13. Closed(q)
  <2>1. ASSUME NEW f \in Facts, Uses(c, f) PROVE Gives(y, f)
    BY <1>2, <2>1 DEF Uses, Gives, Listing
  <2>2. QED
    BY <1>6, <1>8, <2>1 DEF Closed, Needs
<1>14. QED
  BY <1>1, <1>8, <1>12, <1>13

\* getOrSet for a key that copies a table.
LEMMA GetOrSetFits ==
  ASSUME NEW k \in Copied, k[1] # "user:listings", NEW A, Subject(k) \in A
  PROVE  /\ Fit(GetOrSet(k), A) /\ Program(GetOrSet(k)) /\ Closed(GetOrSet(k))
         /\ Steps(GetOrSet(k)) = {<<"get", k>>, <<"select", k>>, <<"set", k>>}
<1>1. PICK y : y = <<"select", k>>
  OBVIOUS
<1>2. y[1] = "select" /\ y[2] = k /\ GetOrSet(k) = Reads(k, y)
  BY <1>1 DEF GetOrSet, Reads
<1>3. StepOK(y)
  BY <1>2 DEF StepOK, Plain, Listing
<1>4. QED
  BY <1>1, <1>2, <1>3, ReadsFit

\* The listing, or the plan, is read and steps follow that know it.
Follows(p, k) ==
  /\ (\E x \in Steps(p) : x[1] = "insertView") => (\E x \in Steps(p) : x[1] = "countView")
  /\ \A y \in Steps(p) : y[1] \notin Reading \cup {"set", "saveListing", "insertListing"}
  /\ \A y \in Steps(p), f \in Facts : Copying(f) /\ Uses(y, f) => f[3] = k

LEMMA ReadThenFits ==
  ASSUME NEW k \in Copied, k[1] # "user:listings", NEW A, Subject(k) \in A, NEW p, Fit(p, A), Follows(p, k),
         NEW q, q = GetOrSet(k) \o p
  PROVE  /\ Fit(q, A) /\ Program(q) /\ Steps(q) = {<<"get", k>>, <<"select", k>>, <<"set", k>>} \cup Steps(p)
<1>1. PICK a, b, c : a = <<"get", k>> /\ b = <<"select", k>> /\ c = <<"set", k>>
  OBVIOUS
<1>2. a[1] = "get" /\ a[2] = k /\ b[1] = "select" /\ b[2] = k /\ c[1] = "set" /\ c[2] = k
  BY <1>1
<1>3. PICK g : g = GetOrSet(k)
  OBVIOUS
<1>4. Fit(g, A) /\ Program(g) /\ Steps(g) = {a, b, c} /\ Program(p)
  BY <1>1, <1>3, GetOrSetFits DEF Fit
<1>5. Program(g \o p) /\ Steps(g \o p) = {a, b, c} \cup Steps(p)
  BY <1>4, ProgramJoin
<1>6. ASSUME NEW y \in Steps(p) PROVE Ordered(a, y) /\ Ordered(b, y) /\ Ordered(c, y)
  BY <1>2, <1>6 DEF Ordered, Reading, Follows
<1>7. \A x \in Steps(g), y \in Steps(p) : Ordered(x, y)
  BY <1>4, <1>6
<1>8. Counting(g \o p)
  BY <1>2, <1>5 DEF Counting, Follows
<1>9. \A x \in Steps(g) : x[1] \notin Final
  BY <1>2, <1>4 DEF Final
<1>10. Fit(g \o p, A)
  BY <1>4, <1>7, <1>8, <1>9, FitJoin
<1>11. QED
  BY <1>1, <1>3, <1>5, <1>10

LEMMA ProgramsAssociate ==
  ASSUME NEW a, NEW b, NEW c, Program(a), Program(b), Program(c)
  PROVE  (a \o b) \o c = a \o (b \o c)
<1>1. PICK S : S = Steps(a) \cup Steps(b) \cup Steps(c)
  OBVIOUS
<1>2. a \in Seq(S) /\ b \in Seq(S) /\ c \in Seq(S)
  <2>1. a \in Seq(Steps(a)) /\ b \in Seq(Steps(b)) /\ c \in Seq(Steps(c))
    BY DEF Program
  <2>2. Steps(a) \subseteq S /\ Steps(b) \subseteq S /\ Steps(c) \subseteq S
    BY <1>1
  <2>3. QED
    BY <2>1, <2>2, SeqMonotonic
<1>3. QED
  BY <1>2, ConcatAssociative

\* The listing is read and a step x follows that knows it.
Informed(x, l) == x[1] \in {"prepare", "setStatus", "ask"} /\ x[2] = l

LEMMA ListingThenFits ==
  ASSUME NEW l \in Listings, NEW A, l \in A, NEW x, Informed(x, l), StepOK(x), Minds(x, A),
         NEW q, q = FindByIdWithCache(l) \o <<x>>
  PROVE  Fit(q, A) /\ Program(q) /\ Closed(q) /\ \A y \in Steps(q) : y[1] \notin {"insertView", "owns"}
<1>1. PICK k, a, b, c : k = ListingKey(l) /\ a = <<"get", k>> /\ b = <<"select", k>> /\ c = <<"set", k>>
  OBVIOUS
<1>2. /\ a[1] = "get" /\ a[2] = k /\ b[1] = "select" /\ b[2] = k /\ c[1] = "set" /\ c[2] = k
      /\ k \in Copied /\ k[1] = "listing" /\ Subject(k) = l
  BY <1>1, KeyCopied, KeyIs, SubjectIs
<1>3. PICK p : p = <<x>>
  OBVIOUS
<1>4. x[1] \in {"prepare", "setStatus", "ask"} /\ x[2] = l
  BY DEF Informed
<1>5. Fit(p, A) /\ Steps(p) = {x}
  BY <1>3, <1>4, FitOf1, ProgramOf1 DEF Linked
<1>6. RowOf(x) = k
  BY <1>1, <1>4 DEF RowOf
<1>7. \A f \in Facts : Uses(x, f) => f = <<"copy", l, k>> \/ f = <<"typed", l, k>>
  BY <1>4, <1>6 DEF Uses, Listing
<1>8. \A f \in Facts : Uses(x, f) => f[3] = k
  BY <1>7
<1>9. q = GetOrSet(k) \o p
  BY <1>1, <1>3 DEF FindByIdWithCache
<1>10. Follows(p, k)
  BY <1>4, <1>5, <1>8 DEF Follows, Reading
<1>11. Fit(q, A) /\ Program(q) /\ Steps(q) = {a, b, c, x}
  <2>1. k[1] # "user:listings" /\ Subject(k) \in A
    BY <1>2
  <2>2. Fit(q, A) /\ Program(q) /\ Steps(q) = {<<"get", k>>, <<"select", k>>, <<"set", k>>} \cup Steps(p)
    BY <1>2, <1>5, <1>9, <1>10, <2>1, ReadThenFits
  <2>3. QED
    BY <1>1, <1>5, <2>2
<1>12. Closed(q)
  <2>1. ASSUME NEW f \in Facts, NEW y \in Steps(q), Uses(y, f) PROVE Gives(b, f)
    <3>1. CASE y = x
      <4>1. f = <<"copy", l, k>> \/ f = <<"typed", l, k>>
        BY <1>7, <2>1, <3>1
      <4>2. QED
        BY <1>2, <4>1 DEF Gives
    <3>2. CASE y = c
      BY <1>2, <2>1, <3>2 DEF Uses, Gives, Listing
    <3>3. CASE y \in {a, b}
      BY <1>2, <2>1, <3>3 DEF Uses, Listing
    <3>4. QED
      BY <1>11, <2>1, <3>1, <3>2, <3>3
  <2>2. QED
    BY <1>11, <2>1 DEF Closed, Needs
<1>13. QED
  BY <1>2, <1>4, <1>11, <1>12

\* The owner is checked first.
LEMMA OwnsFits ==
  ASSUME NEW l \in Listings, NEW u, NEW A, NEW p, Fit(p, A), Closed(p), \A y \in Steps(p) : y[1] # "insertView",
         NEW q, q = <<<<"owns", l, u>>>> \o p
  PROVE  Fit(q, A) /\ Closed(q)
<1>1. PICK o, s : o = <<"owns", l, u>> /\ s = <<o>>
  OBVIOUS
<1>2. o[1] = "owns" /\ StepOK(o) /\ Minds(o, A)
  BY <1>1 DEF StepOK, Plain, Listing, Minds
<1>3. Fit(s, A) /\ Steps(s) = {o} /\ Program(s) /\ Program(p)
  BY <1>1, <1>2, FitOf1, ProgramOf1 DEF Linked, Fit
<1>4. Steps(s \o p) = {o} \cup Steps(p)
  BY <1>3, ProgramJoin
<1>5. Fit(s \o p, A)
  <2>1. Counting(s \o p)
    BY <1>2, <1>4, NotCounting
  <2>2. \A x \in Steps(s), y \in Steps(p) : Ordered(x, y)
    BY <1>2, <1>3 DEF Ordered
  <2>3. \A x \in Steps(s) : x[1] \notin Final
    BY <1>2, <1>3 DEF Final
  <2>4. QED
    BY <1>3, <2>1, <2>2, <2>3, FitJoin
<1>6. Closed(s \o p)
  <2>1. \A k : ~Uses(o, k)
    BY <1>2 DEF Uses, Listing
  <2>2. \A k : Needs(s \o p, k) => Needs(p, k)
    BY <1>4, <2>1 DEF Needs
  <2>3. QED
    BY <2>2 DEF Closed
<1>7. QED
  BY <1>1, <1>5, <1>6

-----------------------------------------------------------------------------
(* The programs on listings *)

LEMMA FindAllFits ==
  ASSUME NEW dto, NEW u, NEW A, u \in Users \cup {Nobody}, u = Nobody \/ u \in A, NEW q, q = FindAllWithCache(dto, u)
  PROVE  Fit(q, A) /\ Closed(q)
<1>1. CASE CanCacheUserActiveListings(u, dto)
  <2>1. PICK k, y : k = UserPage(u) /\ y = <<"search", k, dto, u>>
    OBVIOUS
  <2>2. u \in Users /\ u # Nobody
    BY <1>1 DEF CanCacheUserActiveListings
  <2>3. y[1] = "search" /\ y[2] = k /\ y[3] = dto /\ y[4] = u /\ q = Reads(k, y)
    <3>1. PICK mine, typed : mine = CanCacheUserActiveListings(u, dto) /\ typed = CanCacheTypeListings(u, dto)
      OBVIOUS
    <3>2. mine /\ ~typed
      BY <1>1, <3>1 DEF CanCacheUserActiveListings, CanCacheTypeListings
    <3>3. q = CachedSearch(UserPage(u), dto, u)
      BY <3>1, <3>2, Zenon DEF FindAllWithCache
    <3>4. QED
      BY <2>1, <3>3 DEF CachedSearch, Reads
  <2>4. StepOK(y)
    BY <1>1, <2>1, <2>2, <2>3 DEF StepOK, Plain, Listing
  <2>5. k \in Copied /\ Subject(k) \in A
    BY <2>1, <2>2, KeyCopied, SubjectIs
  <2>6. QED
    BY <2>3, <2>4, <2>5, ReadsFit
<1>2. CASE ~CanCacheUserActiveListings(u, dto) /\ CanCacheTypeListings(u, dto)
  <2>1. PICK k, y : k = TypePage(dto.types) /\ y = <<"search", k, dto, u>>
    OBVIOUS
  <2>2. k[1] = "listings"
    BY <2>1 DEF TypePage
  <2>3. y[1] = "search" /\ y[2] = k /\ q = Reads(k, y)
    <3>1. q = CachedSearch(TypePage(dto.types), dto, u)
      BY <1>2, Zenon DEF FindAllWithCache
    <3>2. QED
      BY <2>1, <3>1 DEF CachedSearch, Reads
  <2>4. StepOK(y)
    BY <2>2, <2>3 DEF StepOK, Plain, Listing
  <2>5. QED
    BY <2>2, <2>3, <2>4, ReadsFit
<1>3. CASE ~CanCacheUserActiveListings(u, dto) /\ ~CanCacheTypeListings(u, dto)
  <2>1. PICK k, y : k = <<"page">> /\ y = <<"search", k, dto, u>>
    OBVIOUS
  <2>2. y[1] = "search" /\ y[2] = k /\ k[1] = "page" /\ q = <<y>>
    BY <1>3, <2>1 DEF FindAllWithCache
  <2>3. StepOK(y) /\ Minds(y, A) /\ y[1] \notin Linked
    BY <2>2 DEF StepOK, Plain, Listing, Minds, Linked
  <2>4. Fit(q, A)
    BY <2>2, <2>3, FitOf1
  <2>5. Steps(q) = {y} /\ \A f : ~Uses(y, f)
    BY <2>2, ProgramOf1 DEF Uses, Listing
  <2>6. QED
    BY <2>4, <2>5 DEF Closed, Needs
<1>4. QED
  BY <1>1, <1>2, <1>3

LEMMA UpdateFits ==
  ASSUME NEW l \in Listings, NEW u, NEW offer \in Offers, NEW A, l \in A, MindsOwner(l, A), NEW q, q = Update(l, u, offer)
  PROVE  Fit(q, A) /\ Closed(q)
<1>1. PICK o, x, s, g, t : /\ o = <<"owns", l, u>> /\ x = <<"prepare", l, offer>>
                           /\ s = <<o>> /\ g = FindByIdWithCache(l) /\ t = <<x>>
  OBVIOUS
<1>2. x[1] = "prepare" /\ x[2] = l /\ x[3] = offer
  BY <1>1
<1>3. StepOK(x) /\ Minds(x, A)
  BY <1>2 DEF StepOK, Final, Listing, Minds
<1>4. PICK p : p = g \o t
  OBVIOUS
<1>5. Fit(p, A) /\ Program(p) /\ Closed(p) /\ \A y \in Steps(p) : y[1] # "insertView"
  <2>1. Informed(x, l)
    BY <1>2 DEF Informed
  <2>2. p = FindByIdWithCache(l) \o <<x>>
    BY <1>1, <1>4
  <2>3. Fit(p, A) /\ Program(p) /\ Closed(p) /\ \A y \in Steps(p) : y[1] \notin {"insertView", "owns"}
    BY <1>3, <2>1, <2>2, ListingThenFits
  <2>4. QED
    BY <2>3
<1>6. Program(s) /\ Program(g) /\ Program(t)
  <2>1. ListingKey(l) \in Copied /\ ListingKey(l)[1] = "listing" /\ Subject(ListingKey(l)) = l
    BY KeyCopied, KeyIs, SubjectIs
  <2>2. Program(g)
    BY <1>1, <2>1, GetOrSetFits DEF FindByIdWithCache
  <2>3. QED
    BY <1>1, <2>2, ProgramOf1
<1>7. q = (s \o g) \o t
  BY <1>1 DEF Update
<1>8. q = s \o p
  <2>1. (s \o g) \o t = s \o (g \o t)
    BY <1>6, ProgramsAssociate
  <2>2. QED
    BY <1>4, <1>7, <2>1
<1>9. QED
  BY <1>1, <1>5, <1>8, OwnsFits

LEMMA UpdateStatusFits ==
  ASSUME NEW l \in Listings, NEW status \in Statuses, NEW A, l \in A, MindsOwner(l, A), NEW q, q = UpdateStatus(l, status)
  PROVE  Fit(q, A) /\ Closed(q) /\ \A y \in Steps(q) : y[1] # "insertView"
<1>1. PICK x : x = <<"setStatus", l, status>>
  OBVIOUS
<1>2. x[1] = "setStatus" /\ x[2] = l /\ x[3] = status
  BY <1>1
<1>3. StepOK(x) /\ Minds(x, A)
  BY <1>2 DEF StepOK, Final, Listing, Minds
<1>4. Informed(x, l) /\ q = FindByIdWithCache(l) \o <<x>>
  BY <1>1, <1>2 DEF Informed, UpdateStatus
<1>5. Fit(q, A) /\ Program(q) /\ Closed(q) /\ \A y \in Steps(q) : y[1] \notin {"insertView", "owns"}
  BY <1>3, <1>4, ListingThenFits
<1>6. QED
  BY <1>5

LEMMA CreateFits ==
  ASSUME NEW u \in Users, NEW offer \in Offers, DOMAIN offer = Offered, NEW A, u \in A, NEW q, q = Create(u, offer)
  PROVE  Fit(q, A) /\ Closed(q)
<1>1. PICK a, b, c, d : /\ a = <<"periods", offer>> /\ b = <<"geocode">> /\ c = <<"scan", {UserPage(u)}>>
                        /\ d = <<"insertListing", u, offer>>
  OBVIOUS
<1>2. /\ a[1] = "periods" /\ a[2] = offer /\ b[1] = "geocode" /\ c[1] = "scan" /\ c[2] = {UserPage(u)}
      /\ d[1] = "insertListing" /\ d[2] = u /\ d[3] = offer
  BY <1>1
<1>3. UserPage(u) \in Copied /\ Subject(UserPage(u)) = u
  BY KeyCopied, SubjectIs
<1>4. StepOK(a) /\ StepOK(b) /\ StepOK(c) /\ StepOK(d)
  BY <1>2, <1>3 DEF StepOK, Plain, Final, Listing
<1>5. Minds(a, A) /\ Minds(b, A) /\ Minds(c, A) /\ Minds(d, A)
  BY <1>2, <1>3 DEF Minds, Listing
<1>6. \A x, y \in {a, b, c, d} : x # d => Ordered(x, y)
  BY <1>2 DEF Ordered
<1>7. PICK p, s : p = <<a, b>> /\ s = <<c, d>>
  OBVIOUS
<1>8. Program(p) /\ Steps(p) = {a, b} /\ Program(s) /\ Steps(s) = {c, d}
  BY <1>7, ProgramOf2
<1>9. a[1] \notin Final /\ b[1] \notin Final /\ c[1] \notin Final
  BY <1>2 DEF Final
<1>10. Adjacent(p) /\ Adjacent(s) /\ Counting(p) /\ Counting(s)
  BY <1>2, <1>8, NotLinked, NotCounting DEF Linked
<1>11. a # d /\ b # d /\ c # d
  BY <1>2
<1>12. Fit(p, A) /\ Fit(s, A)
  BY <1>4, <1>5, <1>6, <1>7, <1>9, <1>10, <1>11, FitOf2
<1>13. p \o s = q
  BY <1>1, <1>7, JoinOf2 DEF Create
<1>14. Steps(q) = {a, b, c, d}
  <2>1. Steps(p \o s) = Steps(p) \cup Steps(s)
    BY <1>8, ProgramJoin
  <2>2. QED
    BY <1>8, <1>13, <2>1
<1>15. Fit(q, A)
  <2>1. Counting(q)
    BY <1>2, <1>14, NotCounting
  <2>2. QED
    BY <1>6, <1>8, <1>9, <1>11, <1>12, <1>13, <2>1, FitJoin
<1>16. Closed(q)
  <2>1. ASSUME NEW k \in Facts, NEW x \in {a, b, c, d}, Uses(x, k) PROVE Gives(a, k) \/ Gives(c, k)
    <3>1. x = d
      BY <1>2, <2>1 DEF Uses, Listing
    <3>2. k = <<"periods", offer, Nobody>> \/ k = <<"unpaged", u, Nobody>>
      BY <1>2, <2>1, <3>1 DEF Uses, Listing
    <3>3. QED
      BY <1>2, <3>2 DEF Gives
  <2>2. QED
    BY <1>14, <2>1 DEF Closed, Needs
<1>17. QED
  BY <1>15, <1>16

-----------------------------------------------------------------------------
(* The programs of those who are interested *)

LEMMA JoinOf1And3 ==
  ASSUME NEW a, NEW b, NEW c, NEW d
  PROVE  <<a>> \o <<b, c, d>> = <<a, b, c, d>>
<1> DEFINE S == {a, b, c, d}
<1>1. <<a>> \in Seq(S) /\ <<b, c, d>> \in Seq(S) /\ <<a, b, c, d>> \in Seq(S)
  OBVIOUS
<1>2. Len(<<a>> \o <<b, c, d>>) = 4 /\ \A i \in 1..4 : (<<a>> \o <<b, c, d>>)[i] = <<a, b, c, d>>[i]
  BY <1>1
<1>3. <<a>> \o <<b, c, d>> \in Seq(S)
  BY <1>1
<1>4. QED
  BY <1>1, <1>2, <1>3, SeqEqual

\* A view is counted once, the key is dropped, and the view is inserted.
LEMMA HistoryFits ==
  ASSUME NEW l \in Listings, NEW u \in Users, NEW A, l \in A, NEW n, n = <<"notViewed", l, u>>,
         NEW c, c = <<"countView", l>>, NEW d, d = <<"delete", ListingKey(l)>>, NEW i, i = <<"insertView", l, u>>,
         NEW q, q = UpdateViewHistory(l, u)
  PROVE  Fit(q, A) /\ Steps(q) = {n, c, d, i} /\ Program(q)
<1>1. /\ n[1] = "notViewed" /\ n[2] = l /\ n[3] = u /\ c[1] = "countView" /\ c[2] = l
      /\ d[1] = "delete" /\ d[2] = ListingKey(l) /\ i[1] = "insertView" /\ i[2] = l /\ i[3] = u
  OBVIOUS
<1>2. ListingKey(l) \in Copied /\ Subject(ListingKey(l)) = l
  BY KeyCopied, SubjectIs
<1>3. StepOK(n) /\ StepOK(c) /\ StepOK(d) /\ StepOK(i)
  BY <1>1, <1>2 DEF StepOK, Plain, Final, Listing
<1>4. Minds(n, A) /\ Minds(c, A) /\ Minds(d, A) /\ Minds(i, A)
  BY <1>1, <1>2 DEF Minds, Listing
<1>5. /\ Ordered(n, c) /\ Ordered(n, d) /\ Ordered(n, i)
      /\ Ordered(c, d) /\ Ordered(c, i) /\ Ordered(d, i)
  BY <1>1 DEF Ordered
<1>6. n[1] \notin Final /\ c[1] \notin Final /\ d[1] \notin Final /\ n[1] \notin Linked
  BY <1>1 DEF Final, Linked
<1>7. PICK p, s : p = <<n>> /\ s = <<c, d, i>>
  OBVIOUS
<1>8. Fit(p, A) /\ Program(p) /\ Steps(p) = {n}
  BY <1>3, <1>4, <1>6, <1>7, FitOf1, ProgramOf1
<1>9. Program(s) /\ Steps(s) = {c, d, i} /\ s[1] = c /\ s[2] = d /\ s[3] = i /\ DOMAIN s = 1..3
  BY <1>7, ProgramOf3
<1>10. Adjacent(s)
  <2>1. 1 + 2 \in DOMAIN s /\ s[1 + 1] = d /\ s[1 + 2] = i
    BY <1>9
  <2>2. \A j \in DOMAIN s : j # 1 => s[j][1] \in {"delete", "insertView"}
    BY <1>1, <1>9
  <2>3. QED
    BY <1>1, <1>9, <2>1, <2>2 DEF Adjacent
<1>11. Counting(s)
  BY <1>1, <1>9 DEF Counting
<1>12. Fit(s, A)
  BY <1>3, <1>4, <1>5, <1>6, <1>7, <1>10, <1>11, FitOf3
<1>13. q = p \o s
  BY <1>7, JoinOf1And3 DEF UpdateViewHistory
<1>14. Steps(p \o s) = {n, c, d, i} /\ Program(p \o s)
  <2>1. Steps(p \o s) = Steps(p) \cup Steps(s) /\ Program(p \o s)
    BY <1>8, <1>9, ProgramJoin
  <2>2. QED
    BY <1>8, <1>9, <2>1
<1>15. Counting(p \o s)
  BY <1>1, <1>14 DEF Counting
<1>16. Fit(p \o s, A)
  <2>1. \A x \in Steps(p), y \in Steps(s) : Ordered(x, y)
    BY <1>5, <1>8, <1>9
  <2>2. \A x \in Steps(p) : x[1] \notin Final
    BY <1>6, <1>8
  <2>3. QED
    BY <1>8, <1>12, <1>15, <2>1, <2>2, FitJoin
<1>17. QED
  BY <1>13, <1>14, <1>16

\* Who may read the listing sees it.
Visiting(l, u) == <<<<"visible", l, u>>, <<"show", l, u>>>>

LEMMA VisitingFits ==
  ASSUME NEW l \in Listings, NEW u \in Users \cup {Nobody}, NEW A, l \in A, NEW v, v = <<"visible", l, u>>,
         NEW s, s = <<"show", l, u>>, NEW q, q = Visiting(l, u)
  PROVE  Fit(q, A) /\ Steps(q) = {v, s} /\ Program(q)
<1>1. v[1] = "visible" /\ v[2] = l /\ v[3] = u /\ s[1] = "show" /\ s[2] = l /\ s[3] = u /\ q = <<v, s>>
  BY DEF Visiting
<1>2. StepOK(v) /\ StepOK(s) /\ Minds(v, A) /\ Minds(s, A)
  BY <1>1 DEF StepOK, Plain, Listing, Minds
<1>3. Ordered(v, s) /\ v[1] \notin Final
  BY <1>1 DEF Ordered, Reading, Final
<1>4. Steps(q) = {v, s} /\ Program(q)
  BY <1>1, ProgramOf2
<1>5. Adjacent(q) /\ Counting(q)
  BY <1>1, <1>4, NotLinked, NotCounting DEF Linked
<1>6. QED
  BY <1>1, <1>2, <1>3, <1>4, <1>5, FitOf2

\* Whoever is not signed in reads the listing.
LEMMA GuestFits ==
  ASSUME NEW l \in Listings, NEW A, l \in A, NEW q, q = FindById(l, Nobody)
  PROVE  Fit(q, A) /\ Closed(q)
<1>1. PICK k, a, b, c, v, s : /\ k = ListingKey(l) /\ a = <<"get", k>> /\ b = <<"select", k>> /\ c = <<"set", k>>
                              /\ v = <<"visible", l, Nobody>> /\ s = <<"show", l, Nobody>>
  OBVIOUS
<1>2. /\ a[1] = "get" /\ a[2] = k /\ b[1] = "select" /\ b[2] = k /\ c[1] = "set" /\ c[2] = k
      /\ v[1] = "visible" /\ v[2] = l /\ v[3] = Nobody /\ s[1] = "show" /\ s[2] = l /\ s[3] = Nobody
      /\ k \in Copied /\ k[1] = "listing" /\ Subject(k) = l
  BY <1>1, KeyCopied, KeyIs, SubjectIs
<1>3. PICK g, p : g = GetOrSet(k) /\ p = Visiting(l, Nobody)
  OBVIOUS
<1>4. Fit(p, A) /\ Steps(p) = {v, s} /\ Program(p)
  BY <1>1, <1>3, VisitingFits
<1>5. Program(g)
  BY <1>2, <1>3, GetOrSetFits
<1>6. q = g \o p
  <2>1. q = ((<<>> \o g) \o p) \o <<>>
    BY <1>1, <1>3 DEF FindById, FindByIdWithCache, Visiting
  <2>2. <<>> \o g = g /\ Program(g \o p)
    BY <1>4, <1>5, NoProgram, ProgramJoin
  <2>3. (g \o p) \o <<>> = g \o p
    BY <2>2, NoStepAfter
  <2>4. QED
    BY <2>1, <2>2, <2>3
<1>7. \A f \in Facts : Copying(f) /\ (Uses(v, f) \/ Uses(s, f)) => f[3] = k
  <2>1. RowOf(v) = k
    BY <1>1, <1>2 DEF RowOf
  <2>2. QED
    BY <1>2, <2>1 DEF Uses, Listing, Copying
<1>8. Follows(p, k)
  BY <1>2, <1>4, <1>7 DEF Follows, Reading
<1>9. Fit(q, A) /\ Steps(q) = {a, b, c, v, s}
  <2>1. k[1] # "user:listings" /\ Subject(k) \in A
    BY <1>2
  <2>2. Fit(q, A) /\ Program(q) /\ Steps(q) = {<<"get", k>>, <<"select", k>>, <<"set", k>>} \cup Steps(p)
    BY <1>2, <1>3, <1>4, <1>6, <1>8, <2>1, ReadThenFits
  <2>3. QED
    BY <1>1, <1>4, <2>2
<1>10. Closed(q)
  <2>1. ASSUME NEW f \in Facts, NEW y \in Steps(q), Uses(y, f) PROVE Gives(b, f) \/ Gives(v, f)
    <3>1. CASE y = v
      <4>1. RowOf(v) = k
        BY <1>1, <1>2 DEF RowOf
      <4>2. f = <<"typed", l, k>> \/ f = <<"copy", l, k>>
        BY <1>2, <2>1, <3>1, <4>1 DEF Uses, Listing
      <4>3. QED
        BY <1>2, <4>2 DEF Gives
    <3>2. CASE y = s
      <4>1. f = <<"seen", l, Nobody>>
        BY <1>2, <2>1, <3>2 DEF Uses, Listing
      <4>2. QED
        BY <1>2, <4>1 DEF Gives
    <3>3. CASE y = c
      BY <1>2, <2>1, <3>3 DEF Uses, Gives, Listing
    <3>4. CASE y \in {a, b}
      BY <1>2, <2>1, <3>4 DEF Uses, Listing
    <3>5. QED
      BY <1>9, <2>1, <3>1, <3>2, <3>3, <3>4
  <2>2. QED
    BY <1>9, <2>1 DEF Closed, Needs
<1>11. QED
  BY <1>9, <1>10

\* A user reads the listing, and the view is counted.
LEMMA VisitFits ==
  ASSUME NEW l \in Listings, NEW u \in Users, NEW A, l \in A, NEW q, q = FindById(l, u)
  PROVE  Fit(q, A) /\ Closed(q)
<1>1. PICK k, a, b, c, v, s : /\ k = ListingKey(l) /\ a = <<"get", k>> /\ b = <<"select", k>> /\ c = <<"set", k>>
                              /\ v = <<"visible", l, u>> /\ s = <<"show", l, u>>
  OBVIOUS
<1>2. PICK o, n, t, d, i : /\ o = <<"favorite", l, u>> /\ n = <<"notViewed", l, u>> /\ t = <<"countView", l>>
                           /\ d = <<"delete", ListingKey(l)>> /\ i = <<"insertView", l, u>>
  OBVIOUS
<1>3. /\ a[1] = "get" /\ a[2] = k /\ b[1] = "select" /\ b[2] = k /\ c[1] = "set" /\ c[2] = k
      /\ v[1] = "visible" /\ v[2] = l /\ v[3] = u /\ s[1] = "show" /\ s[2] = l /\ s[3] = u
      /\ k \in Copied /\ k[1] = "listing" /\ Subject(k) = l
  BY <1>1, KeyCopied, KeyIs, SubjectIs
<1>4. /\ o[1] = "favorite" /\ o[2] = l /\ o[3] = u /\ n[1] = "notViewed" /\ n[2] = l /\ n[3] = u
      /\ t[1] = "countView" /\ t[2] = l /\ d[1] = "delete" /\ i[1] = "insertView" /\ i[2] = l /\ i[3] = u
  BY <1>2
<1>5. PICK e, g, p, h : e = <<o>> /\ g = GetOrSet(k) /\ p = Visiting(l, u) /\ h = UpdateViewHistory(l, u)
  OBVIOUS
<1>6. Fit(p, A) /\ Steps(p) = {v, s} /\ Program(p) /\ Fit(h, A) /\ Steps(h) = {n, t, d, i} /\ Program(h)
  BY <1>1, <1>2, <1>5, VisitingFits, HistoryFits
<1>7. StepOK(o) /\ Minds(o, A) /\ o[1] \notin Linked
  BY <1>4 DEF StepOK, Plain, Listing, Minds, Linked
<1>8. Fit(e, A) /\ Steps(e) = {o} /\ Program(e) /\ Program(g)
  BY <1>3, <1>5, <1>7, FitOf1, ProgramOf1, GetOrSetFits
<1>9. u # Nobody
  BY ListingsAssumption
<1>10. PICK w, z : w = p \o h /\ z = g \o w
  OBVIOUS
<1>11. Steps(w) = {v, s, n, t, d, i} /\ Program(w)
  <2>1. Steps(w) = Steps(p) \cup Steps(h) /\ Program(w)
    BY <1>6, <1>10, ProgramJoin
  <2>2. QED
    BY <1>6, <2>1
<1>12. q = e \o z
  <2>1. q = ((e \o g) \o p) \o h
    BY <1>1, <1>2, <1>5, <1>9 DEF FindById, FindByIdWithCache, Visiting
  <2>2. PICK f : f = e \o g
    OBVIOUS
  <2>3. Program(f)
    BY <1>8, <2>2, ProgramJoin
  <2>4. (f \o p) \o h = f \o (p \o h)
    BY <1>6, <2>3, ProgramsAssociate
  <2>5. (e \o g) \o w = e \o (g \o w)
    BY <1>8, <1>11, ProgramsAssociate
  <2>6. QED
    BY <1>10, <2>1, <2>2, <2>4, <2>5
<1>13. Fit(w, A)
  <2>1. \A x \in Steps(p), y \in Steps(h) : Ordered(x, y)
    <3>1. \A x \in {v, s}, y \in {n, t, d, i} : Ordered(x, y)
      BY <1>3, <1>4 DEF Ordered, Reading
    <3>2. QED
      BY <1>6, <3>1
  <2>2. \A x \in Steps(p) : x[1] \notin Final
    BY <1>3, <1>6 DEF Final
  <2>3. Counting(w)
    BY <1>4, <1>11 DEF Counting
  <2>4. QED
    BY <1>6, <1>10, <2>1, <2>2, <2>3, FitJoin
<1>14. RowOf(v) = k /\ RowOf(t) = k /\ RowOf(i) = k
  BY <1>1, <1>3, <1>4 DEF RowOf
<1>15. Follows(w, k)
  <2>1. ASSUME NEW y \in {v, s, n, t, d, i}, NEW f \in Facts, Copying(f), Uses(y, f) PROVE f[3] = k
    BY <1>3, <1>4, <1>14, <2>1 DEF Uses, Listing, Copying
  <2>2. \A y \in {v, s, n, t, d, i} : y[1] \notin Reading \cup {"set", "saveListing", "insertListing"}
    BY <1>3, <1>4 DEF Reading
  <2>3. QED
    BY <1>4, <1>11, <2>1, <2>2 DEF Follows
<1>16. Fit(z, A) /\ Program(z) /\ Steps(z) = {a, b, c} \cup {v, s, n, t, d, i}
  <2>1. k[1] # "user:listings" /\ Subject(k) \in A /\ z = GetOrSet(k) \o w
    BY <1>3, <1>5, <1>10
  <2>2. Fit(z, A) /\ Program(z) /\ Steps(z) = {<<"get", k>>, <<"select", k>>, <<"set", k>>} \cup Steps(w)
    BY <1>3, <1>13, <1>15, <2>1, ReadThenFits
  <2>3. QED
    BY <1>1, <1>11, <2>2
<1>17. Steps(q) = {o, a, b, c, v, s, n, t, d, i}
  <2>1. Steps(e \o z) = Steps(e) \cup Steps(z)
    BY <1>8, <1>16, ProgramJoin
  <2>2. QED
    BY <1>8, <1>12, <1>16, <2>1
<1>18. Fit(q, A)
  <2>1. \A x \in Steps(e), y \in Steps(z) : Ordered(x, y)
    <3>1. ASSUME NEW y \in {a, b, c, v, s, n, t, d, i} PROVE Ordered(o, y)
      BY <1>3, <1>4, <3>1 DEF Ordered
    <3>2. QED
      BY <1>8, <1>16, <3>1
  <2>2. \A x \in Steps(e) : x[1] \notin Final
    BY <1>4, <1>8 DEF Final
  <2>3. Counting(e \o z)
    BY <1>4, <1>12, <1>17 DEF Counting
  <2>4. QED
    BY <1>8, <1>12, <1>16, <2>1, <2>2, <2>3, FitJoin
<1>19. Closed(q)
  <2>1. ASSUME NEW f \in Facts, NEW y \in {v, t}, Uses(y, f) PROVE Gives(b, f) \/ Gives(o, f)
    <3>1. f = <<"typed", l, k>> \/ f = <<"copy", l, k>> \/ f = <<"favorite", l, u>>
      BY <1>3, <1>4, <1>14, <2>1 DEF Uses, Listing
    <3>2. QED
      BY <1>3, <1>4, <3>1 DEF Gives
  <2>2. ASSUME NEW f \in Facts, NEW y \in {s, i}, Uses(y, f) PROVE Gives(b, f) \/ Gives(v, f) \/ Gives(n, f) \/ Gives(t, f)
    <3>1. \/ f = <<"typed", l, k>> \/ f = <<"seen", l, u>> \/ f = <<"novel", l, u>>
          \/ f = <<"ahead", l, Nobody>>
      BY <1>3, <1>4, <1>14, <2>2 DEF Uses, Listing
    <3>2. QED
      BY <1>3, <1>4, <3>1 DEF Gives
  <2>3. ASSUME NEW f \in Facts, Uses(c, f) PROVE Gives(b, f)
    BY <1>3, <2>3 DEF Uses, Gives, Listing
  <2>4. ASSUME NEW f \in Facts, NEW y \in {o, a, b, n, d} PROVE ~Uses(y, f)
    BY <1>3, <1>4, <2>4 DEF Uses, Listing
  <2>5. QED
    BY <1>17, <2>1, <2>2, <2>3, <2>4 DEF Closed, Needs
<1>20. QED
  BY <1>18, <1>19

LEMMA FindByIdFits ==
  ASSUME NEW l \in Listings, NEW u \in Users \cup {Nobody}, NEW A, l \in A, NEW q, q = FindById(l, u)
  PROVE  Fit(q, A) /\ Closed(q)
BY GuestFits, VisitFits

LEMMA FavoriteFits ==
  ASSUME NEW l \in Listings, NEW u \in Users, NEW A, l \in A, NEW q, q \in {CreateFavorite(l, u), RemoveFavorite(l, u)}
  PROVE  Fit(q, A) /\ Closed(q)
<1>1. CASE q = CreateFavorite(l, u)
  <2>1. PICK m, n, i : m = <<"mayFavor", l, u>> /\ n = <<"notFavorite", l, u>> /\ i = <<"insertFavorite", l, u>>
    OBVIOUS
  <2>2. /\ m[1] = "mayFavor" /\ m[2] = l /\ m[3] = u /\ n[1] = "notFavorite" /\ n[2] = l /\ n[3] = u
        /\ i[1] = "insertFavorite" /\ i[2] = l /\ i[3] = u /\ q = <<m, n, i>>
    BY <1>1, <2>1 DEF CreateFavorite
  <2>3. StepOK(m) /\ StepOK(n) /\ StepOK(i) /\ Minds(m, A) /\ Minds(n, A) /\ Minds(i, A)
    BY <2>2 DEF StepOK, Plain, Final, Listing, Minds
  <2>4. /\ m[1] \notin Final /\ n[1] \notin Final
        /\ Ordered(m, n) /\ Ordered(m, i) /\ Ordered(n, i)
    BY <2>2 DEF Ordered, Final
  <2>5. Program(q) /\ Steps(q) = {m, n, i}
    BY <2>2, ProgramOf3
  <2>6. Adjacent(q) /\ Counting(q)
    BY <2>2, <2>5, NotLinked, NotCounting DEF Linked
  <2>7. Fit(q, A)
    BY <2>2, <2>3, <2>4, <2>6, FitOf3
  <2>8. ASSUME NEW f \in Facts, NEW y \in {m, n, i}, Uses(y, f) PROVE Gives(m, f)
    BY <2>2, <2>8 DEF Uses, Gives, Listing
  <2>9. QED
    BY <2>5, <2>7, <2>8 DEF Closed, Needs
<1>2. CASE q = RemoveFavorite(l, u)
  <2>1. PICK m, n : m = <<"findFavorite", l, u>> /\ n = <<"removeFavorite">>
    OBVIOUS
  <2>2. m[1] = "findFavorite" /\ m[2] = l /\ m[3] = u /\ n[1] = "removeFavorite" /\ q = <<m, n>>
    BY <1>2, <2>1 DEF RemoveFavorite
  <2>3. StepOK(m) /\ StepOK(n) /\ Minds(m, A) /\ Minds(n, A)
    BY <2>2 DEF StepOK, Plain, Final, Listing, Minds
  <2>4. m[1] \notin Final /\ Ordered(m, n)
    BY <2>2 DEF Ordered, Final
  <2>5. Program(q) /\ Steps(q) = {m, n}
    BY <2>2, ProgramOf2
  <2>6. Adjacent(q) /\ Counting(q)
    BY <2>2, <2>5, NotLinked, NotCounting DEF Linked
  <2>7. Fit(q, A)
    BY <2>2, <2>3, <2>4, <2>6, FitOf2
  <2>8. ASSUME NEW f \in Facts, NEW y \in {m, n}, Uses(y, f) PROVE Gives(m, f)
    BY <2>2, <2>8 DEF Uses, Gives, Listing
  <2>9. QED
    BY <2>5, <2>7, <2>8 DEF Closed, Needs
<1>3. QED
  BY <1>1, <1>2

LEMMA AskFits ==
  ASSUME NEW l \in Listings, NEW u \in Users, NEW A, l \in A, NEW q, q = Ask(l, u)
  PROVE  Fit(q, A) /\ Closed(q)
<1>1. PICK x : x = <<"ask", l, u>>
  OBVIOUS
<1>2. x[1] = "ask" /\ x[2] = l /\ x[3] = u
  BY <1>1
<1>3. StepOK(x) /\ Minds(x, A)
  BY <1>2 DEF StepOK, Final, Listing, Minds
<1>4. Informed(x, l) /\ q = FindByIdWithCache(l) \o <<x>>
  BY <1>1, <1>2 DEF Informed, Ask
<1>5. Fit(q, A) /\ Program(q) /\ Closed(q) /\ \A y \in Steps(q) : y[1] \notin {"insertView", "owns"}
  BY <1>3, <1>4, ListingThenFits
<1>6. QED
  BY <1>5

\* Two checks on a row that the request names.
LEMMA TwoStepsFit ==
  ASSUME NEW m, NEW n, NEW A, StepOK(m), StepOK(n), m[1] \in {"isRecipient", "mayCancel"}, n[1] \in {"answer", "cancel"}
  PROVE  Fit(<<m, n>>, A) /\ Closed(<<m, n>>)
<1>1. PICK q : q = <<m, n>>
  OBVIOUS
<1>2. Minds(m, A) /\ Minds(n, A)
  BY DEF Minds, Listing
<1>3. m[1] \notin Final /\ Ordered(m, n)
  BY DEF Ordered, Final
<1>4. Program(q) /\ Steps(q) = {m, n}
  BY <1>1, ProgramOf2
<1>5. Adjacent(q) /\ Counting(q)
  BY <1>4, NotLinked, NotCounting DEF Linked
<1>6. Fit(q, A)
  BY <1>1, <1>2, <1>3, <1>5, FitOf2
<1>7. \A f : ~Uses(m, f) /\ ~Uses(n, f)
  BY DEF Uses, Listing
<1>8. Closed(q)
  BY <1>4, <1>7 DEF Closed, Needs
<1>9. QED
  BY <1>1, <1>6, <1>8

LEMMA AnswerFits ==
  ASSUME NEW q \in DOMAIN questions, NEW u, NEW A
  PROVE  Fit(Answer(q, u), A) /\ Closed(Answer(q, u))
<1>1. PICK m, n : m = <<"isRecipient", q, u>> /\ n = <<"answer", q>>
  OBVIOUS
<1>2. m[1] = "isRecipient" /\ m[2] = q /\ n[1] = "answer" /\ n[2] = q /\ Answer(q, u) = <<m, n>>
  BY <1>1 DEF Answer
<1>3. StepOK(m) /\ StepOK(n)
  BY <1>2 DEF StepOK, Plain, Final, Listing
<1>4. QED
  BY <1>2, <1>3, TwoStepsFit

-----------------------------------------------------------------------------
(* The programs on plans and subscriptions *)

LEMMA CreatePlanFits ==
  ASSUME NEW name \in Names, NEW A, "plans" \in A, NEW q, q = CreatePlan(name)
  PROVE  Fit(q, A) /\ Closed(q)
<1>1. PICK m, n, i : m = <<"newName", name>> /\ n = <<"insertPlan", name>> /\ i = DropPlans
  OBVIOUS
<1>2. /\ m[1] = "newName" /\ m[2] = name /\ n[1] = "insertPlan" /\ n[2] = name
      /\ i[1] = "scan" /\ i[2] = {PlansKey} /\ q = <<m, n, i>>
  BY <1>1 DEF CreatePlan, DropPlans
<1>3. PlansKey \in Copied /\ Subject(PlansKey) \in A
  BY KeyCopied, SubjectIs
<1>4. StepOK(m) /\ StepOK(n) /\ StepOK(i)
  BY <1>2, <1>3 DEF StepOK, Plain, Listing
<1>5. Minds(m, A) /\ Minds(n, A) /\ Minds(i, A)
  BY <1>2, <1>3 DEF Listing, Minds
<1>6. /\ m[1] \notin Final /\ n[1] \notin Final
      /\ Ordered(m, n) /\ Ordered(m, i) /\ Ordered(n, i)
  BY <1>2 DEF Ordered, Final
<1>7. Program(q) /\ Steps(q) = {m, n, i} /\ q[1] = m /\ q[2] = n /\ q[3] = i /\ DOMAIN q = 1..3
  BY <1>2, ProgramOf3
<1>8. Adjacent(q)
  <2>1. 2 + 1 \in DOMAIN q /\ q[2 + 1] = DropPlans
    BY <1>1, <1>7
  <2>2. \A j \in DOMAIN q : j # 2 => q[j][1] \in {"newName", "scan"}
    BY <1>2, <1>7
  <2>3. QED
    BY <1>2, <1>7, <2>1, <2>2 DEF Adjacent
<1>9. Counting(q)
  BY <1>2, <1>7, NotCounting
<1>10. Fit(q, A)
  BY <1>2, <1>4, <1>5, <1>6, <1>8, <1>9, FitOf3
<1>11. \A f : ~Uses(m, f) /\ ~Uses(n, f) /\ ~Uses(i, f)
  BY <1>2 DEF Uses, Listing
<1>12. Closed(q)
  BY <1>7, <1>11 DEF Closed, Needs
<1>13. QED
  BY <1>10, <1>12

\* What is sent of a plan: its name, or whether it is active.
PlanPatch(patch) == (\E n \in Names : patch = [name |-> n]) \/ (\E b \in BOOLEAN : patch = [active |-> b])

LEMMA UpdatePlanFits ==
  ASSUME NEW p \in Plans, NEW patch, PlanPatch(patch), NEW A, "plans" \in A, p \in A, NEW q, q = UpdatePlan(p, patch)
  PROVE  Fit(q, A) /\ Closed(q)
<1>1. PICK k, a, b, c : k = PlanKey(p) /\ a = <<"get", k>> /\ b = <<"select", k>> /\ c = <<"set", k>>
  OBVIOUS
<1>2. PICK m, n, i : m = <<"savePlan", p, patch>> /\ n = <<"delete", PlanKey(p)>> /\ i = DropPlans
  OBVIOUS
<1>3. /\ a[1] = "get" /\ a[2] = k /\ b[1] = "select" /\ b[2] = k /\ c[1] = "set" /\ c[2] = k
      /\ k \in Copied /\ k[1] = "plan" /\ Subject(k) = p
  BY <1>1, KeyCopied, KeyIs, SubjectIs
<1>4. /\ m[1] = "savePlan" /\ m[2] = p /\ m[3] = patch /\ n[1] = "delete" /\ n[2] = k
      /\ i[1] = "scan" /\ i[2] = {PlansKey}
  BY <1>1, <1>2 DEF DropPlans
<1>5. PICK t : t = <<m, n, i>>
  OBVIOUS
<1>6. q = GetOrSet(k) \o t
  BY <1>1, <1>2, <1>5 DEF UpdatePlan, DropPlans
<1>7. PlansKey \in Copied /\ Subject(PlansKey) \in A
  BY KeyCopied, SubjectIs
<1>8. StepOK(m) /\ StepOK(n) /\ StepOK(i)
  <2>1. StepOK(m)
    BY <1>4 DEF StepOK, Plain, Listing, PlanPatch
  <2>2. StepOK(n) /\ StepOK(i)
    BY <1>3, <1>4, <1>7 DEF StepOK, Plain, Listing
  <2>3. QED
    BY <2>1, <2>2
<1>9. Minds(m, A) /\ Minds(n, A) /\ Minds(i, A)
  BY <1>3, <1>4, <1>7 DEF Listing, Minds
<1>10. /\ m[1] \notin Final /\ n[1] \notin Final
       /\ Ordered(m, n) /\ Ordered(m, i) /\ Ordered(n, i)
  BY <1>4 DEF Ordered, Final
<1>11. Program(t) /\ Steps(t) = {m, n, i} /\ t[1] = m /\ t[2] = n /\ t[3] = i /\ DOMAIN t = 1..3
  BY <1>5, ProgramOf3
<1>12. Adjacent(t)
  <2>1. 1 + 2 \in DOMAIN t /\ t[1 + 1] = <<"delete", PlanKey(t[1][2])>> /\ t[1 + 2] = DropPlans
    BY <1>2, <1>4, <1>11
  <2>2. \A j \in DOMAIN t : j # 1 => t[j][1] \in {"delete", "scan"}
    BY <1>4, <1>11
  <2>3. QED
    BY <1>4, <1>11, <2>1, <2>2 DEF Adjacent
<1>13. Counting(t)
  BY <1>4, <1>11, NotCounting
<1>14. Fit(t, A)
  BY <1>5, <1>8, <1>9, <1>10, <1>12, <1>13, FitOf3
<1>15. \A f \in Facts : Uses(m, f) => f = <<"typed", p, k>> \/ f = <<"copy", p, k>>
  <2>1. RowOf(m) = k
    BY <1>1, <1>4 DEF RowOf
  <2>2. QED
    BY <1>4, <2>1 DEF Uses, Listing
<1>16. \A f : ~Uses(n, f) /\ ~Uses(i, f)
  BY <1>4 DEF Uses, Listing
<1>17. Follows(t, k)
  <2>1. \A f \in Facts : Uses(m, f) => f[3] = k
    BY <1>15
  <2>2. QED
    BY <1>4, <1>11, <1>16, <2>1 DEF Follows, Reading
<1>18. Fit(q, A) /\ Steps(q) = {a, b, c, m, n, i}
  <2>1. k[1] # "user:listings" /\ Subject(k) \in A
    BY <1>3
  <2>2. Fit(q, A) /\ Program(q) /\ Steps(q) = {<<"get", k>>, <<"select", k>>, <<"set", k>>} \cup Steps(t)
    BY <1>3, <1>6, <1>14, <1>17, <2>1, ReadThenFits
  <2>3. QED
    BY <1>1, <1>11, <2>2
<1>19. Closed(q)
  <2>1. ASSUME NEW f \in Facts, Uses(m, f) PROVE Gives(b, f)
    <3>1. f = <<"typed", p, k>> \/ f = <<"copy", p, k>>
      BY <1>15, <2>1
    <3>2. QED
      BY <1>3, <3>1 DEF Gives
  <2>2. ASSUME NEW f \in Facts, Uses(c, f) PROVE Gives(b, f)
    BY <1>3, <2>2 DEF Uses, Gives, Listing
  <2>3. \A f : ~Uses(a, f) /\ ~Uses(b, f)
    BY <1>3 DEF Uses, Listing
  <2>4. QED
    BY <1>16, <1>18, <2>1, <2>2, <2>3 DEF Closed, Needs
<1>20. QED
  BY <1>18, <1>19

LEMMA SubscribeFits ==
  ASSUME NEW u \in Buyers, NEW p \in Plans, NEW A, u \in A, NEW q, q = Subscribe(u, p)
  PROVE  Fit(q, A) /\ Closed(q)
<1>1. PICK a, b, c, d : /\ a = <<"planExists", p>> /\ b = <<"isLandlord", u>> /\ c = <<"notSubscribed", u, p>>
                        /\ d = <<"insertSubscription", u, p>>
  OBVIOUS
<1>2. /\ a[1] = "planExists" /\ b[1] = "isLandlord" /\ b[2] = u /\ c[1] = "notSubscribed" /\ c[2] = u /\ c[3] = p
      /\ d[1] = "insertSubscription" /\ d[2] = u /\ d[3] = p
  BY <1>1
<1>3. StepOK(a) /\ StepOK(b) /\ StepOK(c) /\ StepOK(d)
  BY <1>2 DEF StepOK, Plain, Final, Listing
<1>4. Minds(a, A) /\ Minds(b, A) /\ Minds(c, A) /\ Minds(d, A)
  BY <1>2 DEF Minds, Listing
<1>5. \A x \in {a, b, c}, y \in {b, c, d} : Ordered(x, y)
  BY <1>2 DEF Ordered
<1>6. PICK m, s : m = <<a, b>> /\ s = <<c, d>>
  OBVIOUS
<1>7. Program(m) /\ Steps(m) = {a, b} /\ Program(s) /\ Steps(s) = {c, d}
  BY <1>6, ProgramOf2
<1>8. a[1] \notin Final /\ b[1] \notin Final /\ c[1] \notin Final
  BY <1>2 DEF Final
<1>9. Adjacent(m) /\ Adjacent(s) /\ Counting(m) /\ Counting(s)
  BY <1>2, <1>7, NotLinked, NotCounting DEF Linked
<1>10. Fit(m, A) /\ Fit(s, A)
  BY <1>3, <1>4, <1>5, <1>6, <1>8, <1>9, FitOf2
<1>11. m \o s = q
  BY <1>1, <1>6, JoinOf2 DEF Subscribe
<1>12. Steps(q) = {a, b, c, d}
  <2>1. Steps(m \o s) = Steps(m) \cup Steps(s)
    BY <1>7, ProgramJoin
  <2>2. QED
    BY <1>7, <1>11, <2>1
<1>13. Fit(q, A)
  <2>1. Counting(q)
    BY <1>2, <1>12, NotCounting
  <2>2. QED
    BY <1>5, <1>7, <1>8, <1>10, <1>11, <2>1, FitJoin
<1>14. Closed(q)
  <2>1. ASSUME NEW f \in Facts, NEW x \in {a, b, c, d}, Uses(x, f) PROVE Gives(b, f) \/ Gives(c, f)
    <3>1. f = <<"landlord", u, Nobody>> \/ f = <<"alone", u, p>>
      BY <1>2, <2>1 DEF Uses, Listing
    <3>2. QED
      BY <1>2, <3>1 DEF Gives
  <2>2. QED
    BY <1>12, <2>1 DEF Closed, Needs
<1>15. QED
  BY <1>13, <1>14

LEMMA CancelFits ==
  ASSUME NEW i \in DOMAIN subscriptions, NEW u, NEW A
  PROVE  Fit(Cancel(u, i), A) /\ Closed(Cancel(u, i))
<1>1. PICK m, n : m = <<"mayCancel", u, i>> /\ n = <<"cancel", i>>
  OBVIOUS
<1>2. m[1] = "mayCancel" /\ m[3] = i /\ n[1] = "cancel" /\ n[2] = i /\ Cancel(u, i) = <<m, n>>
  BY <1>1 DEF Cancel
<1>3. StepOK(m) /\ StepOK(n)
  BY <1>2 DEF StepOK, Plain, Final, Listing
<1>4. QED
  BY <1>2, <1>3, TwoStepsFit

-----------------------------------------------------------------------------
(* What arrives *)

LEMMA Concerns == \A l, A : Concerned(l) \subseteq A => MindsOwner(l, A)
BY DEF Concerned, MindsOwner, Owner

LEMMA BeginListsInv == ASSUME Inv, Still, NEW r \in Requests, BeginLists(r) PROVE Inv'
<1>1. PICK dto \in Searches :
        \/ Begin(r, "findAll", {}, FindAllWithCache([dto EXCEPT !.status = "ACTIVE"], Nobody))
        \/ \E u \in Users :
             \/ Begin(r, "findByUser", {u}, FindAllWithCache([dto EXCEPT !.status = "ACTIVE"], u))
             \/ Begin(r, "findMy", {u}, FindAllWithCache(dto, u))
  BY DEF BeginLists
<1>2. PICK d : d = [dto EXCEPT !.status = "ACTIVE"]
  OBVIOUS
<1>3. CASE Begin(r, "findAll", {}, FindAllWithCache(d, Nobody))
  <2>1. PICK q : q = FindAllWithCache(d, Nobody)
    OBVIOUS
  <2>2. Fit(q, {}) /\ Closed(q)
    BY <2>1, FindAllFits
  <2>3. Begin(r, "findAll", {}, q)
    BY <1>3, <2>1
  <2>4. QED
    BY <2>2, <2>3, BeginInv
<1>4. ASSUME NEW u \in Users, NEW e, NEW op, Begin(r, op, {u}, FindAllWithCache(e, u)) PROVE Inv'
  <2>1. PICK q, A : q = FindAllWithCache(e, u) /\ A = {u}
    OBVIOUS
  <2>2. Fit(q, A) /\ Closed(q)
    BY <2>1, FindAllFits
  <2>3. Begin(r, op, A, q)
    BY <1>4, <2>1
  <2>4. QED
    BY <2>2, <2>3, BeginInv
<1>5. QED
  BY <1>1, <1>2, <1>3, <1>4

LEMMA BeginOwnersInv == ASSUME Inv, Still, NEW r \in Requests, BeginOwners(r) PROVE Inv'
<1>1. PICK u \in Users :
        \/ \E offer \in Offers : DOMAIN offer = Offered /\ Begin(r, "create", {u}, Create(u, offer))
        \/ \E l \in Listings :
             \/ \E offer \in Offers : Begin(r, "update", {u, l} \cup Concerned(l), Update(l, u, offer))
             \/ Begin(r, "delete", {u, l} \cup Concerned(l), <<<<"owns", l, u>>>> \o UpdateStatus(l, "INACTIVE"))
  BY DEF BeginOwners
<1>2. ASSUME NEW offer \in Offers, DOMAIN offer = Offered, Begin(r, "create", {u}, Create(u, offer)) PROVE Inv'
  <2>1. PICK q, A : q = Create(u, offer) /\ A = {u}
    OBVIOUS
  <2>2. Fit(q, A) /\ Closed(q)
    BY <1>2, <2>1, CreateFits
  <2>3. Begin(r, "create", A, q)
    BY <1>2, <2>1
  <2>4. QED
    BY <2>2, <2>3, BeginInv
<1>3. ASSUME NEW l \in Listings, NEW offer \in Offers,
             Begin(r, "update", {u, l} \cup Concerned(l), Update(l, u, offer))
      PROVE  Inv'
  <2>1. PICK q, A : q = Update(l, u, offer) /\ A = {u, l} \cup Concerned(l)
    OBVIOUS
  <2>2. l \in A /\ MindsOwner(l, A)
    BY <2>1, Concerns
  <2>3. Fit(q, A) /\ Closed(q)
    BY <2>1, <2>2, UpdateFits
  <2>4. Begin(r, "update", A, q)
    BY <1>3, <2>1
  <2>5. QED
    BY <2>3, <2>4, BeginInv
<1>4. ASSUME NEW l \in Listings,
             Begin(r, "delete", {u, l} \cup Concerned(l), <<<<"owns", l, u>>>> \o UpdateStatus(l, "INACTIVE"))
      PROVE  Inv'
  <2>1. PICK p, A : p = UpdateStatus(l, "INACTIVE") /\ A = {u, l} \cup Concerned(l)
    OBVIOUS
  <2>2. l \in A /\ MindsOwner(l, A) /\ "INACTIVE" \in Statuses
    BY <2>1, Concerns DEF Statuses
  <2>3. Fit(p, A) /\ Closed(p) /\ \A y \in Steps(p) : y[1] # "insertView"
    BY <2>1, <2>2, UpdateStatusFits
  <2>4. PICK q : q = <<<<"owns", l, u>>>> \o p
    OBVIOUS
  <2>5. Fit(q, A) /\ Closed(q)
    BY <2>3, <2>4, OwnsFits
  <2>6. Begin(r, "delete", A, q)
    BY <1>4, <2>1, <2>4
  <2>7. QED
    BY <2>5, <2>6, BeginInv
<1>5. QED
  BY <1>1, <1>2, <1>3, <1>4

LEMMA BeginModerationInv == ASSUME Inv, Still, NEW r \in Requests, BeginModeration(r) PROVE Inv'
<1>1. PICK l \in Listings, status \in Verdicts :
        Begin(r, "moderate", {l} \cup Concerned(l), UpdateStatus(l, status))
  BY DEF BeginModeration
<1>2. PICK q, A : q = UpdateStatus(l, status) /\ A = {l} \cup Concerned(l)
  OBVIOUS
<1>3. l \in A /\ MindsOwner(l, A) /\ status \in Statuses
  BY <1>2, Concerns, ListingsAssumption
<1>4. Fit(q, A) /\ Closed(q) /\ \A y \in Steps(q) : y[1] # "insertView"
  BY <1>2, <1>3, UpdateStatusFits
<1>5. Begin(r, "moderate", A, q)
  BY <1>1, <1>2
<1>6. QED
  BY <1>4, <1>5, BeginInv

LEMMA BeginViewsInv == ASSUME Inv, Still, NEW r \in Requests, BeginViews(r) PROVE Inv'
<1>1. PICK l \in Listings, u \in Users \cup {Nobody} : Begin(r, "findOne", {l, u} \ {Nobody}, FindById(l, u))
  BY DEF BeginViews
<1>2. PICK q, A : q = FindById(l, u) /\ A = {l, u} \ {Nobody}
  OBVIOUS
<1>3. l \in A
  BY <1>2, ListingsAssumption
<1>4. Fit(q, A) /\ Closed(q)
  BY <1>2, <1>3, FindByIdFits
<1>5. Begin(r, "findOne", A, q)
  BY <1>1, <1>2
<1>6. QED
  BY <1>4, <1>5, BeginInv

LEMMA BeginFavoritesInv == ASSUME Inv, Still, NEW r \in Requests, BeginFavorites(r) PROVE Inv'
<1>1. PICK l \in Listings, u \in Users :
        \/ Begin(r, "favor", {l, u}, CreateFavorite(l, u))
        \/ Begin(r, "unfavor", {l, u}, RemoveFavorite(l, u))
  BY DEF BeginFavorites
<1>2. PICK op, q, A : Begin(r, op, A, q) /\ A = {l, u} /\ q \in {CreateFavorite(l, u), RemoveFavorite(l, u)}
  BY <1>1
<1>3. l \in A
  BY <1>2
<1>4. Fit(q, A) /\ Closed(q)
  BY <1>2, <1>3, FavoriteFits
<1>5. QED
  BY <1>2, <1>4, BeginInv

LEMMA BeginQuestionsInv == ASSUME Inv, Still, NEW r \in Requests, BeginQuestions(r) PROVE Inv'
<1>1. PICK u \in Users :
        \/ \E l \in Listings : Begin(r, "ask", {l, u}, Ask(l, u))
        \/ \E q \in DOMAIN questions : Begin(r, "answer", {u, questions[q].listing}, Answer(q, u))
  BY DEF BeginQuestions
<1>2. ASSUME NEW l \in Listings, Begin(r, "ask", {l, u}, Ask(l, u)) PROVE Inv'
  <2>1. PICK q, A : q = Ask(l, u) /\ A = {l, u}
    OBVIOUS
  <2>2. l \in A
    BY <2>1
  <2>3. Fit(q, A) /\ Closed(q)
    BY <2>1, <2>2, AskFits
  <2>4. Begin(r, "ask", A, q)
    BY <1>2, <2>1
  <2>5. QED
    BY <2>3, <2>4, BeginInv
<1>3. ASSUME NEW q \in DOMAIN questions, Begin(r, "answer", {u, questions[q].listing}, Answer(q, u)) PROVE Inv'
  <2>1. PICK p, A : p = Answer(q, u) /\ A = {u, questions[q].listing}
    OBVIOUS
  <2>2. Fit(p, A) /\ Closed(p)
    BY <2>1, AnswerFits
  <2>3. Begin(r, "answer", A, p)
    BY <1>3, <2>1
  <2>4. QED
    BY <2>2, <2>3, BeginInv
<1>4. QED
  BY <1>1, <1>2, <1>3

LEMMA BeginPlansInv == ASSUME Inv, Still, NEW r \in Requests, BeginPlans(r) PROVE Inv'
<1>1. \/ \E p \in Plans : Begin(r, "findPlan", {p}, GetOrSet(PlanKey(p)))
      \/ Begin(r, "findPlans", {"plans"}, GetOrSet(PlansKey))
      \/ \E name \in Names : Begin(r, "createPlan", {"plans"}, CreatePlan(name))
      \/ \E p \in Plans, name \in Names : Begin(r, "updateInfo", {"plans", p}, UpdatePlan(p, [name |-> name]))
      \/ \E p \in Plans, b \in BOOLEAN :
           Begin(r, "updatePlanStatus", {"plans", p}, UpdatePlan(p, [active |-> b]))
  BY DEF BeginPlans
<1>2. ASSUME NEW op, NEW k \in {PlanKey(p) : p \in Plans} \cup {PlansKey}, NEW s, s = Subject(k),
             Begin(r, op, {s}, GetOrSet(k))
      PROVE  Inv'
  <2>1. k \in Copied /\ k[1] # "user:listings"
    BY KeyCopied, KeyIs
  <2>2. PICK q, A : q = GetOrSet(k) /\ A = {s}
    OBVIOUS
  <2>3. Fit(q, A) /\ Closed(q)
    BY <1>2, <2>1, <2>2, GetOrSetFits
  <2>4. Begin(r, op, A, q)
    BY <1>2, <2>2
  <2>5. QED
    BY <2>3, <2>4, BeginInv
<1>3. ASSUME NEW name \in Names, Begin(r, "createPlan", {"plans"}, CreatePlan(name)) PROVE Inv'
  <2>1. PICK q, A : q = CreatePlan(name) /\ A = {"plans"}
    OBVIOUS
  <2>2. Fit(q, A) /\ Closed(q)
    BY <2>1, CreatePlanFits
  <2>3. Begin(r, "createPlan", A, q)
    BY <1>3, <2>1
  <2>4. QED
    BY <2>2, <2>3, BeginInv
<1>4. ASSUME NEW op, NEW p \in Plans, NEW patch, PlanPatch(patch), Begin(r, op, {"plans", p}, UpdatePlan(p, patch))
      PROVE  Inv'
  <2>1. PICK q, A : q = UpdatePlan(p, patch) /\ A = {"plans", p}
    OBVIOUS
  <2>2. Fit(q, A) /\ Closed(q)
    BY <1>4, <2>1, UpdatePlanFits
  <2>3. Begin(r, op, A, q)
    BY <1>4, <2>1
  <2>4. QED
    BY <2>2, <2>3, BeginInv
<1>5. /\ \A p \in Plans : Subject(PlanKey(p)) = p
      /\ Subject(PlansKey) = "plans"
  BY SubjectIs
<1>6. ASSUME NEW p \in Plans, Begin(r, "findPlan", {p}, GetOrSet(PlanKey(p))) PROVE Inv'
  BY <1>2, <1>5, <1>6
<1>7. CASE Begin(r, "findPlans", {"plans"}, GetOrSet(PlansKey))
  BY <1>2, <1>5, <1>7
<1>8. ASSUME NEW p \in Plans, NEW name \in Names, Begin(r, "updateInfo", {"plans", p}, UpdatePlan(p, [name |-> name]))
      PROVE  Inv'
  <2>1. PlanPatch([name |-> name])
    BY DEF PlanPatch
  <2>2. QED
    BY <1>4, <1>8, <2>1
<1>9. ASSUME NEW p \in Plans, NEW b \in BOOLEAN,
             Begin(r, "updatePlanStatus", {"plans", p}, UpdatePlan(p, [active |-> b]))
      PROVE  Inv'
  <2>1. PlanPatch([active |-> b])
    BY Zenon DEF PlanPatch
  <2>2. QED
    BY <1>4, <1>9, <2>1, Zenon
<1>10. QED
  BY <1>1, <1>3, <1>6, <1>7, <1>8, <1>9, Zenon

LEMMA BeginSubscriptionsInv == ASSUME Inv, Still, NEW r \in Requests, BeginSubscriptions(r) PROVE Inv'
<1>1. PICK u \in Buyers :
        \/ \E p \in Plans : Begin(r, "subscribe", {u}, Subscribe(u, p))
        \/ \E i \in DOMAIN subscriptions : Begin(r, "cancel", {u}, Cancel(u, i))
  BY DEF BeginSubscriptions
<1>2. PICK A : A = {u}
  OBVIOUS
<1>3. ASSUME NEW p \in Plans, Begin(r, "subscribe", {u}, Subscribe(u, p)) PROVE Inv'
  <2>1. PICK q : q = Subscribe(u, p)
    OBVIOUS
  <2>2. Fit(q, A) /\ Closed(q)
    BY <1>2, <2>1, SubscribeFits
  <2>3. Begin(r, "subscribe", A, q)
    BY <1>2, <1>3, <2>1
  <2>4. QED
    BY <2>2, <2>3, BeginInv
<1>4. ASSUME NEW i \in DOMAIN subscriptions, Begin(r, "cancel", {u}, Cancel(u, i)) PROVE Inv'
  <2>1. PICK q : q = Cancel(u, i)
    OBVIOUS
  <2>2. Fit(q, A) /\ Closed(q)
    BY <2>1, CancelFits
  <2>3. Begin(r, "cancel", A, q)
    BY <1>2, <1>4, <2>1
  <2>4. QED
    BY <2>2, <2>3, BeginInv
<1>5. QED
  BY <1>1, <1>3, <1>4

-----------------------------------------------------------------------------
(* A failure; the start; every step *)

\* What the request was about is contended from now on: keys it was to drop, a view it was to insert.
LEMMA FaultInv == ASSUME Inv, Still, NEW r \in Requests, Fault(r) PROVE Inv'
<1>0. Shaped /\ TablesStill
  BY DEF Inv, Still, TablesStill
<1>1. /\ Proper' /\ Elsewhere(r) /\ req'[r] = Idle /\ contended' = contended \cup req[r].about
      /\ faults < mix.faults /\ faults' = faults + 1 /\ UNCHANGED <<mix, calls>>
  BY <1>0, Faults DEF Shaped
<1>2. /\ Fit(req[r].todo, req[r].about)' /\ Knows(r)' /\ req'[r].about = {} /\ req'[r].op = "none"
      /\ req'[r].todo = <<>> /\ contended \subseteq contended'
  BY <1>1, IdleShaped
<1>3. Growth /\ Minding(r)
  BY StillGrowth, StillMinding
<1>4. Apart'
  BY <1>0, <1>1, <1>2, ApartWhenDone DEF Shaped
<1>5. Counted'
  <2>1. mix.faults \in Nat
    BY <1>0, HandlersAssumption DEF Shaped, Counted
  <2>2. faults' \in 0..mix.faults
    BY <1>0, <1>1, <2>1 DEF Shaped, Counted
  <2>3. \A s \in Requests : req'[s].op \in mix.ops \cup {"none"}
    BY <1>0, <1>1, <1>2 DEF Shaped, Counted, Elsewhere
  <2>4. QED
    BY <1>0, <1>1, <2>2, <2>3 DEF Shaped, Counted
<1>6. ASSUME NEW s \in Requests PROVE Fit(req[s].todo, req[s].about)' /\ Knows(s)'
  <2>1. CASE s = r
    BY <1>2, <2>1
  <2>2. CASE s # r
    BY <1>0, <1>1, <1>2, <1>3, <2>2, OthersStay
  <2>3. QED
    BY <2>1, <2>2
<1>7. Shaped'
  BY <1>1, <1>4, <1>5, <1>6 DEF Shaped
<1>8. \A l \in Posted : Needs(req[r].todo, <<"ahead", l, Nobody>>) =>
        l \in contended' \/ Needs(req'[r].todo, <<"ahead", l, Nobody>>)
  <2>1. Fit(req[r].todo, req[r].about)
    BY <1>0 DEF Shaped
  <2>2. ASSUME NEW l \in Posted, Needs(req[r].todo, <<"ahead", l, Nobody>>) PROVE l \in contended'
    BY <1>1, <2>1, <2>2, AheadHead
  <2>3. QED
    BY <2>2
<1>9. TablesOK' /\ InterestInOthers' /\ OneSubscription' /\ Balanced' /\ Novel'
  BY <1>0, <1>1, <1>2, <1>8, TablesRest
<1>10. Cached'
  <2>1. \A k, v : ValueOK(k, v)' = ValueOK(k, v)
    BY <1>0, TablesSame
  <2>2. QED
    BY <2>1, CopiedSame DEF Inv, Cached, Still
<1>11. CacheFresh'
  <2>1. ASSUME NEW k \in Copied, k \in DOMAIN cache
        PROVE  Contended(k)' \/ cache[k] = Current(k)' \/ \E s \in Requests : Drops(s, k)'
    <3>1. CASE Contended(k)
      BY <1>2, <1>3, <3>1, ContendedStays
    <3>2. CASE cache[k] = Current(k)
      BY <1>0, <3>2, TablesSame
    <3>3. ASSUME NEW s \in Requests, Drops(s, k) PROVE Contended(k)' \/ Drops(s, k)'
      <4>1. CASE s = r
        <5>1. Subject(k) \in contended'
          BY <1>0, <1>1, <3>3, <4>1, DropsMind
        <5>2. QED
          BY <5>1 DEF Contended, Calm, Subject
      <4>2. CASE s # r
        <5>1. req'[s] = req[s]
          BY <1>1, <4>2 DEF Elsewhere
        <5>2. QED
          BY <3>3, <5>1 DEF Drops
      <4>3. QED
        BY <4>1, <4>2
    <3>4. QED
      BY <2>1, <3>1, <3>2, <3>3 DEF Inv, Fresh, CacheFresh
  <2>2. QED
    BY <2>1, CopiedSame DEF CacheFresh, Still
<1>12. QED
  BY <1>7, <1>9, <1>10, <1>11 DEF Inv, Fresh

LEMMA InitInv == ASSUME Init PROVE Inv
<1>1. HandlersInit /\ ListingsInit /\ InterestInit /\ SubscriptionsInit
  BY DEF Init
<1>2. mix \in Mixes /\ calls = 0 /\ faults = 0 /\ contended = {} /\ mix.calls \in Nat /\ mix.faults \in Nat
  BY <1>1, HandlersAssumption DEF HandlersInit
<1>3. Proper /\ \A r \in Requests : req[r] = Idle
  BY <1>1, NoneYet
<1>4. \A r \in Requests : req[r].todo = <<>> /\ req[r].about = {} /\ req[r].op = "none"
  <2>1. Idle.todo = <<>> /\ Idle.about = {} /\ Idle.op = "none"
    BY DEF Idle
  <2>2. QED
    BY <1>3, <2>1, Zenon
<1>5. cache = <<>> /\ views = <<>> /\ favorites = <<>> /\ questions = <<>> /\ subscriptions = <<>>
  BY <1>1 DEF ListingsInit, RedisInit, InterestInit, SubscriptionsInit
<1>6. Consistent(mix.tables) /\ listing = mix.tables.listings /\ plan = mix.tables.plans
  BY <1>1, <1>2, MarketAssumption DEF ListingsInit, SubscriptionsInit
<1>7. Shaped
  <2>1. Apart
    BY <1>4 DEF Apart
  <2>2. Counted
    BY <1>2, <1>4 DEF Counted
  <2>3. \A r \in Requests : Fit(req[r].todo, req[r].about) /\ Knows(r)
    BY <1>4, FitNone, NeedsNothing DEF Knows
  <2>4. QED
    BY <1>3, <2>1, <2>2, <2>3 DEF Shaped
<1>8. \A l \in Posted : Whole(listing[l]) /\ listing[l].views = 0
  BY <1>6 DEF Consistent, Posted, Whole
<1>9. TablesOK
  <2>1. listing \in [Listings -> ListingRow \cup {NoRow}] /\ plan \in [Plans -> PlanRow \cup {NoPlan}]
    BY <1>6 DEF Consistent, PlanRow
  <2>2. QED
    BY <1>5, <1>8, <2>1 DEF TablesOK
<1>10. Cached /\ CacheFresh
  <2>1. DOMAIN cache = {}
    BY <1>5
  <2>2. QED
    BY <2>1 DEF Cached, CacheFresh
<1>11. InterestInOthers
  BY <1>5 DEF InterestInOthers, Rows
<1>12. OneSubscription
  <2>1. \A p, q \in Existing : p # q => plan[p].name # plan[q].name
    BY <1>6 DEF Consistent, Existing
  <2>2. QED
    BY <1>5, <2>1 DEF OneSubscription
<1>13. \A l : Viewings(l) = {}
  BY <1>5 DEF Viewings
<1>14. Balanced /\ Novel
  BY <1>8, <1>13, FS_EmptySet DEF Balanced, Novel
<1>15. QED
  BY <1>7, <1>9, <1>10, <1>11, <1>12, <1>14 DEF Inv, Fresh

LEMMA ArriveInv == ASSUME Inv, NEW r \in Requests, Arrive(r) PROVE Inv'
<1>1. CASE BeginLists(r) /\ UNCHANGED <<views, favorites, questions, plan, subscriptions>>
  <2>1. Still
    BY <1>1 DEF Still, BeginLists
  <2>2. QED
    BY <1>1, <2>1, BeginListsInv
<1>2. CASE BeginOwners(r) /\ UNCHANGED <<views, favorites, questions, plan, subscriptions>>
  <2>1. Still
    BY <1>2 DEF Still, BeginOwners
  <2>2. QED
    BY <1>2, <2>1, BeginOwnersInv
<1>3. CASE BeginModeration(r) /\ UNCHANGED <<views, favorites, questions, plan, subscriptions>>
  <2>1. Still
    BY <1>3 DEF Still, BeginModeration
  <2>2. QED
    BY <1>3, <2>1, BeginModerationInv
<1>4. CASE BeginViews(r) /\ UNCHANGED <<plan, subscriptions>>
  <2>1. Still
    BY <1>4 DEF Still, BeginViews
  <2>2. QED
    BY <1>4, <2>1, BeginViewsInv
<1>5. CASE BeginFavorites(r) /\ UNCHANGED <<plan, subscriptions>>
  <2>1. Still
    BY <1>5 DEF Still, BeginFavorites
  <2>2. QED
    BY <1>5, <2>1, BeginFavoritesInv
<1>6. CASE BeginQuestions(r) /\ UNCHANGED <<plan, subscriptions>>
  <2>1. Still
    BY <1>6 DEF Still, BeginQuestions
  <2>2. QED
    BY <1>6, <2>1, BeginQuestionsInv
<1>7. CASE BeginPlans(r) /\ UNCHANGED <<listing, views, favorites, questions>>
  <2>1. Still
    BY <1>7 DEF Still, BeginPlans
  <2>2. QED
    BY <1>7, <2>1, BeginPlansInv
<1>8. CASE BeginSubscriptions(r) /\ UNCHANGED <<listing, views, favorites, questions>>
  <2>1. Still
    BY <1>8 DEF Still, BeginSubscriptions
  <2>2. QED
    BY <1>8, <2>1, BeginSubscriptionsInv
<1>9. QED
  BY <1>1, <1>2, <1>3, <1>4, <1>5, <1>6, <1>7, <1>8 DEF Arrive

LEMMA ListingsStepsInv ==
  ASSUME Inv, UNCHANGED <<views, favorites, questions, plan, subscriptions>>, NEW r \in Requests, ListingsSteps(r)
  PROVE  Inv'
<1>1. CASE RedisSteps(r) /\ UNCHANGED listing
  <2>1. TablesStill
    BY <1>1 DEF TablesStill
  <2>2. QED
    BY <1>1, <2>1, RedisInv
<1>2. CASE SelectListing(r) \/ SearchListings(r) \/ Owns(r) \/ Periods(r) \/ Geocode(r) \/ Prepare(r)
  <2>1. Still
    BY <1>2 DEF Still, SelectListing, SearchListings, Owns, Periods, Geocode, Prepare
  <2>2. QED
    BY <1>2, <2>1, SelectListingInv, SearchListingsInv, PlainChecksInv, PeriodsInv, PrepareInv
<1>3. CASE InsertListing(r) \/ SaveListing(r) \/ SetStatus(r)
  BY <1>3, InsertListingInv, SaveListingInv, SetStatusInv
<1>4. QED
  BY <1>1, <1>2, <1>3 DEF ListingsSteps

LEMMA InterestStepsInv ==
  ASSUME Inv, UNCHANGED <<plan, subscriptions>>, NEW r \in Requests, InterestSteps(r)
  PROVE  Inv'
<1>1. CASE ListingsSteps(r) /\ UNCHANGED <<views, favorites, questions>>
  BY <1>1, ListingsStepsInv
<1>2. CASE ReadFavorite(r) \/ Visible(r) \/ Show(r) \/ NotViewed(r)
  <2>1. Still
    BY <1>2 DEF Still, ReadFavorite, Visible, Show, NotViewed
  <2>2. QED
    BY <1>2, <2>1, ReadFavoriteInv, VisibleInv, PlainChecksInv, NotViewedInv
<1>3. CASE MayFavor(r) \/ NotFavorite(r) \/ FindFavorite(r) \/ IsRecipient(r)
  <2>1. Still
    BY <1>3 DEF Still, MayFavor, NotFavorite, FindFavorite, IsRecipient
  <2>2. QED
    BY <1>3, <2>1, MayFavorInv, PlainChecksInv, FindFavoriteInv
<1>4. CASE \/ CountView(r) \/ InsertView(r) \/ InsertFavorite(r) \/ DeleteFavorite(r) \/ AskOwner(r)
           \/ SaveAnswer(r)
  BY <1>4, CountViewInv, InsertViewInv, InsertFavoriteInv, DeleteFavoriteInv, AskOwnerInv, SaveAnswerInv
<1>5. QED
  BY <1>1, <1>2, <1>3, <1>4 DEF InterestSteps

LEMMA SubscriptionsStepsInv ==
  ASSUME Inv, UNCHANGED <<listing, views, favorites, questions>>, NEW r \in Requests, SubscriptionsSteps(r)
  PROVE  Inv'
<1>1. CASE SelectPlan(r) \/ SelectPlans(r) \/ NewName(r) \/ PlanExists(r)
  <2>1. Still
    BY <1>1 DEF Still, SelectPlan, SelectPlans, NewName, PlanExists
  <2>2. QED
    BY <1>1, <2>1, SelectPlanInv, SelectPlansInv, PlainChecksInv
<1>2. CASE IsLandlord(r) \/ NotSubscribed(r) \/ MayCancel(r)
  <2>1. Still
    BY <1>2 DEF Still, IsLandlord, NotSubscribed, MayCancel
  <2>2. QED
    BY <1>2, <2>1, IsLandlordInv, NotSubscribedInv, PlainChecksInv
<1>3. CASE InsertPlan(r) \/ SavePlan(r) \/ InsertSubscription(r) \/ CancelSubscription(r)
  BY <1>3, InsertPlanInv, SavePlanInv, InsertSubscriptionInv, CancelSubscriptionInv
<1>4. QED
  BY <1>1, <1>2, <1>3 DEF SubscriptionsSteps

LEMMA NextInv == ASSUME Inv, [Next]_vars PROVE Inv'
<1>1. ASSUME NEW r \in Requests, Arrive(r) PROVE Inv'
  BY <1>1, ArriveInv
<1>2. ASSUME NEW r \in Requests, Progress(r) PROVE Inv'
  BY <1>2, InterestStepsInv, SubscriptionsStepsInv DEF Progress
<1>3. ASSUME NEW r \in Requests,
             Fault(r) /\ UNCHANGED <<cache, listing, views, favorites, questions, plan, subscriptions>>
      PROVE  Inv'
  BY <1>3, FaultInv DEF Still
<1>4. CASE Forget
  BY <1>4, ForgetInv
<1>5. CASE UNCHANGED vars
  BY <1>5, StutterInv
<1>6. QED
  BY <1>1, <1>2, <1>3, <1>4, <1>5 DEF Next

-----------------------------------------------------------------------------
(* What the invariant says *)

LEMMA SafeOf == ASSUME Inv PROVE MarketInv
<1>1. Shaped /\ TablesOK
  BY DEF Inv
<1>2. /\ \A r \in Requests : req[r].op \in mix.ops \cup {"none"}
      /\ calls \in 0..mix.calls /\ faults \in 0..mix.faults
  BY <1>1 DEF Shaped, Counted
<1>3. ASSUME NEW l \in Posted
      PROVE  /\ DOMAIN listing[l] = ListingColumns /\ listing[l].owner \in Users
             /\ listing[l].status \in Statuses /\ listing[l].views \in Nat
             /\ listing[l].pricings # {} /\ \A p, q \in listing[l].pricings : p[1] = q[1] => p = q
  <2>1. listing[l] \in ListingRow /\ listing[l].pricings # {} /\ OnePricePerPeriod(listing[l])
    BY <1>1 DEF TablesOK, Whole
  <2>2. "pricings" \in DOMAIN listing[l]
    BY <2>1 DEF ListingRow
  <2>3. \A p, q \in listing[l].pricings : p[1] = q[1] => p = q
    BY <2>1, <2>2 DEF OnePricePerPeriod
  <2>4. DOMAIN listing[l] = ListingColumns
    BY <2>1 DEF ListingRow, ListingColumns, Offered
  <2>5. listing[l].owner \in Users /\ listing[l].status \in Statuses /\ listing[l].views \in Nat
    BY <2>1 DEF ListingRow
  <2>6. QED
    BY <2>1, <2>3, <2>4, <2>5
<1>4. Rows(views) \subseteq Listings \X Users
  BY <1>1 DEF TablesOK, Rows
<1>5. /\ favorites \in Seq([listing: Listings, user: Users, removed: BOOLEAN])
      /\ questions \in Seq([listing: Listings, from: Users, to: Users, answered: BOOLEAN])
      /\ plan \in [Plans -> [name: Names, active: BOOLEAN] \cup {NoPlan}]
      /\ subscriptions \in Seq([user: Landlords, plan: Plans, status: {"ACTIVE", "CANCELLED"}])
  BY <1>1 DEF TablesOK, PlanRow
<1>6. QED
  BY <1>2, <1>3, <1>4, <1>5 DEF MarketInv, TypeOK

\* Nobody who is in flight is about to drop a key of a subject that is quiet.
LEMMA QuietKeys ==
  ASSUME Inv, NEW k \in Copied, k \in DOMAIN cache, Quiet(Subject(k)), ~Contended(k)
  PROVE  cache[k] = Current(k)
<1>1. ASSUME NEW r \in Requests, Drops(r, k) PROVE FALSE
  <2>1. Subject(k) \in req[r].about
    BY <1>1, DropsMind DEF Inv
  <2>2. QED
    BY <2>1 DEF Quiet
<1>2. QED
  BY <1>1 DEF Inv, Fresh, CacheFresh

LEMMA FreshOf == ASSUME Inv PROVE CachesFresh
<1>1. Posted \subseteq Listings /\ Existing \subseteq Plans
  BY DEF Posted, Existing
<1>2. ASSUME NEW l \in Posted, Settled(l) PROVE Agrees(ListingKey(l), listing[l])
  <2>1. PICK k : k = ListingKey(l)
    OBVIOUS
  <2>2. k \in Copied /\ Subject(k) = l /\ k[1] = "listing" /\ k[2] = l
    BY <1>1, <2>1, KeyCopied, SubjectIs, KeyIs
  <2>3. Quiet(Subject(k)) /\ ~Contended(k) /\ Current(k) = listing[l]
    BY <1>2, <2>2 DEF Settled, Contended, Current
  <2>4. QED
    BY <2>1, <2>2, <2>3, QuietKeys DEF Agrees
<1>3. ASSUME NEW u \in Users, Quiet(u), Calm(u) PROVE PageFresh(u)
  <2>1. PICK k : k = UserPage(u)
    OBVIOUS
  <2>2. k \in Copied /\ Subject(k) = u /\ k[1] = "user:listings" /\ k[2] = u
    BY <2>1, KeyCopied, SubjectIs, KeyIs
  <2>3. Quiet(Subject(k)) /\ ~Contended(k) /\ Current(k) = Search(ActiveListings, u)
    BY <1>3, <2>2 DEF Contended, Current
  <2>4. QED
    BY <2>1, <2>2, <2>3, QuietKeys DEF Agrees, PageFresh
<1>4. ASSUME NEW p \in Existing, Settled(p) PROVE Agrees(PlanKey(p), plan[p])
  <2>1. PICK k : k = PlanKey(p)
    OBVIOUS
  <2>2. k \in Copied /\ Subject(k) = p /\ k[1] = "plan" /\ k[2] = p
    BY <1>1, <2>1, KeyCopied, SubjectIs, KeyIs
  <2>3. Quiet(Subject(k)) /\ ~Contended(k) /\ Current(k) = plan[p]
    BY <1>4, <2>2 DEF Settled, Contended, Current
  <2>4. QED
    BY <2>1, <2>2, <2>3, QuietKeys DEF Agrees
<1>5. ASSUME Settled("plans") PROVE Agrees(PlansKey, ActivePlans)
  <2>1. PICK k : k = PlansKey
    OBVIOUS
  <2>2. k \in Copied /\ Subject(k) = "plans" /\ k[1] = "plans"
    BY <2>1, KeyCopied, SubjectIs, KeyIs
  <2>3. Quiet(Subject(k)) /\ ~Contended(k) /\ Current(k) = ActivePlans
    BY <1>5, <2>2 DEF Settled, Contended, Current
  <2>4. QED
    BY <2>1, <2>2, <2>3, QuietKeys DEF Agrees
<1>6. QED
  BY <1>2, <1>3, <1>4, <1>5 DEF CachesFresh, ListingsFresh, PlansFresh

LEMMA CountedOf == ASSUME Inv PROVE ViewsCounted
<1>1. ASSUME NEW l \in Posted, Settled(l)
      PROVE  /\ listing[l].views = Cardinality(Viewings(l))
             /\ \A i, j \in Viewings(l) : i # j => views[i] # views[j]
  <2>1. l \notin contended /\ \A r \in Requests : l \notin req[r].about
    BY <1>1 DEF Settled, Quiet
  <2>2. ASSUME NEW r \in Requests, Needs(req[r].todo, <<"ahead", l, Nobody>>) PROVE FALSE
    <3>1. Fit(req[r].todo, req[r].about)
      BY DEF Inv, Shaped
    <3>2. l \in req[r].about
      BY <2>2, <3>1, AheadHead
    <3>3. QED
      BY <2>1, <3>2
  <2>3. QED
    BY <2>1, <2>2 DEF Inv, Fresh, Balanced, Novel
<1>2. QED
  BY <1>1 DEF ViewsCounted, Viewings

LEMMA HiddenOf == ASSUME Inv PROVE FindOneHidesWithdrawn
<1>1. ASSUME NEW r \in Requests, At(r, "show"), NEW l, l = Arg(r, 1), l \notin contended, NEW u, u = Arg(r, 2)
      PROVE  listing[l].status = "ACTIVE" \/ listing[l].owner = u \/ IsFavorite(l, u)
  <2>1. PICK h : h = req[r].todo[1]
    OBVIOUS
  <2>2. h[1] = "show" /\ req[r].todo # <<>> /\ h[2] = l /\ h[3] = u
    BY <1>1, <2>1, Arguments
  <2>3. StepOK(h) /\ \A k \in Facts : Uses(h, k) => Known(r, k)
    BY <2>1, <2>2, AtHand DEF Inv
  <2>4. l \in Listings /\ u \in Users \cup {Nobody}
    BY <2>2, <2>3 DEF StepOK
  <2>5. PICK k : k = <<"seen", l, u>>
    OBVIOUS
  <2>6. k \in Soft /\ k \in Facts /\ k[1] = "seen" /\ k[2] = l /\ k[3] = u
    BY <2>4, <2>5 DEF Soft, Facts
  <2>7. Uses(h, k)
    BY <2>2, <2>5 DEF Uses
  <2>8. Tells(req[r].got, req[r].about, k)
    BY <1>1, <2>3, <2>6, <2>7 DEF Known
  <2>9. Seen(l, u)
    BY <2>6, <2>8 DEF Tells
  <2>10. QED
    BY <2>9 DEF Seen
<1>2. QED
  BY <1>1 DEF FindOneHidesWithdrawn

-----------------------------------------------------------------------------
(* What a step writes *)

\* No column changes but one that the request whose turn it is means to write.
Meant ==
  \A l \in Posted : l \notin contended =>
    \A c \in ListingColumns : listing'[l][c] # listing[l][c] => \E r \in Requests : c \in Written(r, l)

LEMMA RowMeant ==
  ASSUME Inv, NEW l \in Listings, l \in Posted, NEW row, Whole(row), Rewritten(l, row), NEW r \in Requests,
         l \in contended \/ \A c \in ListingColumns : row[c] # listing[l][c] => c \in Written(r, l)
  PROVE  Meant
<1>1. listing'[l] = row /\ \A m \in Listings : m # l => listing'[m] = listing[m]
  BY RewrittenIs
<1>2. Posted \subseteq Listings
  BY DEF Posted
<1>3. QED
  BY <1>1, <1>2 DEF Meant

LEMMA SaveMeant ==
  ASSUME Inv, UNCHANGED <<views, favorites, questions, plan, subscriptions>>, NEW r \in Requests, SaveListing(r)
  PROVE  Meant
<1>1. PICK l, patch, old : l = Arg(r, 1) /\ patch = Arg(r, 2) /\ old = Got(r, "listing")
  OBVIOUS
<1>2. PICK row : row = Merged(old, patch)
  OBVIOUS
<1>3. /\ l \in Listings /\ l \in Posted /\ Whole(row) /\ Rewritten(l, row) /\ (l \in contended \/ old = listing[l])
      /\ \A c \in ListingColumns : row[c] = IF c \in DOMAIN patch THEN patch[c] ELSE old[c]
  BY <1>1, <1>2, SaveListingIs
<1>4. At(r, "saveListing")
  BY DEF SaveListing
<1>5. Written(r, l) = DOMAIN patch
  <2>1. ~At(r, "setStatus") /\ ~At(r, "countView")
    BY <1>4 DEF At
  <2>2. QED
    BY <1>1, <1>4, <2>1, Zenon DEF Written
<1>6. l \in contended \/ \A c \in ListingColumns : row[c] # listing[l][c] => c \in Written(r, l)
  BY <1>3, <1>5
<1>7. QED
  BY <1>3, <1>6, RowMeant

LEMMA StatusMeant ==
  ASSUME Inv, UNCHANGED <<views, favorites, questions, plan, subscriptions>>, NEW r \in Requests, SetStatus(r)
  PROVE  Meant
<1>1. PICK l, status, old : l = Arg(r, 1) /\ status = Arg(r, 2) /\ old = Got(r, "listing")
  OBVIOUS
<1>2. PICK row : row = Merged(old, [status |-> status])
  OBVIOUS
<1>3. /\ l \in Listings /\ l \in Posted /\ Whole(row) /\ (l \in contended \/ old = listing[l])
      /\ \A c \in ListingColumns : c # "status" => row[c] = old[c]
      /\ UNCHANGED listing \/ Rewritten(l, row)
  BY <1>1, <1>2, SetStatusIs
<1>4. At(r, "setStatus")
  BY DEF SetStatus
<1>5. "status" \in Written(r, l)
  <2>1. ~At(r, "saveListing") /\ ~At(r, "countView")
    BY <1>4 DEF At
  <2>2. Written(r, l) = {"status"}
    BY <1>1, <1>4, <2>1, Zenon DEF Written
  <2>3. QED
    BY <2>2
<1>6. l \in contended \/ \A c \in ListingColumns : row[c] # listing[l][c] => c \in Written(r, l)
  BY <1>3, <1>5
<1>7. CASE UNCHANGED listing
  BY <1>7 DEF Meant
<1>8. CASE Rewritten(l, row)
  BY <1>3, <1>6, <1>8, RowMeant
<1>9. QED
  BY <1>3, <1>7, <1>8

LEMMA ViewMeant ==
  ASSUME Inv, NEW r \in Requests, CountView(r)
  PROVE  Meant
<1>1. PICK l : l = Arg(r, 1)
  OBVIOUS
<1>2. At(r, "countView") /\ listing' = [listing EXCEPT ![Arg(r, 1)].views = @ + 1]
  BY Zenon DEF CountView
<1>3. listing' = [listing EXCEPT ![l] = [listing[l] EXCEPT !.views = @ + 1]]
  BY <1>1, <1>2, Zenon
<1>4. "views" \in Written(r, l)
  <2>1. ~At(r, "saveListing") /\ ~At(r, "setStatus")
    BY <1>2 DEF At
  <2>2. Written(r, l) = {"views"}
    BY <1>1, <1>2, <2>1, Zenon DEF Written
  <2>3. QED
    BY <2>2
<1>5. ASSUME NEW m \in Posted, NEW c \in ListingColumns, listing'[m][c] # listing[m][c]
      PROVE  m = l /\ c = "views"
  <2>1. listing \in [Listings -> ListingRow \cup {NoRow}] /\ m \in Listings /\ listing[m] \in ListingRow
    BY DEF Inv, TablesOK, Posted
  <2>2. m = l
    BY <1>3, <1>5, <2>1
  <2>3. listing'[m] = [listing[m] EXCEPT !.views = @ + 1]
    BY <1>3, <2>1, <2>2
  <2>4. DOMAIN listing[m] = ListingColumns /\ listing[m] = [d \in ListingColumns |-> listing[m][d]]
    BY <2>1 DEF ListingRow, ListingColumns, Offered
  <2>5. \A d \in ListingColumns : d # "views" => listing'[m][d] = listing[m][d]
    BY <2>3, <2>4
  <2>6. QED
    BY <1>5, <2>2, <2>5
<1>6. QED
  BY <1>4, <1>5 DEF Meant

LEMMA InsertMeant == ASSUME Inv, NEW r \in Requests, InsertListing(r) PROVE Meant
<1>1. PICK m \in Listings \ Posted : listing' = [listing EXCEPT ![m] = NewListing(Arg(r, 1), Arg(r, 2))]
  BY Zenon DEF InsertListing
<1>2. \A l \in Posted : listing'[l] = listing[l]
  <2>1. listing \in [Listings -> ListingRow \cup {NoRow}] /\ Posted \subseteq Listings
    BY DEF Inv, TablesOK, Posted
  <2>2. PICK row : row = NewListing(Arg(r, 1), Arg(r, 2))
    OBVIOUS
  <2>3. listing' = [listing EXCEPT ![m] = row]
    BY <1>1, <2>2, Zenon
  <2>4. QED
    BY <2>1, <2>3
<1>3. QED
  BY <1>2 DEF Meant

LEMMA NextMeant == ASSUME Inv, [Next]_vars PROVE Meant
<1>1. ASSUME UNCHANGED listing PROVE Meant
  BY <1>1 DEF Meant
<1>2. ASSUME NEW r \in Requests, Arrive(r) PROVE UNCHANGED listing
  BY <1>2 DEF Arrive, BeginLists, BeginOwners, BeginModeration, BeginViews, BeginFavorites, BeginQuestions
<1>3. ASSUME NEW r \in Requests, ListingsSteps(r), UNCHANGED <<views, favorites, questions, plan, subscriptions>>
      PROVE  Meant
  <2>1. CASE InsertListing(r) \/ SaveListing(r) \/ SetStatus(r)
    BY <1>3, <2>1, InsertMeant, SaveMeant, StatusMeant
  <2>2. CASE ~(InsertListing(r) \/ SaveListing(r) \/ SetStatus(r))
    <3>1. UNCHANGED listing
      BY <1>3, <2>2 DEF ListingsSteps, SelectListing, SearchListings, Owns, Periods, Geocode, Prepare
    <3>2. QED
      BY <1>1, <3>1
  <2>3. QED
    BY <2>1, <2>2
<1>4. ASSUME NEW r \in Requests, Progress(r) PROVE Meant
  <2>1. CASE UNCHANGED <<listing, views, favorites, questions>>
    BY <1>1, <2>1
  <2>2. CASE InterestSteps(r) /\ UNCHANGED <<plan, subscriptions>>
    <3>1. CASE ListingsSteps(r) /\ UNCHANGED <<views, favorites, questions>>
      BY <1>3, <2>2, <3>1
    <3>2. CASE CountView(r)
      BY <3>2, ViewMeant
    <3>3. CASE /\ ~CountView(r) /\ ~(ListingsSteps(r) /\ UNCHANGED <<views, favorites, questions>>)
      <4>1. UNCHANGED listing
        BY <2>2, <3>3 DEF InterestSteps, ReadFavorite, Visible, Show, NotViewed, InsertView, MayFavor, NotFavorite,
          InsertFavorite, FindFavorite, DeleteFavorite, AskOwner, IsRecipient, SaveAnswer
      <4>2. QED
        BY <1>1, <4>1
    <3>4. QED
      BY <3>1, <3>2, <3>3
  <2>3. QED
    BY <1>4, <2>1, <2>2 DEF Progress
<1>5. CASE Forget
  BY <1>1, <1>5 DEF Forget
<1>6. CASE UNCHANGED vars
  BY <1>1, <1>6 DEF vars
<1>7. QED
  BY <1>1, <1>2, <1>4, <1>5, <1>6 DEF Next

-----------------------------------------------------------------------------
(* Theorems *)

LEMMA InvAlways == Spec => []Inv
<1>1. Init => Inv
  BY InitInv
<1>2. Inv /\ [Next]_vars => Inv'
  BY NextInv
<1>3. QED
  BY <1>1, <1>2, PTL DEF Spec

\* The tables keep the types the schema and the services give them: every subscription is a landlord's, and every
\* posted listing has prices, one for each period, however creations, updates and moderation interleave.
THEOREM MarketSafe == Spec => []MarketInv
<1>1. Inv => MarketInv
  BY SafeOf
<1>2. QED
  BY <1>1, InvAlways, PTL

\* A user keeps a listing once and never an own one, and asks no question about an own listing, whatever requests
\* race: the UNIQUE constraint decides between two that checked at once, and a listing never changes its owner.
THEOREM NeverOwnListings == Spec => []InterestInOthers
<1>1. Inv => InterestInOthers
  BY DEF Inv
<1>2. QED
  BY <1>1, InvAlways, PTL

\* Plans have names of their own, and a landlord whose requests did not overlap has one active subscription to a
\* plan at most: what the handler found before it inserts still holds, unless somebody subscribed in between.
THEOREM SubscribedOnce == Spec => []OneSubscription
<1>1. Inv => OneSubscription
  BY DEF Inv
<1>2. QED
  BY <1>1, InvAlways, PTL

\* Once they have settled, no key of a listing, a user's page, a plan or the plans is stale: every write is before or
\* after the deletion of the keys that copy it, in one handler, and nobody else filled them in between.
THEOREM NoStaleKeys == Spec => []CachesFresh
<1>1. Inv => CachesFresh
  BY FreshOf
<1>2. QED
  BY <1>1, InvAlways, PTL

\* Once a listing has settled, its counter is the number of rows of its history, and no user is in it twice.
THEOREM EveryViewCounts == Spec => []ViewsCounted
<1>1. Inv => ViewsCounted
  BY CountedOf
<1>2. QED
  BY <1>1, InvAlways, PTL

\* findOne opens a listing that is not active to nobody but its owner and those who keep it as a favorite, although
\* it reads it from the cache: the copy that is checked is the row, unless requests about the listing overlapped or
\* failed.  It is about findOne's response only: the cached pages of a type list the listing until they expire.
THEOREM FindOneHides == Spec => []FindOneHidesWithdrawn
<1>1. Inv => FindOneHidesWithdrawn
  BY HiddenOf
<1>2. QED
  BY <1>1, InvAlways, PTL

\* An update, which saves every column of the listing as the cache had it, writes none but those that were sent: the
\* verdict of a moderator and the views stay, unless their request overlapped.
THEOREM VerdictStays == Spec => VerdictKept
<1>1. Inv /\ [Next]_vars => [Meant]_listingsVars
  BY NextMeant
<1>2. [][Meant]_listingsVars => VerdictKept
  BY DEF VerdictKept, Meant
<1>3. QED
  BY <1>1, <1>2, InvAlways, PTL DEF Spec
=============================================================================
