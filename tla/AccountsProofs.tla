--------------------------- MODULE AccountsProofs ---------------------------
(***************************************************************************)
(* What the services around users keep, however many requests there are    *)
(* and whatever fails: the types of the tables, the cache, the columns, the *)
(* constraints that no table declares, and the chains of refreshes.          *)
(***************************************************************************)
EXTENDS Accounts, HandlersProofs, DataInduction

-----------------------------------------------------------------------------
(* Facts.  A handler reads or checks something and relies on it a few steps later.  What may be
   relied on is named: a key of the cache stands for what it gives, the others are
   <<"free", t>>      no user has the Telegram account t
   <<"dropped", u>>   the profile of u is not in the cache
   <<"absent", u>>    u has not signed up *)

Facts == UsersKeys \cup ({"free"} \X (Telegrams \ {NoTg})) \cup ({"dropped", "absent"} \X Users)

\* The step x relies on the fact k, ...
Uses(x, k) ==
  \/ x[1] = "set" /\ k = x[2]
  \/ x[1] = "save" /\ k \in {ProfileKey(x[2]), StatusKey(x[2]), <<"dropped", x[2]>>}
  \/ x[1] = "save" /\ "tg" \in DOMAIN x[3] /\ k = <<"free", x[3].tg>>
  \/ x[1] \in {"notBanned", "matchCode"} /\ k = ProfileKey(x[2])
  \/ x[1] = "createUser" /\ k = <<"absent", x[2]>>

\* ... establishes it ...
Gives(x, k) ==
  \/ x[1] = "select" /\ k = x[2]
  \/ x[1] = "unique" /\ "tg" \in DOMAIN x[2] /\ k = <<"free", x[2].tg>>
  \/ x[1] = "delete" /\ x[2] = ProfileKey(x[2][2]) /\ k = <<"dropped", x[2][2]>>

\* ... or may end it.
Writes == {"save", "write", "createUser"}
Calls == {"matchCode", "findByPhone", "findRefresh", "findByTelegramId", "findToken", "useToken",
          "insertReview", "rate", "scan"}
Breaks(x, k) ==
  \/ x[1] \in Writes \cup Calls
  \/ x[1] = "insertRole" /\ k[1] = "roles"
  \/ x[1] = "select" /\ k[1] = x[2][1] /\ k # x[2]
  \/ x[1] = "set" /\ x[2][1] = "profile" /\ k = <<"dropped", x[2][2]>>

\* The program relies on a fact that it does not establish before.
Needs(q, k) == \E i \in DOMAIN q : Uses(q[i], k) /\ \A j \in 1..i - 1 : ~Gives(q[j], k)
Closed(q) == \A k \in Facts : ~Needs(q, k)

\* What may end a fact that the program relies on is followed by what establishes it again.
Sound(q) ==
  \A a, i \in DOMAIN q : \A k \in Facts :
    a < i /\ Uses(q[i], k) /\ Breaks(q[a], k) => \E j \in a..i - 1 : Gives(q[j], k)

-----------------------------------------------------------------------------
(* Programs *)

\* A key is read by three steps, and one that a column or a role is written for is deleted next.
KeyOf(patch) == IF DOMAIN patch = {"online"} THEN "status" ELSE "profile"
Adjacent(q) ==
  \A i \in DOMAIN q :
    /\ q[i][1] = "get" =>
         i + 2 \in DOMAIN q /\ q[i + 1] = <<"select", q[i][2]>> /\ q[i + 2] = <<"set", q[i][2]>>
    /\ q[i][1] = "write" => i + 1 \in DOMAIN q /\ q[i + 1] = <<"delete", <<KeyOf(q[i][3]), q[i][2]>>>>
    /\ q[i][1] = "insertRole" => i + 1 \in DOMAIN q /\ q[i + 1] = <<"delete", RolesKey(q[i][2])>>

\* The steps that come last.
Final == {"saveToken", "findRefresh", "findByPhone", "findByTelegramId", "findToken", "useToken",
          "insertReview", "insertToken"}

\* The columns have the values of the schema, in a profile and in a patch.
ColumnType ==
  [phone |-> Phones, banned |-> BOOLEAN, verified |-> BOOLEAN, online |-> BOOLEAN,
   tg |-> Telegrams \cup {NoTg}, twoFa |-> BOOLEAN, codes |-> SUBSET Codes,
   asLandlord |-> Nat \X Nat, asRenter |-> Nat \X Nat]
Typed(f, columns) == \A c \in columns : f[c] \in ColumnType[c]
PatchOK(patch, columns) == DOMAIN patch \subseteq columns /\ Typed(patch, DOMAIN patch)
Saved == Columns \ {"online", "banned", "verified"}

Reads == {"get", "select", "set"}
OfUser == {"save", "write", "exists", "insertRole", "notBanned", "makeCodes", "matchCode",
           "createUser", "saveToken", "insertToken", "rate"}

\* The arguments of a step are what its action expects, ...
StepOK(x) ==
  /\ x[1] \in Reads => x[2] \in Copies
  /\ x[1] \in {"put", "peek"} => x[2][1] \in {"flash-call", "2fa:temp"}
  /\ x[1] \in OfUser => x[2] \in Users
  /\ x[1] = "unique" => PatchOK(x[2], Columns)
  /\ x[1] = "save" => PatchOK(x[3], Saved)
  /\ x[1] = "write" =>
       \E b \in BOOLEAN : x[3] \in {[online |-> b], [banned |-> b], [verified |-> b]}
  /\ x[1] = "insertRole" => x[3] \in BothRoles
  /\ x[1] = "matchCode" => x[3] \in Codes
  /\ x[1] = "createUser" => x[3] \in Phones
  /\ x[1] = "findByPhone" => x[2] \in Phones
  /\ x[1] \in {"findRefresh", "revoke"} => x[2] \in DOMAIN tokens
  /\ x[1] = "saveToken" => x[3] \in 0..Len(tokens)
  /\ x[1] \in {"findByTelegramId", "findToken", "useToken"} => x[2] \in Telegrams
  /\ x[1] = "findByTelegramId" => x[3] \in 0..Len(linkTokens)
  /\ x[1] \in {"findToken", "useToken"} => x[3] \in DOMAIN linkTokens /\ x[4] \in Users \cup {NoRow}
  /\ x[1] \in {"mayReview", "insertReview"} => x[2] \in Bookings /\ x[3] \in Users
  /\ x[1] = "insertReview" => x[4] \in Ratings
  /\ x[1] = "rate" => x[3] \in BothRoles
  /\ x[1] \in {"scan", "unlink"} => x[2] \subseteq Copies \ UsersKeys

\* ... and what it is about, its request is about.
Minds(x, A) ==
  /\ x[1] \in Reads \cup {"put", "delete"} => x[2][2] \in A
  /\ x[1] \in {"save", "write", "insertRole", "notBanned", "makeCodes", "matchCode",
             "createUser", "rate"} => x[2] \in A
  /\ x[1] = "save" /\ "tg" \in DOMAIN x[3] => x[3].tg \in A \cup {NoTg}
  /\ x[1] \in {"revoke", "findRefresh"} => Login(tokens[x[2]].login) \in A
  /\ x[1] = "findRefresh" => tokens[x[2]].user \in A
  /\ x[1] = "saveToken" /\ x[3] # 0 => Login(x[3]) \in A
  /\ x[1] \in {"findByTelegramId", "findToken", "useToken"} => x[2] \in A
  /\ x[1] \in {"findToken", "useToken"} /\ x[4] # NoRow => x[4] \in A
  /\ x[1] = "useToken" => linkTokens[x[3]].user \in A
  /\ x[1] \in {"mayReview", "insertReview"} => Target(x[2], x[3]) \in A

\* A program that a request may have left, and one that relies on nothing before.
Fit(q, A) ==
  /\ Program(q) /\ Sound(q) /\ Adjacent(q) /\ Ends(q, Final)
  /\ \A x \in Steps(q) : StepOK(x) /\ Minds(x, A)
Whole(q, A) == Fit(q, A) /\ Closed(q)

\* A program that a request may open with: it continues no login.
Opening(q, A) == Whole(q, A) /\ \A x \in Steps(q) : x[1] = "saveToken" => x[3] = 0

-----------------------------------------------------------------------------
(* The shape of the requests and the types of the data *)

\* What is found under a key of a user.
ValueOK(kind, v) ==
  /\ kind = "profile" => Typed(v, Columns \ {"online"})
  /\ kind = "status" => v \in BOOLEAN

\* A request has read what it relies on.
HasRead(r) ==
  /\ \A k \in UsersKeys : Needs(req[r].todo, k) => k[1] \in DOMAIN req[r].got
  /\ \A kind \in DOMAIN req[r].got : ValueOK(kind, req[r].got[kind])

Counted ==
  /\ mix \in Mixes
  /\ \A r \in Requests : req[r].op \in mix.ops \cup {"none"}
  /\ calls \in 0..mix.calls /\ faults \in 0..mix.faults

Shaped ==
  /\ Proper /\ Apart /\ Counted
  /\ \A r \in Requests : Fit(req[r].todo, req[r].about) /\ HasRead(r)

\* The rows of the tables; a login is the number of a token, that of its first.
Tables ==
  /\ user \in [Users -> UserRow \cup {NoRow}]
  /\ roles \in [Users -> SUBSET BothRoles]
  /\ spent \in [Users -> SUBSET Codes]
  /\ tokens \in Seq([user: Users, login: Nat \ {0}, revoked: BOOLEAN])
  /\ linkTokens \in Seq([user: Users, used: BOOLEAN])
  /\ reviews \in Seq([booking: Bookings, by: Users, rating: Ratings])
  /\ jwts \subseteq ({"register"} \X Phones) \cup ({"2fa"} \X Users)
  /\ \A i \in DOMAIN tokens : tokens[i].login \in 1..i
Cached == \A k \in DOMAIN cache : ValueOK(k[1], cache[k])

PhonesDiffer == \A u, v \in Registered : u # v => user[u].phone # user[v].phone

AccountsTypes == Shaped /\ Tables /\ Cached /\ PhonesDiffer

-----------------------------------------------------------------------------
(* Chains of refreshes *)

Live(l) == {i \in DOMAIN tokens : tokens[i].login = l /\ ~tokens[i].revoked}

\* The step issues the next token of a login, which the request may do when the last one is revoked, or is about
\* to be by it.
Chained(x) == x[1] = "saveToken" /\ x[3] # 0
Revokes(r, l) == At(r, "revoke") /\ tokens[Arg(r, 1)].login = l /\ ~tokens[Arg(r, 1)].revoked
MayIssue(r, l) == Login(l) \in contended \/ Live(l) = {} \/ Revokes(r, l)

Chains ==
  /\ OneTokenPerLogin
  /\ \A r \in Requests : \A x \in Left(r) : Chained(x) => MayIssue(r, x[3])

\* A step that issues no token that the request would not have, but of a login it revokes next; ...
Issuing(r) == \A x \in Left(r)' : Chained(x) => x \in Left(r) \/ Revokes(r, x[3])'

\* ... one that may end everything, and leaves what relies on nothing.
Turns(r) == Elsewhere(r) /\ contended \subseteq contended' /\ Closed(req'[r].todo) /\ Issuing(r)

-----------------------------------------------------------------------------
(* What requests know, and what the cache holds *)

Holds(r, k) ==
  /\ k[1] \in {"profile", "status", "roles"} =>
       /\ k[1] \in DOMAIN req[r].got /\ req[r].got[k[1]] = Current(k)
       /\ k[1] # "roles" => k[2] \in Registered
  /\ k[1] = "free"    => \A v \in Registered : user[v].tg = k[2] => v \in contended
  /\ k[1] = "dropped" => ProfileKey(k[2]) \notin DOMAIN cache
  /\ k[1] = "absent"  => k[2] \notin Registered

Knows(r) == \A k \in Facts : Needs(req[r].todo, k) => k[2] \in contended \/ Holds(r, k)

\* A key of a user holds what the tables hold, or is about to be deleted.
Drops(r, k) == req[r].todo # <<>> /\ req[r].todo[1] = <<"delete", k>>
CacheFresh ==
  \A k \in UsersKeys : k \in DOMAIN cache =>
    \/ k[2] \in contended
    \/ cache[k] = Current(k) /\ (k[1] # "roles" => k[2] \in Registered)
    \/ \E r \in Requests : Drops(r, k)

Known == TelegramUnique /\ CacheFresh /\ \A r \in Requests : Knows(r)

-----------------------------------------------------------------------------
(* The algebra of programs *)

\* What the program p may end of a fact, it establishes again.
Keeps(p, k) == \A a \in DOMAIN p : Breaks(p[a], k) => \E j \in DOMAIN p : a <= j /\ Gives(p[j], k)

\* What the rest of a program relies on, its first step establishes, or leaves as it was.
LEMMA NeedsTail ==
  ASSUME NEW q, Program(q), q # <<>>, Sound(q), NEW k \in Facts, Needs(Tail(q), k)
  PROVE  Gives(q[1], k) \/ (Needs(q, k) /\ ~Breaks(q[1], k))
<1>1. /\ \A i \in DOMAIN Tail(q) : i + 1 \in DOMAIN q /\ Tail(q)[i] = q[i + 1]
      /\ Len(q) \in Nat \ {0} /\ Len(Tail(q)) = Len(q) - 1
      /\ DOMAIN q = 1..Len(q) /\ DOMAIN Tail(q) = 1..Len(Tail(q)) /\ 1 \in DOMAIN q
  BY ProgramTail
<1>2. PICK i \in DOMAIN Tail(q) :
        Uses(Tail(q)[i], k) /\ \A j \in 1..i - 1 : ~Gives(Tail(q)[j], k)
  BY DEF Needs
<1>3. i \in Nat /\ i + 1 \in DOMAIN q /\ Uses(q[i + 1], k)
  BY <1>1, <1>2
<1>4. SUFFICES ASSUME ~Gives(q[1], k) PROVE Needs(q, k) /\ ~Breaks(q[1], k)
  OBVIOUS
<1>5. ASSUME NEW j \in 1..i PROVE ~Gives(q[j], k)
  <2>1. CASE j = 1
    BY <1>4, <2>1
  <2>2. CASE j # 1
    <3>1. j - 1 \in 1..i - 1 /\ j - 1 \in DOMAIN Tail(q) /\ (j - 1) + 1 = j
      BY <1>1, <1>2, <1>5, <2>2
    <3>2. Tail(q)[j - 1] = q[j]
      BY <1>1, <3>1
    <3>3. QED
      BY <1>2, <3>1, <3>2
  <2>3. QED
    BY <2>1, <2>2
<1>6. Needs(q, k)
  <2>1. (i + 1) - 1 = i
    BY <1>3
  <2>2. QED
    BY <1>3, <1>5, <2>1 DEF Needs
<1>7. ASSUME Breaks(q[1], k) PROVE FALSE
  <2>1. 1 < i + 1 /\ (i + 1) - 1 = i
    BY <1>1, <1>2, <1>3
  <2>2. \E j \in 1..(i + 1) - 1 : Gives(q[j], k)
    BY <1>1, <1>3, <1>7, <2>1 DEF Sound
  <2>3. QED
    BY <1>5, <2>1, <2>2
<1>8. QED
  BY <1>6, <1>7

LEMMA NeedsHead ==
  ASSUME NEW q, Program(q), q # <<>>, NEW k, Uses(q[1], k)
  PROVE  Needs(q, k)
<1>1. 1 \in DOMAIN q
  BY ProgramTail
<1>2. \A j \in 1..1 - 1 : ~Gives(q[j], k)
  OBVIOUS
<1>3. QED
  BY <1>1, <1>2 DEF Needs

LEMMA NeedsNothing == \A k : ~Needs(<<>>, k)
BY DEF Needs

\* The rest of a program is a program that may be left.
LEMMA FitTail ==
  ASSUME NEW q, NEW A, Fit(q, A), q # <<>>
  PROVE  /\ Fit(Tail(q), A) /\ StepOK(q[1]) /\ Minds(q[1], A)
         /\ q[1][1] \in Final => Tail(q) = <<>>
<1>0. Program(q) /\ Sound(q) /\ Adjacent(q) /\ Ends(q, Final) /\ \A x \in Steps(q) : StepOK(x) /\ Minds(x, A)
  BY DEF Fit
<1>1. /\ Program(Tail(q)) /\ q[1] \in Steps(q) /\ Steps(q) = {q[1]} \cup Steps(Tail(q))
      /\ \A i \in DOMAIN Tail(q) : i + 1 \in DOMAIN q /\ Tail(q)[i] = q[i + 1]
      /\ Len(q) \in Nat \ {0} /\ Len(Tail(q)) = Len(q) - 1
      /\ DOMAIN q = 1..Len(q) /\ DOMAIN Tail(q) = 1..Len(Tail(q))
  BY <1>0, ProgramTail
<1>2. Ends(Tail(q), Final) /\ (q[1][1] \in Final => Tail(q) = <<>>)
  BY <1>0, EndsTail
<1>3. Sound(Tail(q))
  <2>1. ASSUME NEW a \in DOMAIN Tail(q), NEW i \in DOMAIN Tail(q), NEW k \in Facts,
               a < i, Uses(Tail(q)[i], k), Breaks(Tail(q)[a], k)
        PROVE  \E j \in a..i - 1 : Gives(Tail(q)[j], k)
    <3>1. /\ a + 1 \in DOMAIN q /\ i + 1 \in DOMAIN q /\ a + 1 < i + 1
          /\ Uses(q[i + 1], k) /\ Breaks(q[a + 1], k) /\ a \in Nat /\ i \in Nat
      BY <1>1, <2>1
    <3>2. PICK j \in a + 1..(i + 1) - 1 : Gives(q[j], k)
      BY <1>0, <3>1 DEF Sound
    <3>3. j - 1 \in a..i - 1 /\ j - 1 \in DOMAIN Tail(q) /\ (j - 1) + 1 = j
      BY <1>1, <3>1, <3>2
    <3>4. Tail(q)[j - 1] = q[j]
      BY <1>1, <3>3
    <3>5. QED
      BY <3>2, <3>3, <3>4
  <2>2. QED
    BY <2>1 DEF Sound
<1>4. Adjacent(Tail(q))
  <2>1. ASSUME NEW i \in DOMAIN Tail(q), NEW n \in {1, 2}, (i + 1) + n \in DOMAIN q
        PROVE  i + n \in DOMAIN Tail(q) /\ Tail(q)[i + n] = q[(i + 1) + n]
    <3>1. i + n \in DOMAIN Tail(q) /\ (i + n) + 1 = (i + 1) + n
      BY <1>1, <2>1
    <3>2. QED
      BY <1>1, <3>1
  <2>2. ASSUME NEW i \in DOMAIN Tail(q)
        PROVE  /\ i + 1 \in DOMAIN q /\ Tail(q)[i] = q[i + 1]
               /\ (i + 1) + 2 \in DOMAIN q => /\ i + 2 \in DOMAIN Tail(q) /\ i + 1 \in DOMAIN Tail(q)
                                              /\ Tail(q)[i + 2] = q[(i + 1) + 2]
                                              /\ Tail(q)[i + 1] = q[(i + 1) + 1]
               /\ (i + 1) + 1 \in DOMAIN q => i + 1 \in DOMAIN Tail(q) /\ Tail(q)[i + 1] = q[(i + 1) + 1]
    <3>1. (i + 1) + 2 \in DOMAIN q => (i + 1) + 1 \in DOMAIN q
      BY <1>1
    <3>2. QED
      BY <1>1, <2>1, <3>1
  <2>3. ASSUME NEW i \in DOMAIN Tail(q), Tail(q)[i][1] = "get"
        PROVE  /\ i + 2 \in DOMAIN Tail(q) /\ Tail(q)[i + 1] = <<"select", Tail(q)[i][2]>>
               /\ Tail(q)[i + 2] = <<"set", Tail(q)[i][2]>>
    <3>1. /\ (i + 1) + 2 \in DOMAIN q /\ q[(i + 1) + 1] = <<"select", q[i + 1][2]>>
          /\ q[(i + 1) + 2] = <<"set", q[i + 1][2]>>
      BY <1>0, <2>2, <2>3 DEF Adjacent
    <3>2. QED
      BY <2>2, <3>1
  <2>4. ASSUME NEW i \in DOMAIN Tail(q), Tail(q)[i][1] = "write"
        PROVE  /\ i + 1 \in DOMAIN Tail(q)
               /\ Tail(q)[i + 1] = <<"delete", <<KeyOf(Tail(q)[i][3]), Tail(q)[i][2]>>>>
    <3>1. /\ (i + 1) + 1 \in DOMAIN q
          /\ q[(i + 1) + 1] = <<"delete", <<KeyOf(q[i + 1][3]), q[i + 1][2]>>>>
      BY <1>0, <2>2, <2>4 DEF Adjacent
    <3>2. QED
      BY <2>2, <3>1
  <2>5. ASSUME NEW i \in DOMAIN Tail(q), Tail(q)[i][1] = "insertRole"
        PROVE  i + 1 \in DOMAIN Tail(q) /\ Tail(q)[i + 1] = <<"delete", RolesKey(Tail(q)[i][2])>>
    <3>1. (i + 1) + 1 \in DOMAIN q /\ q[(i + 1) + 1] = <<"delete", RolesKey(q[i + 1][2])>>
      BY <1>0, <2>2, <2>5 DEF Adjacent
    <3>2. QED
      BY <2>2, <3>1
  <2>6. QED
    BY <2>3, <2>4, <2>5 DEF Adjacent
<1>5. QED
  BY <1>0, <1>1, <1>2, <1>3, <1>4 DEF Fit

\* What the rest of a program may rely on after a step that may end everything: nothing.
LEMMA ClosedTail ==
  ASSUME NEW q, NEW A, Fit(q, A), q # <<>>, q[1][1] \in Writes \cup Calls
  PROVE  Whole(Tail(q), A)
<1>1. Fit(Tail(q), A) /\ Program(q) /\ Sound(q)
  BY FitTail DEF Fit
<1>2. ASSUME NEW k \in Facts, Needs(Tail(q), k) PROVE FALSE
  <2>1. Gives(q[1], k) \/ ~Breaks(q[1], k)
    BY <1>1, <1>2, NeedsTail
  <2>2. q[1][1] \notin {"select", "unique", "delete"}
    BY DEF Writes, Calls
  <2>3. QED
    BY <2>1, <2>2 DEF Gives, Breaks
<1>3. QED
  BY <1>1, <1>2 DEF Whole, Closed

\* A program before another: what the second relies on, the first establishes or relies on as well.
LEMMA NeedsJoin ==
  ASSUME NEW p, NEW q, Program(p), Program(q), NEW k, Needs(p \o q, k)
  PROVE  Needs(p, k) \/ (Needs(q, k) /\ \A x \in Steps(p) : ~Gives(x, k))
<1>1. /\ Len(p) \in Nat /\ Len(q) \in Nat
      /\ DOMAIN p = 1..Len(p) /\ DOMAIN q = 1..Len(q) /\ DOMAIN (p \o q) = 1..Len(p) + Len(q)
      /\ \A i \in 1..Len(p) + Len(q) : (p \o q)[i] = IF i <= Len(p) THEN p[i] ELSE q[i - Len(p)]
  BY ProgramJoin
<1>2. PICK i \in DOMAIN (p \o q) : Uses((p \o q)[i], k) /\ \A j \in 1..i - 1 : ~Gives((p \o q)[j], k)
  BY DEF Needs
<1>3. CASE i <= Len(p)
  <2>1. i \in DOMAIN p /\ (p \o q)[i] = p[i]
    BY <1>1, <1>2, <1>3
  <2>2. ASSUME NEW j \in 1..i - 1 PROVE ~Gives(p[j], k)
    <3>1. j \in 1..Len(p) + Len(q) /\ j <= Len(p)
      BY <1>1, <1>2, <1>3
    <3>2. (p \o q)[j] = p[j]
      BY <1>1, <3>1
    <3>3. QED
      BY <1>2, <3>2
  <2>3. QED
    BY <1>2, <2>1, <2>2 DEF Needs
<1>4. CASE ~(i <= Len(p))
  <2>1. i - Len(p) \in DOMAIN q /\ (p \o q)[i] = q[i - Len(p)]
    BY <1>1, <1>2, <1>4
  <2>2. ASSUME NEW j \in 1..(i - Len(p)) - 1 PROVE ~Gives(q[j], k)
    <3>1. /\ j + Len(p) \in 1..Len(p) + Len(q) /\ ~(j + Len(p) <= Len(p))
          /\ (j + Len(p)) - Len(p) = j /\ j + Len(p) \in 1..i - 1
      BY <1>1, <1>2, <1>4
    <3>2. (p \o q)[j + Len(p)] = q[j]
      BY <1>1, <3>1
    <3>3. QED
      BY <1>2, <3>1, <3>2
  <2>3. Needs(q, k)
    BY <1>2, <2>1, <2>2 DEF Needs
  <2>4. ASSUME NEW j \in DOMAIN p PROVE ~Gives(p[j], k)
    <3>1. j \in 1..i - 1 /\ j \in 1..Len(p) + Len(q) /\ j <= Len(p)
      BY <1>1, <1>2, <1>4
    <3>2. (p \o q)[j] = p[j]
      BY <1>1, <3>1
    <3>3. QED
      BY <1>2, <3>1, <3>2
  <2>5. QED
    BY <2>3, <2>4 DEF Steps
<1>5. QED
  BY <1>3, <1>4

\* The first of two programs may be left before the second if it keeps what that relies on.
LEMMA FitJoin ==
  ASSUME NEW p, NEW q, NEW A, Fit(p, A), Fit(q, A), \A x \in Steps(p) : x[1] \notin Final,
         \A k \in Facts : Needs(q, k) => Keeps(p, k)
  PROVE  Fit(p \o q, A)
<1>0. /\ Program(p) /\ Sound(p) /\ Adjacent(p) /\ \A x \in Steps(p) : StepOK(x) /\ Minds(x, A)
      /\ Program(q) /\ Sound(q) /\ Adjacent(q) /\ Ends(q, Final)
      /\ \A x \in Steps(q) : StepOK(x) /\ Minds(x, A)
  BY DEF Fit
<1>1. /\ Program(p \o q) /\ Steps(p \o q) = Steps(p) \cup Steps(q)
      /\ Len(p) \in Nat /\ Len(q) \in Nat
      /\ DOMAIN p = 1..Len(p) /\ DOMAIN q = 1..Len(q) /\ DOMAIN (p \o q) = 1..Len(p) + Len(q)
      /\ \A i \in 1..Len(p) + Len(q) : (p \o q)[i] = IF i <= Len(p) THEN p[i] ELSE q[i - Len(p)]
  BY <1>0, ProgramJoin
<1> DEFINE s == p \o q
<1> HIDE DEF s
<1>2. /\ DOMAIN s = 1..Len(p) + Len(q)
      /\ \A i \in DOMAIN p : i \in DOMAIN s /\ s[i] = p[i]
      /\ \A i \in DOMAIN q : i + Len(p) \in DOMAIN s /\ s[i + Len(p)] = q[i]
      /\ \A i \in DOMAIN s : i \in DOMAIN p \/ (i - Len(p) \in DOMAIN q /\ (i - Len(p)) + Len(p) = i)
  <2>1. ASSUME NEW i \in DOMAIN p PROVE i \in DOMAIN s /\ s[i] = p[i]
    <3>1. i \in 1..Len(p) + Len(q) /\ i <= Len(p)
      BY <1>1
    <3>2. QED
      BY <1>1, <3>1 DEF s
  <2>2. ASSUME NEW i \in DOMAIN q PROVE i + Len(p) \in DOMAIN s /\ s[i + Len(p)] = q[i]
    <3>1. i + Len(p) \in 1..Len(p) + Len(q) /\ ~(i + Len(p) <= Len(p)) /\ (i + Len(p)) - Len(p) = i
      BY <1>1
    <3>2. QED
      BY <1>1, <3>1 DEF s
  <2>3. ASSUME NEW i \in DOMAIN s
        PROVE  i \in DOMAIN p \/ (i - Len(p) \in DOMAIN q /\ (i - Len(p)) + Len(p) = i)
    <3>1. i \in 1..Len(p) + Len(q)
      BY <1>1 DEF s
    <3>2. QED
      BY <1>1, <3>1
  <2>4. QED
    BY <1>1, <2>1, <2>2, <2>3 DEF s
<1>3. Ends(s, Final)
  BY <1>0, EndsJoin DEF s
<1>4. Sound(s)
  <2>1. ASSUME NEW a \in DOMAIN s, NEW i \in DOMAIN s, NEW k \in Facts,
               a < i, Uses(s[i], k), Breaks(s[a], k), \A j \in a..i - 1 : ~Gives(s[j], k)
        PROVE  FALSE
    <3>0. a \in Nat /\ i \in Nat
      BY <1>1, <1>2
    <3>1. CASE i \in DOMAIN p
      <4>1. a \in DOMAIN p /\ s[a] = p[a] /\ s[i] = p[i]
        BY <1>1, <1>2, <2>1, <3>0, <3>1
      <4>2. PICK j \in a..i - 1 : Gives(p[j], k)
        BY <1>0, <2>1, <3>1, <4>1 DEF Sound
      <4>3. j \in DOMAIN p
        BY <1>1, <3>0, <3>1, <4>1, <4>2
      <4>4. QED
        BY <1>2, <2>1, <4>2, <4>3
    <3>2. CASE i \notin DOMAIN p
      <4>1. i - Len(p) \in DOMAIN q /\ (i - Len(p)) + Len(p) = i
        BY <1>2, <3>2
      <4>2. PICK n : n = i - Len(p)
        OBVIOUS
      <4>3. n \in DOMAIN q /\ n \in Nat /\ i = n + Len(p) /\ s[i] = q[n]
        BY <1>1, <1>2, <4>1, <4>2
      <4>4. CASE a \in DOMAIN p
        <5>1. Needs(q, k)
          <6>1. ASSUME NEW j \in 1..n - 1 PROVE ~Gives(q[j], k)
            <7>1. j \in DOMAIN q /\ j + Len(p) \in a..i - 1
              BY <1>1, <3>0, <4>3, <4>4
            <7>2. QED
              BY <1>2, <2>1, <7>1
          <6>2. QED
            BY <2>1, <4>3, <6>1 DEF Needs
        <5>2. PICK j \in DOMAIN p : a <= j /\ Gives(p[j], k)
          BY <1>2, <2>1, <4>4, <5>1 DEF Keeps
        <5>3. j \in a..i - 1
          BY <1>1, <3>0, <4>3, <5>2
        <5>4. QED
          BY <1>2, <2>1, <5>2, <5>3
      <4>5. CASE a \notin DOMAIN p
        <5>1. PICK m : m = a - Len(p)
          OBVIOUS
        <5>2. m \in DOMAIN q /\ m \in Nat /\ a = m + Len(p) /\ s[a] = q[m] /\ m < n
          BY <1>1, <1>2, <2>1, <3>0, <4>3, <4>5, <5>1
        <5>3. PICK j \in m..n - 1 : Gives(q[j], k)
          BY <1>0, <2>1, <4>3, <5>2 DEF Sound
        <5>4. j \in DOMAIN q /\ j + Len(p) \in a..i - 1
          BY <1>1, <4>3, <5>2, <5>3
        <5>5. QED
          BY <1>2, <2>1, <5>3, <5>4
      <4>6. QED
        BY <4>4, <4>5
    <3>3. QED
      BY <3>1, <3>2
  <2>2. QED
    BY <2>1 DEF Sound
<1>5. Adjacent(s)
  <2>1. \A i \in DOMAIN p : /\ i \in DOMAIN s /\ s[i] = p[i]
                            /\ i + 1 \in DOMAIN p => i + 1 \in DOMAIN s /\ s[i + 1] = p[i + 1]
                            /\ i + 2 \in DOMAIN p => /\ i + 2 \in DOMAIN s /\ s[i + 2] = p[i + 2]
                                                     /\ i + 1 \in DOMAIN p
    <3>1. ASSUME NEW i \in DOMAIN p PROVE i + 2 \in DOMAIN p => i + 1 \in DOMAIN p
      BY <1>1
    <3>2. QED
      BY <1>2, <3>1
  <2>2. ASSUME NEW i \in DOMAIN s, i \notin DOMAIN p
        PROVE  \E n \in DOMAIN q :
                 /\ s[i] = q[n]
                 /\ n + 1 \in DOMAIN q => i + 1 \in DOMAIN s /\ s[i + 1] = q[n + 1]
                 /\ n + 2 \in DOMAIN q => /\ i + 2 \in DOMAIN s /\ s[i + 2] = q[n + 2]
                                          /\ n + 1 \in DOMAIN q
    <3>1. PICK n : n = i - Len(p)
      OBVIOUS
    <3>2. n \in DOMAIN q /\ n \in Nat /\ i = n + Len(p) /\ s[i] = q[n]
      BY <1>1, <1>2, <2>2, <3>1
    <3>3. i + 1 = (n + 1) + Len(p) /\ i + 2 = (n + 2) + Len(p) /\ (n + 2 \in DOMAIN q => n + 1 \in DOMAIN q)
      BY <1>1, <3>2
    <3>4. n + 1 \in DOMAIN q => i + 1 \in DOMAIN s /\ s[i + 1] = q[n + 1]
      BY <1>2, <3>3
    <3>5. n + 2 \in DOMAIN q => i + 2 \in DOMAIN s /\ s[i + 2] = q[n + 2]
      BY <1>2, <3>3
    <3>6. QED
      BY <3>2, <3>3, <3>4, <3>5
  <2>3. ASSUME NEW i \in DOMAIN s, s[i][1] = "get"
        PROVE  i + 2 \in DOMAIN s /\ s[i + 1] = <<"select", s[i][2]>> /\ s[i + 2] = <<"set", s[i][2]>>
    <3>1. CASE i \in DOMAIN p
      BY <1>0, <2>1, <2>3, <3>1 DEF Adjacent
    <3>2. CASE i \notin DOMAIN p
      BY <1>0, <2>2, <2>3, <3>2 DEF Adjacent
    <3>3. QED
      BY <3>1, <3>2
  <2>4. ASSUME NEW i \in DOMAIN s, s[i][1] = "write"
        PROVE  i + 1 \in DOMAIN s /\ s[i + 1] = <<"delete", <<KeyOf(s[i][3]), s[i][2]>>>>
    <3>1. CASE i \in DOMAIN p
      BY <1>0, <2>1, <2>4, <3>1 DEF Adjacent
    <3>2. CASE i \notin DOMAIN p
      BY <1>0, <2>2, <2>4, <3>2 DEF Adjacent
    <3>3. QED
      BY <3>1, <3>2
  <2>5. ASSUME NEW i \in DOMAIN s, s[i][1] = "insertRole"
        PROVE  i + 1 \in DOMAIN s /\ s[i + 1] = <<"delete", RolesKey(s[i][2])>>
    <3>1. CASE i \in DOMAIN p
      BY <1>0, <2>1, <2>5, <3>1 DEF Adjacent
    <3>2. CASE i \notin DOMAIN p
      BY <1>0, <2>2, <2>5, <3>2 DEF Adjacent
    <3>3. QED
      BY <3>1, <3>2
  <2>6. QED
    BY <2>3, <2>4, <2>5 DEF Adjacent
<1>6. QED
  BY <1>0, <1>1, <1>3, <1>4, <1>5 DEF Fit, s

\* Programs that rely on nothing before follow one another.
LEMMA WholeJoin ==
  ASSUME NEW p, NEW q, NEW A, Whole(p, A), Whole(q, A), \A x \in Steps(p) : x[1] \notin Final
  PROVE  Whole(p \o q, A)
<1>1. Fit(p, A) /\ Fit(q, A) /\ Program(p) /\ Program(q)
  BY DEF Whole, Fit
<1>2. Fit(p \o q, A)
  BY <1>1, FitJoin DEF Whole, Closed
<1>3. Closed(p \o q)
  BY <1>1, NeedsJoin DEF Whole, Closed
<1>4. QED
  BY <1>2, <1>3 DEF Whole

\* A program whose needs are met by the one before.
LEMMA WholeAfter ==
  ASSUME NEW p, NEW q, NEW A, Whole(p, A), Fit(q, A), \A x \in Steps(p) : x[1] \notin Final,
         \A k \in Facts : Needs(q, k) => Keeps(p, k) /\ \E x \in Steps(p) : Gives(x, k)
  PROVE  Whole(p \o q, A)
<1>1. Fit(p, A) /\ Program(p) /\ Program(q)
  BY DEF Whole, Fit
<1>2. Fit(p \o q, A)
  BY <1>1, FitJoin
<1>3. Closed(p \o q)
  <2>1. ASSUME NEW k \in Facts, Needs(p \o q, k) PROVE FALSE
    <3>1. Needs(p, k) \/ (Needs(q, k) /\ \A x \in Steps(p) : ~Gives(x, k))
      BY <1>1, <2>1, NeedsJoin
    <3>2. QED
      BY <3>1 DEF Whole, Closed
  <2>2. QED
    BY <2>1 DEF Closed
<1>4. QED
  BY <1>2, <1>3 DEF Whole

LEMMA KeepsJoin ==
  ASSUME NEW p, NEW q, Program(p), Program(q), NEW k, Keeps(q, k),
         Keeps(p, k) \/ \E x \in Steps(q) : Gives(x, k)
  PROVE  Keeps(p \o q, k)
<1>1. /\ Len(p) \in Nat /\ Len(q) \in Nat
      /\ DOMAIN p = 1..Len(p) /\ DOMAIN q = 1..Len(q) /\ DOMAIN (p \o q) = 1..Len(p) + Len(q)
      /\ \A i \in 1..Len(p) + Len(q) : (p \o q)[i] = IF i <= Len(p) THEN p[i] ELSE q[i - Len(p)]
  BY ProgramJoin
<1>2. ASSUME NEW j \in DOMAIN q PROVE j + Len(p) \in DOMAIN (p \o q) /\ (p \o q)[j + Len(p)] = q[j]
  <2>1. j + Len(p) \in 1..Len(p) + Len(q) /\ ~(j + Len(p) <= Len(p)) /\ (j + Len(p)) - Len(p) = j
    BY <1>1
  <2>2. QED
    BY <1>1, <2>1
<1>3. ASSUME NEW a \in DOMAIN (p \o q), Breaks((p \o q)[a], k)
      PROVE  \E j \in DOMAIN (p \o q) : a <= j /\ Gives((p \o q)[j], k)
  <2>1. CASE a <= Len(p)
    <3>1. a \in DOMAIN p /\ (p \o q)[a] = p[a]
      BY <1>1, <1>3, <2>1
    <3>2. CASE Keeps(p, k)
      <4>1. PICK j \in DOMAIN p : a <= j /\ Gives(p[j], k)
        BY <1>3, <3>1, <3>2 DEF Keeps
      <4>2. j \in 1..Len(p) + Len(q) /\ j <= Len(p)
        BY <1>1, <4>1
      <4>3. j \in DOMAIN (p \o q) /\ (p \o q)[j] = p[j]
        BY <1>1, <4>2
      <4>4. QED
        BY <4>1, <4>3
    <3>3. CASE \E x \in Steps(q) : Gives(x, k)
      <4>1. PICK j \in DOMAIN q : Gives(q[j], k)
        BY <3>3 DEF Steps
      <4>2. a <= j + Len(p)
        BY <1>1, <3>1, <4>1
      <4>3. QED
        BY <1>2, <4>1, <4>2
    <3>4. QED
      BY <3>2, <3>3
  <2>2. CASE ~(a <= Len(p))
    <3>1. a - Len(p) \in DOMAIN q /\ (p \o q)[a] = q[a - Len(p)]
      BY <1>1, <1>3, <2>2
    <3>2. PICK j \in DOMAIN q : a - Len(p) <= j /\ Gives(q[j], k)
      BY <1>3, <3>1 DEF Keeps
    <3>3. a <= j + Len(p)
      BY <1>1, <1>3, <3>2
    <3>4. QED
      BY <1>2, <3>2, <3>3
  <2>3. QED
    BY <2>1, <2>2
<1>4. QED
  BY <1>3 DEF Keeps

LEMMA KeepsQuiet ==
  ASSUME NEW p, NEW k, \A x \in Steps(p) : ~Breaks(x, k)
  PROVE  Keeps(p, k)
BY DEF Keeps, Steps

-----------------------------------------------------------------------------
(* The programs of the services *)

LEMMA FitOne ==
  ASSUME NEW x, NEW A, StepOK(x), Minds(x, A), x[1] \notin {"get", "write", "insertRole"}
  PROVE  /\ Fit(<<x>>, A) /\ Program(<<x>>) /\ Steps(<<x>>) = {x}
         /\ \A k : (Needs(<<x>>, k) => Uses(x, k)) /\ (~Breaks(x, k) => Keeps(<<x>>, k))
<1>1. Program(<<x>>) /\ Steps(<<x>>) = {x} /\ Len(<<x>>) = 1 /\ DOMAIN <<x>> = {1} /\ <<x>>[1] = x
  BY ProgramOf1
<1> DEFINE q == <<x>>
<1> HIDE DEF q
<1>2. Program(q) /\ Steps(q) = {x} /\ Len(q) = 1 /\ DOMAIN q = {1} /\ q[1] = x
  BY <1>1 DEF q
<1>3. Sound(q) /\ Adjacent(q) /\ Ends(q, Final)
  BY <1>2 DEF Sound, Adjacent, Ends
<1>4. \A k : (Needs(q, k) => Uses(x, k)) /\ (~Breaks(x, k) => Keeps(q, k))
  BY <1>2 DEF Needs, Keeps
<1>5. Fit(q, A)
  BY <1>2, <1>3 DEF Fit
<1>6. QED
  BY <1>2, <1>4, <1>5 DEF q

\* A step that relies on nothing.
LEMMA WholeOne ==
  ASSUME NEW x, NEW A, StepOK(x), Minds(x, A),
         x[1] \notin {"get", "write", "insertRole", "set", "save", "notBanned", "matchCode", "createUser"}
  PROVE  /\ Whole(<<x>>, A) /\ Program(<<x>>) /\ Steps(<<x>>) = {x}
         /\ x[1] # "saveToken" \/ x[3] = 0 => Opening(<<x>>, A)
<1>1. \A k : ~Uses(x, k)
  BY DEF Uses
<1>2. Whole(<<x>>, A) /\ Program(<<x>>) /\ Steps(<<x>>) = {x}
  BY <1>1, FitOne DEF Whole, Closed
<1>3. QED
  BY <1>2 DEF Opening

LEMMA WholeNone == \A A : Whole(<<>>, A)
<1>1. Program(<<>>) /\ Steps(<<>>) = {} /\ DOMAIN <<>> = {}
  BY NoProgram
<1>2. Sound(<<>>) /\ Adjacent(<<>>) /\ Ends(<<>>, Final)
  BY <1>1 DEF Sound, Adjacent, Ends
<1>3. QED
  BY <1>1, <1>2, NeedsNothing DEF Whole, Closed, Fit

\* getOrSet: the key is read, and nothing else of its kind is known any more.
LEMMA GetOrSetWhole ==
  ASSUME NEW c \in Copies, NEW A, c[2] \in A
  PROVE  /\ Whole(GetOrSet(c), A) /\ Program(GetOrSet(c))
         /\ Steps(GetOrSet(c)) = {<<"get", c>>, <<"select", c>>, <<"set", c>>}
         /\ \E x \in Steps(GetOrSet(c)) : Gives(x, c)
         /\ \A k : k[1] # "dropped" /\ (k = c \/ k[1] # c[1]) => Keeps(GetOrSet(c), k)
<1>1. PICK x, y, z : x = <<"get", c>> /\ y = <<"select", c>> /\ z = <<"set", c>>
  OBVIOUS
<1>2. /\ x[1] = "get" /\ x[2] = c /\ y[1] = "select" /\ y[2] = c /\ z[1] = "set" /\ z[2] = c
  BY <1>1
<1> DEFINE q == <<x, y, z>>
<1>3. /\ Program(q) /\ Steps(q) = {x, y, z} /\ DOMAIN q = 1..3 /\ Len(q) = 3
      /\ q[1] = x /\ q[2] = y /\ q[3] = z
  BY ProgramOf3
<1>4. GetOrSet(c) = q
  BY <1>1 DEF GetOrSet
<1> HIDE DEF q
<1>5. /\ \A k : ~Uses(x, k) /\ ~Uses(y, k) /\ (Uses(z, k) => k = c)
      /\ \A k : ~Breaks(x, k) /\ (Gives(y, k) <=> k = c)
      /\ \A k : Breaks(y, k) => k[1] = c[1] /\ k # c
      /\ \A k : Breaks(z, k) => k[1] = "dropped"
  <2>1. \A k : ~Uses(x, k) /\ ~Uses(y, k) /\ (Uses(z, k) => k = c)
    BY <1>2 DEF Uses
  <2>2. \A k : ~Breaks(x, k) /\ (Breaks(y, k) => k[1] = c[1] /\ k # c)
    BY <1>2 DEF Breaks, Writes, Calls
  <2>3. \A k : Breaks(z, k) => k[1] = "dropped"
    BY <1>2 DEF Breaks, Writes, Calls
  <2>4. \A k : Gives(y, k) <=> k = c
    BY <1>2 DEF Gives
  <2>5. QED
    BY <2>1, <2>2, <2>3, <2>4
<1>6. ASSUME NEW k, Needs(q, k) PROVE FALSE
  <2>1. PICK i \in 1..3 : Uses(q[i], k) /\ \A j \in 1..i - 1 : ~Gives(q[j], k)
    BY <1>3, <1>6 DEF Needs
  <2>2. i = 3 /\ k = c
    BY <1>3, <1>5, <2>1
  <2>3. QED
    BY <1>3, <1>5, <2>1, <2>2
<1>7. Sound(q)
  <2>1. ASSUME NEW a \in 1..3, NEW i \in 1..3, NEW k, a < i, Uses(q[i], k), Breaks(q[a], k)
        PROVE  FALSE
    <3>1. i = 3 /\ k = c /\ a \in {1, 2}
      BY <1>3, <1>5, <2>1
    <3>2. QED
      BY <1>3, <1>5, <2>1, <3>1
  <2>2. QED
    BY <1>3, <2>1 DEF Sound
<1>8. Adjacent(q)
  <2>1. \A i \in 1..3 : q[i][1] # "write" /\ q[i][1] # "insertRole" /\ (q[i][1] = "get" => i = 1)
    BY <1>2, <1>3
  <2>2. 1 + 2 \in DOMAIN q /\ q[1 + 1] = <<"select", q[1][2]>> /\ q[1 + 2] = <<"set", q[1][2]>>
    BY <1>1, <1>2, <1>3
  <2>3. QED
    BY <1>3, <2>1, <2>2 DEF Adjacent
<1>9. StepOK(x) /\ StepOK(y) /\ StepOK(z)
  BY <1>2 DEF StepOK, OfUser, Reads
<1>10. Minds(x, A) /\ Minds(y, A) /\ Minds(z, A)
  BY <1>2 DEF Minds, Reads
<1>11. Ends(q, Final)
  BY <1>2, <1>3, EndsPlain DEF Final
<1>12. ASSUME NEW k, k[1] # "dropped", k = c \/ k[1] # c[1] PROVE Keeps(q, k)
  BY <1>3, <1>5, <1>12, KeepsQuiet
<1>13. \E s \in Steps(q) : Gives(s, c)
  BY <1>3, <1>5
<1>14. Fit(q, A)
  BY <1>3, <1>7, <1>8, <1>9, <1>10, <1>11 DEF Fit
<1>15. Whole(q, A)
  BY <1>6, <1>14 DEF Whole, Closed
<1>16. QED
  BY <1>1, <1>3, <1>4, <1>12, <1>13, <1>15

\* What the programs of the services are: they rely on nothing before, and others may follow.
Prefix(p, A) == Whole(p, A) /\ \A x \in Steps(p) : x[1] \notin Final

LEMMA PrefixJoin ==
  ASSUME NEW p, NEW q, NEW A, Prefix(p, A), Prefix(q, A)
  PROVE  Prefix(p \o q, A)
<1>1. Program(p) /\ Program(q)
  BY DEF Prefix, Whole, Fit
<1>2. Steps(p \o q) = Steps(p) \cup Steps(q)
  BY <1>1, ProgramJoin
<1>3. QED
  BY <1>2, WholeJoin DEF Prefix

LEMMA OpeningJoin ==
  ASSUME NEW p, NEW A, Prefix(p, A)
  PROVE  Opening(p, A) /\ \A q : Opening(q, A) => Opening(p \o q, A)
<1>1. \A x \in Steps(p) : x[1] # "saveToken"
  BY DEF Prefix, Final
<1>2. ASSUME NEW q, Opening(q, A) PROVE Opening(p \o q, A)
  <2>1. Whole(p \o q, A)
    BY <1>2, WholeJoin DEF Opening, Prefix
  <2>2. Program(p) /\ Program(q)
    BY <1>2 DEF Opening, Prefix, Whole, Fit
  <2>3. Steps(p \o q) = Steps(p) \cup Steps(q)
    BY <2>2, ProgramJoin
  <2>4. QED
    BY <1>1, <1>2, <2>1, <2>3 DEF Opening
<1>3. QED
  BY <1>1, <1>2 DEF Opening, Prefix

LEMMA KeyOfUser ==
  ASSUME NEW u \in Users
  PROVE  /\ ProfileKey(u) \in Copies /\ StatusKey(u) \in Copies /\ RolesKey(u) \in Copies
         /\ ProfileKey(u) \in UsersKeys /\ StatusKey(u) \in UsersKeys /\ RolesKey(u) \in UsersKeys
         /\ ProfileKey(u)[1] = "profile" /\ StatusKey(u)[1] = "status" /\ RolesKey(u)[1] = "roles"
         /\ ProfileKey(u)[2] = u /\ StatusKey(u)[2] = u /\ RolesKey(u)[2] = u
<1>1. ProfileKey(u) \in UsersKeys /\ StatusKey(u) \in UsersKeys /\ RolesKey(u) \in UsersKeys
  BY DEF ProfileKey, StatusKey, RolesKey, UsersKeys
<1>2. QED
  BY <1>1 DEF ProfileKey, StatusKey, RolesKey, Copies

\* findById reads the profile and the status.
LEMMA FindByIdPrefix ==
  ASSUME NEW u \in Users, NEW A, u \in A
  PROVE  /\ Prefix(FindById(u), A) /\ Program(FindById(u))
         /\ \A k \in {ProfileKey(u), StatusKey(u)} :
              Keeps(FindById(u), k) /\ \E x \in Steps(FindById(u)) : Gives(x, k)
         /\ \A k : k[1] = "free" => Keeps(FindById(u), k)
<1>1. PICK p, s : p = ProfileKey(u) /\ s = StatusKey(u)
  OBVIOUS
<1>2. p \in Copies /\ s \in Copies /\ p[1] = "profile" /\ s[1] = "status" /\ p[2] = u /\ s[2] = u
  BY <1>1, KeyOfUser
<1> DEFINE P == GetOrSet(p)
           S == GetOrSet(s)
<1>3. /\ Whole(P, A) /\ Program(P) /\ Steps(P) = {<<"get", p>>, <<"select", p>>, <<"set", p>>}
      /\ \E x \in Steps(P) : Gives(x, p)
      /\ \A k : k[1] # "dropped" /\ (k = p \/ k[1] # p[1]) => Keeps(P, k)
  BY <1>2, GetOrSetWhole
<1>4. /\ Whole(S, A) /\ Program(S) /\ Steps(S) = {<<"get", s>>, <<"select", s>>, <<"set", s>>}
      /\ \E x \in Steps(S) : Gives(x, s)
      /\ \A k : k[1] # "dropped" /\ (k = s \/ k[1] # s[1]) => Keeps(S, k)
  BY <1>2, GetOrSetWhole
<1>5. FindById(u) = P \o S
  BY <1>1 DEF FindById
<1> HIDE DEF P, S
<1>6. Prefix(P, A) /\ Prefix(S, A)
  BY <1>3, <1>4 DEF Prefix, Final
<1>7. Program(P \o S) /\ Steps(P \o S) = Steps(P) \cup Steps(S) /\ Prefix(P \o S, A)
  BY <1>3, <1>4, <1>6, PrefixJoin, ProgramJoin
<1>8. Keeps(P, p) /\ Keeps(S, p) /\ Keeps(S, s) /\ \A k : k[1] = "free" => Keeps(P, k) /\ Keeps(S, k)
  BY <1>2, <1>3, <1>4
<1>9. Keeps(P \o S, p) /\ Keeps(P \o S, s) /\ \A k : k[1] = "free" => Keeps(P \o S, k)
  <2>1. Keeps(P \o S, p)
    BY <1>3, <1>4, <1>8, KeepsJoin
  <2>2. Keeps(P \o S, s)
    BY <1>3, <1>4, <1>8, KeepsJoin
  <2>3. ASSUME NEW k, k[1] = "free" PROVE Keeps(P \o S, k)
    BY <1>3, <1>4, <1>8, <2>3, KeepsJoin
  <2>4. QED
    BY <2>1, <2>2, <2>3
<1>10. QED
  BY <1>1, <1>3, <1>4, <1>5, <1>7, <1>9

\* update: what is saved was read, or was looked for.
LEMMA UpdatePrefix ==
  ASSUME NEW u \in Users, NEW patch, PatchOK(patch, Saved), NEW A, u \in A,
         "tg" \in DOMAIN patch => patch.tg \in A \cup {NoTg}
  PROVE  Prefix(Update(u, patch), A)
<1>1. PICK d, s, n : /\ d = <<"delete", ProfileKey(u)>> /\ s = <<"save", u, patch>>
                     /\ n = <<"unique", patch>>
  OBVIOUS
<1>2. /\ d[1] = "delete" /\ d[2] = ProfileKey(u) /\ s[1] = "save" /\ s[2] = u /\ s[3] = patch
      /\ n[1] = "unique" /\ n[2] = patch
  BY <1>1
<1>3. /\ Prefix(FindById(u), A) /\ Program(FindById(u))
      /\ \A k \in {ProfileKey(u), StatusKey(u)} :
           Keeps(FindById(u), k) /\ \E x \in Steps(FindById(u)) : Gives(x, k)
      /\ \A k : k[1] = "free" => Keeps(FindById(u), k)
  BY FindByIdPrefix
<1>4. /\ Fit(<<d>>, A) /\ Program(<<d>>) /\ Steps(<<d>>) = {d}
      /\ \A k : ~Needs(<<d>>, k) /\ Keeps(<<d>>, k)
  <2>1. StepOK(d)
    BY <1>2 DEF StepOK, OfUser, Reads
  <2>2. Minds(d, A)
    BY <1>2, KeyOfUser DEF Minds, Reads
  <2>3. \A k : ~Uses(d, k) /\ ~Breaks(d, k)
    BY <1>2 DEF Uses, Breaks, Writes, Calls
  <2>4. QED
    BY <1>2, <2>1, <2>2, <2>3, FitOne
<1>5. Fit(<<s>>, A) /\ Program(<<s>>) /\ Steps(<<s>>) = {s} /\ \A k : Needs(<<s>>, k) => Uses(s, k)
  <2>1. StepOK(s)
    BY <1>2 DEF StepOK, OfUser, Reads
  <2>2. Minds(s, A)
    BY <1>2 DEF Minds, Reads
  <2>3. QED
    BY <1>2, <2>1, <2>2, FitOne
<1> DEFINE T == <<d>> \o <<s>>
<1>6. T = <<d, s>>
  BY JoinOf1
<1>7. Fit(T, A)
  BY <1>2, <1>4, <1>5, FitJoin DEF Final
<1>8. Steps(T) = {d, s} /\ Program(T)
  <2>1. Program(<<d>> \o <<s>>) /\ Steps(<<d>> \o <<s>>) = Steps(<<d>>) \cup Steps(<<s>>)
    BY <1>4, <1>5, ProgramJoin
  <2>2. Steps(<<d>>) \cup Steps(<<s>>) = {d, s}
    BY <1>4, <1>5
  <2>3. QED
    BY <2>1, <2>2
<1> HIDE DEF T
<1>9. ASSUME NEW k \in Facts, Needs(T, k)
      PROVE  \/ k \in {ProfileKey(u), StatusKey(u)}
             \/ "tg" \in DOMAIN patch /\ k = <<"free", patch.tg>> /\ patch.tg # NoTg
  <2>1. Needs(<<d>>, k) \/ (Needs(<<s>>, k) /\ \A x \in Steps(<<d>>) : ~Gives(x, k))
    BY <1>4, <1>5, <1>9, NeedsJoin DEF T
  <2>2. Uses(s, k) /\ ~Gives(d, k)
    BY <1>4, <1>5, <2>1
  <2>3. \/ k \in {ProfileKey(u), StatusKey(u), <<"dropped", u>>}
        \/ "tg" \in DOMAIN patch /\ k = <<"free", patch.tg>>
    BY <1>2, <2>2 DEF Uses
  <2>4. k # <<"dropped", u>>
    BY <1>2, <2>2, KeyOfUser DEF Gives
  <2>5. ASSUME "tg" \in DOMAIN patch, k = <<"free", patch.tg>> PROVE patch.tg # NoTg
    <3>1. k[1] = "free" /\ k[2] = patch.tg
      BY <2>5
    <3>2. k \in {"free"} \X (Telegrams \ {NoTg})
      BY <3>1 DEF Facts, UsersKeys
    <3>3. QED
      BY <3>1, <3>2
  <2>6. QED
    BY <2>3, <2>4, <2>5
<1>10. CASE LookedFor(patch) = {}
  <2>1. Update(u, patch) = FindById(u) \o T
    <3>1. (IF LookedFor(patch) # {} THEN <<n>> ELSE <<>>) \o FindById(u) = FindById(u)
      BY <1>3, <1>10, NoProgram
    <3>2. QED
      BY <1>1, <1>6, <3>1 DEF Update
  <2>2. \A k \in Facts : Needs(T, k) => k \in {ProfileKey(u), StatusKey(u)}
    <3>1. "tg" \in DOMAIN patch => patch.tg = NoTg
      BY <1>10 DEF LookedFor
    <3>2. QED
      BY <1>9, <3>1
  <2>3. Whole(FindById(u) \o T, A)
    BY <1>3, <1>7, <2>2, WholeAfter DEF Prefix
  <2>4. Steps(FindById(u) \o T) = Steps(FindById(u)) \cup {d, s}
    BY <1>3, <1>8, ProgramJoin
  <2>5. QED
    BY <1>2, <1>3, <2>1, <2>3, <2>4 DEF Prefix, Final
<1>11. CASE LookedFor(patch) # {}
  <2>1. Whole(<<n>>, A) /\ Program(<<n>>) /\ Steps(<<n>>) = {n} /\ Prefix(<<n>>, A)
    <3>1. StepOK(n)
      BY <1>2 DEF StepOK, OfUser, Reads, PatchOK, Saved
    <3>2. Minds(n, A)
      BY <1>2 DEF Minds, Reads
    <3>3. Whole(<<n>>, A) /\ Program(<<n>>) /\ Steps(<<n>>) = {n}
      BY <1>2, <3>1, <3>2, WholeOne
    <3>4. QED
      BY <1>2, <3>3 DEF Prefix, Final
  <2>2. \A k : Keeps(<<n>>, k)
    <3>1. \A k : ~Breaks(n, k)
      BY <1>2 DEF Breaks, Writes, Calls
    <3>2. QED
      BY <2>1, <3>1, KeepsQuiet
  <2> DEFINE X == <<n>> \o FindById(u)
  <2>3. Prefix(X, A) /\ Program(X) /\ Steps(X) = {n} \cup Steps(FindById(u))
    BY <1>3, <2>1, PrefixJoin, ProgramJoin
  <2>4. \A k : Keeps(FindById(u), k) => Keeps(X, k)
    BY <1>3, <2>1, <2>2, KeepsJoin
  <2>5. Update(u, patch) = X \o T
    BY <1>1, <1>6, <1>11 DEF Update
  <2> HIDE DEF X
  <2>6. ASSUME NEW k \in Facts, Needs(T, k) PROVE Keeps(X, k) /\ \E x \in Steps(X) : Gives(x, k)
    <3>1. CASE k \in {ProfileKey(u), StatusKey(u)}
      BY <1>3, <2>3, <2>4, <3>1
    <3>2. CASE "tg" \in DOMAIN patch /\ k = <<"free", patch.tg>>
      <4>1. k[1] = "free" /\ Gives(n, k)
        BY <1>2, <3>2 DEF Gives
      <4>2. QED
        BY <1>3, <2>3, <2>4, <4>1
    <3>3. QED
      BY <1>9, <2>6, <3>1, <3>2
  <2>7. Whole(X \o T, A)
    BY <1>7, <2>3, <2>6, WholeAfter DEF Prefix
  <2>8. Steps(X \o T) = Steps(X) \cup {d, s}
    BY <1>8, <2>3, ProgramJoin
  <2>9. QED
    BY <1>2, <2>3, <2>5, <2>7, <2>8 DEF Prefix, Final
<1>12. QED
  BY <1>10, <1>11

\* A step that relies on nothing and is not the last.
LEMMA PrefixOne ==
  ASSUME NEW x, NEW A, StepOK(x), Minds(x, A), x[1] \notin Final,
         x[1] \notin {"get", "write", "insertRole", "set", "save", "notBanned", "matchCode", "createUser"}
  PROVE  Prefix(<<x>>, A)
BY WholeOne DEF Prefix

\* The check of the profile that was just read.
LEMMA CheckedPrefix ==
  ASSUME NEW u \in Users, NEW A, u \in A,
         NEW x, StepOK(x), Minds(x, A), x[1] \in {"notBanned", "matchCode"}, x[2] = u
  PROVE  Prefix(FindById(u) \o <<x>>, A)
<1>1. /\ Prefix(FindById(u), A) /\ Program(FindById(u))
      /\ Keeps(FindById(u), ProfileKey(u)) /\ \E y \in Steps(FindById(u)) : Gives(y, ProfileKey(u))
  BY FindByIdPrefix
<1>2. Fit(<<x>>, A) /\ Program(<<x>>) /\ Steps(<<x>>) = {x} /\ \A k : Needs(<<x>>, k) => Uses(x, k)
  BY FitOne
<1>3. \A k : Uses(x, k) => k = ProfileKey(u)
  BY DEF Uses
<1>4. Whole(FindById(u) \o <<x>>, A)
  BY <1>1, <1>2, <1>3, WholeAfter DEF Prefix
<1>5. Steps(FindById(u) \o <<x>>) = Steps(FindById(u)) \cup {x}
  BY <1>1, <1>2, ProgramJoin
<1>6. QED
  BY <1>1, <1>4, <1>5 DEF Prefix, Final

LEMMA GetUserRolesPrefix ==
  ASSUME NEW u \in Users, NEW A, u \in A
  PROVE  Prefix(GetUserRoles(u), A) /\ Program(GetUserRoles(u))
<1>1. PICK c : c = RolesKey(u)
  OBVIOUS
<1>2. c \in Copies /\ c[2] = u
  BY <1>1, KeyOfUser
<1>3. /\ Whole(GetOrSet(c), A) /\ Program(GetOrSet(c))
      /\ Steps(GetOrSet(c)) = {<<"get", c>>, <<"select", c>>, <<"set", c>>}
  BY <1>2, GetOrSetWhole
<1>4. QED
  BY <1>1, <1>3 DEF Prefix, Final, GetUserRoles

LEMMA ValidatePrefix ==
  ASSUME NEW u \in Users, NEW A, u \in A
  PROVE  Prefix(Validate(u), A)
<1>1. PICK x, y : x = <<"notBanned", u>> /\ y = <<"hasRoles", u>>
  OBVIOUS
<1>2. x[1] = "notBanned" /\ x[2] = u /\ y[1] = "hasRoles" /\ y[2] = u
  BY <1>1
<1>3. Prefix(FindById(u) \o <<x>>, A)
  <2>1. StepOK(x) /\ Minds(x, A)
    BY <1>2 DEF StepOK, Minds, OfUser, Reads
  <2>2. QED
    BY <1>2, <2>1, CheckedPrefix
<1>4. Prefix(<<y>>, A)
  <2>1. StepOK(y) /\ Minds(y, A)
    BY <1>2 DEF StepOK, Minds, OfUser, Reads
  <2>2. QED
    BY <1>2, <2>1, PrefixOne DEF Final
<1>5. Prefix((FindById(u) \o <<x>>) \o GetUserRoles(u), A)
  BY <1>3, GetUserRolesPrefix, PrefixJoin
<1>6. Prefix(((FindById(u) \o <<x>>) \o GetUserRoles(u)) \o <<y>>, A)
  BY <1>4, <1>5, PrefixJoin
<1>7. QED
  BY <1>1, <1>6 DEF Validate

\* What is written is deleted next.
LEMMA PairPrefix ==
  ASSUME NEW x, NEW y, NEW A, x[1] \in {"write", "insertRole"}, StepOK(x), Minds(x, A), x[2] \in A,
         x[1] = "write" => y = <<"delete", <<KeyOf(x[3]), x[2]>>>>,
         x[1] = "insertRole" => y = <<"delete", RolesKey(x[2])>>
  PROVE  Prefix(<<x, y>>, A)
<1> DEFINE q == <<x, y>>
<1>1. Program(q) /\ Steps(q) = {x, y} /\ DOMAIN q = {1, 2} /\ Len(q) = 2 /\ q[1] = x /\ q[2] = y
  BY ProgramOf2
<1> HIDE DEF q
<1>2. y[1] = "delete" /\ y[2][2] = x[2]
  BY DEF RolesKey
<1>3. \A k : ~Uses(x, k) /\ ~Uses(y, k)
  BY <1>2 DEF Uses
<1>4. Closed(q) /\ Sound(q)
  BY <1>1, <1>3 DEF Closed, Needs, Sound
<1>5. Adjacent(q)
  <2>1. ASSUME NEW i \in {1, 2}
        PROVE  /\ q[i][1] # "get" /\ (q[i][1] \in {"write", "insertRole"} => i = 1)
    BY <1>1, <1>2
  <2>2. 1 + 1 \in DOMAIN q /\ q[1 + 1] = y
    BY <1>1
  <2>3. QED
    BY <1>1, <2>1, <2>2 DEF Adjacent
<1>6. StepOK(y) /\ Minds(y, A)
  BY <1>2 DEF StepOK, Minds, OfUser, Reads
<1>7. \A z \in Steps(q) : z[1] \notin Final
  BY <1>1, <1>2 DEF Final
<1>8. Ends(q, Final)
  BY <1>7, EndsPlain
<1>9. Fit(q, A)
  BY <1>1, <1>4, <1>5, <1>6, <1>8 DEF Fit
<1>10. QED
  BY <1>4, <1>7, <1>9 DEF Prefix, Whole, q

LEMMA WritePrefix ==
  ASSUME NEW u \in Users, NEW patch, NEW b \in BOOLEAN, NEW A, u \in A,
         patch \in {[online |-> b], [banned |-> b], [verified |-> b]}
  PROVE  Prefix(<<<<"write", u, patch>>, <<"delete", <<KeyOf(patch), u>>>>>>, A)
<1>1. PICK x : x = <<"write", u, patch>>
  OBVIOUS
<1>2. x[1] = "write" /\ x[2] = u /\ x[3] = patch
  BY <1>1
<1>3. StepOK(x) /\ Minds(x, A)
  <2>1. \E c \in BOOLEAN : x[3] \in {[online |-> c], [banned |-> c], [verified |-> c]}
    BY <1>2
  <2>2. QED
    BY <1>2, <2>1 DEF StepOK, Minds, OfUser, Reads
<1>4. <<"delete", <<KeyOf(patch), u>>>> = <<"delete", <<KeyOf(x[3]), x[2]>>>>
  BY <1>2
<1>5. QED
  BY <1>1, <1>2, <1>3, <1>4, PairPrefix

LEMMA AddRolePrefix ==
  ASSUME NEW u \in Users, NEW role \in BothRoles, NEW A, u \in A
  PROVE  Prefix(AddRole(u, role), A)
<1>1. PICK x, y : x = <<"insertRole", u, role>> /\ y = <<"delete", RolesKey(u)>>
  OBVIOUS
<1>2. x[1] = "insertRole" /\ x[2] = u /\ x[3] = role
  BY <1>1
<1>3. StepOK(x) /\ Minds(x, A)
  BY <1>2 DEF StepOK, Minds, OfUser, Reads
<1>4. Prefix(<<x, y>>, A)
  BY <1>1, <1>2, <1>3, PairPrefix
<1>5. Prefix(GetUserRoles(u) \o <<x, y>>, A)
  BY <1>4, GetUserRolesPrefix, PrefixJoin
<1>6. QED
  BY <1>1, <1>5 DEF AddRole

\* A program that ends with a step which relies on nothing.
LEMMA WholeLast ==
  ASSUME NEW p, NEW A, Prefix(p, A), NEW x, StepOK(x), Minds(x, A),
         x[1] \notin {"get", "write", "insertRole", "set", "save", "notBanned", "matchCode", "createUser"}
  PROVE  /\ Whole(p \o <<x>>, A) /\ (x[1] \notin Final => Prefix(p \o <<x>>, A))
         /\ x[1] # "saveToken" \/ x[3] = 0 => Opening(p \o <<x>>, A)
<1>1. /\ Whole(<<x>>, A) /\ Program(<<x>>) /\ Steps(<<x>>) = {x}
      /\ x[1] # "saveToken" \/ x[3] = 0 => Opening(<<x>>, A)
  BY WholeOne
<1>2. Whole(p \o <<x>>, A)
  BY <1>1, WholeJoin DEF Prefix
<1>3. x[1] \notin Final => Prefix(<<x>>, A)
  BY <1>1 DEF Prefix
<1>4. QED
  BY <1>1, <1>2, <1>3, PrefixJoin, OpeningJoin

LEMMA IssueTokensWhole ==
  ASSUME NEW u \in Users, NEW chain \in 0..Len(tokens), NEW A, u \in A, chain # 0 => Login(chain) \in A
  PROVE  /\ Whole(IssueTokens(u, chain), A) /\ (chain = 0 => Opening(IssueTokens(u, chain), A))
         /\ \A x \in Steps(IssueTokens(u, chain)) : x[1] = "saveToken" => x[3] = chain
<1>1. PICK x : x = <<"saveToken", u, chain>>
  OBVIOUS
<1>2. x[1] = "saveToken" /\ x[2] = u /\ x[3] = chain
  BY <1>1
<1>3. StepOK(x)
  BY <1>2 DEF StepOK, OfUser, Reads
<1>4. Minds(x, A)
  BY <1>2 DEF Minds, Reads
<1>5. /\ Whole(GetUserRoles(u) \o <<x>>, A)
      /\ chain = 0 => Opening(GetUserRoles(u) \o <<x>>, A)
  BY <1>2, <1>3, <1>4, GetUserRolesPrefix, WholeLast
<1>6. \A y \in Steps(GetUserRoles(u) \o <<x>>) : y[1] = "saveToken" => y[3] = chain
  <2>1. Prefix(GetUserRoles(u), A) /\ Program(GetUserRoles(u))
    BY GetUserRolesPrefix DEF Prefix, Whole, Fit
  <2>2. Program(<<x>>) /\ Steps(<<x>>) = {x}
    BY ProgramOf1
  <2>3. Steps(GetUserRoles(u) \o <<x>>) = Steps(GetUserRoles(u)) \cup {x}
    BY <2>1, <2>2, ProgramJoin
  <2>4. QED
    BY <1>2, <2>1, <2>3 DEF Prefix, Final
<1>7. QED
  BY <1>1, <1>5, <1>6 DEF IssueTokens

\* The programs of BeginUsers.
LEMMA UsersPrograms ==
  ASSUME NEW u \in Users, NEW A, u \in A
  PROVE  /\ Opening(Validate(u) \o FindById(u), A)
         /\ Opening(FindOne(u), A)
         /\ \A p \in Phones : Opening(Update(u, [phone |-> p]), A)
         /\ \A b \in BOOLEAN : /\ Opening(UpdateBanStatus(u, b), A)
                               /\ Opening(UpdateVerifiedStatus(u, b), A)
                               /\ Opening(UpdateOnlineStatus(u, b), A)
<1>1. Opening(Validate(u) \o FindById(u), A)
  BY ValidatePrefix, FindByIdPrefix, PrefixJoin, OpeningJoin
<1>2. Opening(FindOne(u), A)
  <2>1. PICK x : x = <<"notBanned", u>>
    OBVIOUS
  <2>2. x[1] = "notBanned" /\ x[2] = u
    BY <2>1
  <2>3. StepOK(x) /\ Minds(x, A)
    BY <2>2 DEF StepOK, Minds, OfUser, Reads
  <2>4. Prefix(FindById(u) \o <<x>>, A)
    BY <2>2, <2>3, CheckedPrefix
  <2>5. PICK y : y = <<"show", u>>
    OBVIOUS
  <2>6. Prefix(<<y>>, A)
    <3>1. y[1] = "show"
      BY <2>5
    <3>2. StepOK(y) /\ Minds(y, A)
      BY <3>1 DEF StepOK, Minds, OfUser, Reads
    <3>3. QED
      BY <3>1, <3>2, PrefixOne DEF Final
  <2>7. Prefix((FindById(u) \o <<x>>) \o <<y>>, A)
    BY <2>4, <2>6, PrefixJoin
  <2>8. QED
    BY <2>1, <2>5, <2>7, OpeningJoin DEF FindOne
<1>3. ASSUME NEW p \in Phones PROVE Opening(Update(u, [phone |-> p]), A)
  <2>1. PICK patch : patch = [phone |-> p]
    OBVIOUS
  <2>2. PatchOK(patch, Saved) /\ "tg" \notin DOMAIN patch
    BY <2>1 DEF PatchOK, Typed, Saved, Columns, ColumnType
  <2>3. QED
    BY <2>1, <2>2, UpdatePrefix, OpeningJoin
<1>4. ASSUME NEW b \in BOOLEAN
      PROVE  Opening(UpdateBanStatus(u, b), A) /\ Opening(UpdateVerifiedStatus(u, b), A)
  <2>1. PICK e, patch, other : /\ e = <<"exists", u>> /\ patch = [banned |-> b] /\ other = [verified |-> b]
    OBVIOUS
  <2>2. e[1] = "exists" /\ e[2] = u
    BY <2>1
  <2>3. StepOK(e) /\ Minds(e, A)
    BY <2>2 DEF StepOK, Minds, OfUser, Reads
  <2>4. Prefix(<<e>>, A)
    BY <2>2, <2>3, PrefixOne DEF Final
  <2>5. KeyOf(patch) = "profile" /\ KeyOf(other) = "profile"
    BY <2>1 DEF KeyOf
  <2>6. <<KeyOf(patch), u>> = ProfileKey(u) /\ <<KeyOf(other), u>> = ProfileKey(u)
    BY <2>5 DEF ProfileKey
  <2>7. PICK x, y, d : x = <<"write", u, patch>> /\ y = <<"write", u, other>> /\ d = <<"delete", ProfileKey(u)>>
    OBVIOUS
  <2>8. Prefix(<<x, d>>, A) /\ Prefix(<<y, d>>, A)
    BY <2>1, <2>6, <2>7, WritePrefix
  <2>9. <<e>> \o <<x, d>> = <<e, x, d>> /\ <<e>> \o <<y, d>> = <<e, y, d>>
    BY JoinOf1
  <2>10. Prefix(<<e>> \o <<x, d>>, A) /\ Prefix(<<e>> \o <<y, d>>, A)
    BY <2>4, <2>8, PrefixJoin
  <2>11. UpdateBanStatus(u, b) = <<e, x, d>> /\ UpdateVerifiedStatus(u, b) = <<e, y, d>>
    BY <2>1, <2>7 DEF UpdateBanStatus, UpdateVerifiedStatus
  <2>12. QED
    BY <2>9, <2>10, <2>11, OpeningJoin
<1>5. ASSUME NEW b \in BOOLEAN PROVE Opening(UpdateOnlineStatus(u, b), A)
  <2>1. PICK patch : patch = [online |-> b]
    OBVIOUS
  <2>2. <<KeyOf(patch), u>> = StatusKey(u)
    BY <2>1 DEF KeyOf, StatusKey
  <2>3. UpdateOnlineStatus(u, b) = <<<<"write", u, patch>>, <<"delete", <<KeyOf(patch), u>>>>>>
    BY <2>1, <2>2 DEF UpdateOnlineStatus
  <2>4. QED
    BY <2>1, <2>3, WritePrefix, OpeningJoin
<1>6. QED
  BY <1>1, <1>2, <1>3, <1>4, <1>5

\* Two or three steps that rely on nothing.
LEMMA PrefixMore ==
  ASSUME NEW A, NEW x, NEW y, Prefix(<<x>>, A), Prefix(<<y>>, A)
  PROVE  Prefix(<<x, y>>, A) /\ \A z : Prefix(<<z>>, A) => Prefix(<<x, y, z>>, A)
<1>1. Prefix(<<x>> \o <<y>>, A) /\ <<x>> \o <<y>> = <<x, y>>
  BY PrefixJoin, JoinOf1
<1>2. Prefix(<<x, y>>, A)
  BY <1>1
<1>3. ASSUME NEW z, Prefix(<<z>>, A) PROVE Prefix(<<x, y, z>>, A)
  <2>1. Prefix(<<x, y>> \o <<z>>, A) /\ <<x, y>> \o <<z>> = <<x, y, z>>
    BY <1>2, <1>3, PrefixJoin, JoinOf1
  <2>2. QED
    BY <2>1
<1>4. QED
  BY <1>2, <1>3

LEMMA CodePrefix ==
  ASSUME NEW u \in Users, NEW c \in Codes, NEW A, u \in A
  PROVE  Prefix(ValidateRecoveryCode(u, c), A)
<1>1. PICK x : x = <<"matchCode", u, c>>
  OBVIOUS
<1>2. x[1] = "matchCode" /\ x[2] = u /\ x[3] = c
  BY <1>1
<1>3. StepOK(x) /\ Minds(x, A)
  BY <1>2 DEF StepOK, Minds, OfUser, Reads
<1>4. QED
  BY <1>1, <1>2, <1>3, CheckedPrefix DEF ValidateRecoveryCode

LEMMA TwoFaPrefix ==
  ASSUME NEW u \in Users, NEW A, u \in A, NEW b
  PROVE  Prefix(FindById(u) \o <<<<"twoFaIs", u, b>>>>, A) /\ Prefix(<<<<"twoFaIs", u, b>>>>, A)
<1>1. PICK x : x = <<"twoFaIs", u, b>>
  OBVIOUS
<1>2. x[1] = "twoFaIs"
  BY <1>1
<1>3. StepOK(x) /\ Minds(x, A)
  BY <1>2 DEF StepOK, Minds, OfUser, Reads
<1>4. Prefix(<<x>>, A)
  BY <1>2, <1>3, PrefixOne DEF Final
<1>5. QED
  BY <1>1, <1>4, FindByIdPrefix, PrefixJoin

LEMMA ClearPrefix ==
  ASSUME NEW u \in Users, NEW A, u \in A
  PROVE  Prefix(ClearTwoFactor(u), A)
<1>1. PatchOK([twoFa |-> FALSE, codes |-> {}], Saved) /\ "tg" \notin DOMAIN [twoFa |-> FALSE, codes |-> {}]
  <2>1. \A c \in DOMAIN [twoFa |-> FALSE, codes |-> {}] :
          [twoFa |-> FALSE, codes |-> {}][c] \in ColumnType[c]
    <3>1. DOMAIN [twoFa |-> FALSE, codes |-> {}] = {"codes", "twoFa"}
      OBVIOUS
    <3>2. ColumnType["twoFa"] = BOOLEAN /\ ColumnType["codes"] = SUBSET Codes
      BY DEF ColumnType
    <3>3. [twoFa |-> FALSE, codes |-> {}].twoFa \in BOOLEAN
      BY Zenon
    <3>4. [twoFa |-> FALSE, codes |-> {}].codes \in SUBSET Codes
      BY Zenon
    <3>5. QED
      BY <3>1, <3>2, <3>3, <3>4, Zenon
  <2>2. /\ DOMAIN [twoFa |-> FALSE, codes |-> {}] \subseteq Saved
        /\ "tg" \notin DOMAIN [twoFa |-> FALSE, codes |-> {}]
    BY DEF Saved, Columns
  <2>3. QED
    BY <2>1, <2>2, Zenon DEF PatchOK, Typed
<1>2. PICK patch : patch = [twoFa |-> FALSE, codes |-> {}]
  OBVIOUS
<1>3. PatchOK(patch, Saved) /\ "tg" \notin DOMAIN patch
  BY <1>1, <1>2, Zenon
<1>4. Prefix(Update(u, patch), A)
  BY <1>3, UpdatePrefix
<1>5. QED
  BY <1>2, <1>4, Zenon DEF ClearTwoFactor

LEMMA CodesPrefix ==
  ASSUME NEW u \in Users, NEW A, u \in A, NEW S, S \subseteq Codes
  PROVE  Prefix(Update(u, [codes |-> S]), A)
<1>1. PICK patch : patch = [codes |-> S]
  OBVIOUS
<1>2. PatchOK(patch, Saved) /\ "tg" \notin DOMAIN patch
  BY <1>1 DEF PatchOK, Typed, Saved, Columns, ColumnType
<1>3. QED
  BY <1>1, <1>2, UpdatePrefix

\* The programs of BeginTwoFactor.
LEMMA TwoFactorPrograms ==
  ASSUME NEW u \in Users, NEW A, u \in A
  PROVE  /\ Opening(GenerateSecret(u), A) /\ Opening(EnableTwoFactor(u), A)
         /\ Opening(DisableTwoFactor(u), A) /\ Opening(DisableWithTotp(u), A)
         /\ \A c \in Codes : Opening(DisableWithRecovery(u, c), A)
<1>1. Prefix(FindById(u), A) /\ Prefix(ClearTwoFactor(u), A)
  BY FindByIdPrefix, ClearPrefix
<1>2. PICK n, y, p, k, v, m, d :
        /\ n = <<"twoFaIs", u, FALSE>> /\ y = <<"twoFaIs", u, TRUE>>
        /\ p = <<"put", TempKey(u), TRUE>> /\ k = <<"peek", TempKey(u)>> /\ v = <<"verifyTemp">>
        /\ m = <<"makeCodes", u>> /\ d = <<"delete", TempKey(u)>>
  OBVIOUS
<1>3. /\ p[1] = "put" /\ p[2] = TempKey(u) /\ k[1] = "peek" /\ k[2] = TempKey(u) /\ v[1] = "verifyTemp"
      /\ m[1] = "makeCodes" /\ m[2] = u /\ d[1] = "delete" /\ d[2] = TempKey(u)
      /\ TempKey(u)[1] = "2fa:temp" /\ TempKey(u)[2] = u
  BY <1>2 DEF TempKey
<1>4. Prefix(<<n>>, A) /\ Prefix(<<y>>, A) /\ Prefix(FindById(u) \o <<y>>, A)
  BY <1>2, TwoFaPrefix
<1>5. Prefix(<<p>>, A)
  <2>1. StepOK(p) /\ Minds(p, A)
    BY <1>3 DEF StepOK, Minds, OfUser, Reads
  <2>2. QED
    BY <1>3, <2>1, PrefixOne DEF Final
<1>6. Prefix(<<k>>, A)
  <2>1. StepOK(k) /\ Minds(k, A)
    BY <1>3 DEF StepOK, Minds, OfUser, Reads
  <2>2. QED
    BY <1>3, <2>1, PrefixOne DEF Final
<1>7. Prefix(<<v>>, A)
  <2>1. StepOK(v) /\ Minds(v, A)
    BY <1>3 DEF StepOK, Minds, OfUser, Reads
  <2>2. QED
    BY <1>3, <2>1, PrefixOne DEF Final
<1>8. Prefix(<<m>>, A)
  <2>1. StepOK(m) /\ Minds(m, A)
    BY <1>3 DEF StepOK, Minds, OfUser, Reads
  <2>2. QED
    BY <1>3, <2>1, PrefixOne DEF Final
<1>9. Prefix(<<d>>, A)
  <2>1. StepOK(d) /\ Minds(d, A)
    BY <1>3 DEF StepOK, Minds, OfUser, Reads
  <2>2. QED
    BY <1>3, <2>1, PrefixOne DEF Final
<1>10. Prefix(GenerateSecret(u), A)
  <2>1. Prefix(<<n, p>>, A)
    BY <1>4, <1>5, PrefixMore
  <2>2. Prefix(FindById(u) \o <<n, p>>, A)
    BY <1>1, <2>1, PrefixJoin
  <2>3. QED
    BY <1>2, <2>2 DEF GenerateSecret
<1>11. Prefix(EnableTwoFactor(u), A)
  <2>1. Prefix(<<n, k, v>>, A)
    BY <1>4, <1>6, <1>7, PrefixMore
  <2>2. PICK on : on = [twoFa |-> TRUE]
    OBVIOUS
  <2>3. Prefix(Update(u, on), A)
    <3>1. PatchOK([twoFa |-> TRUE], Saved) /\ "tg" \notin DOMAIN [twoFa |-> TRUE]
      <4>1. \A c \in DOMAIN [twoFa |-> TRUE] : [twoFa |-> TRUE][c] \in ColumnType[c]
        <5>1. DOMAIN [twoFa |-> TRUE] = {"twoFa"}
          OBVIOUS
        <5>2. ColumnType["twoFa"] = BOOLEAN
          BY DEF ColumnType
        <5>3. [twoFa |-> TRUE].twoFa \in BOOLEAN
          OBVIOUS
        <5>4. QED
          BY <5>1, <5>2, <5>3, Zenon
      <4>2. DOMAIN [twoFa |-> TRUE] \subseteq Saved /\ "tg" \notin DOMAIN [twoFa |-> TRUE]
        BY DEF Saved, Columns
      <4>3. QED
        BY <4>1, <4>2, Zenon DEF PatchOK, Typed
    <3>2. PatchOK(on, Saved) /\ "tg" \notin DOMAIN on
      BY <2>2, <3>1, Zenon
    <3>3. QED
      BY <3>2, UpdatePrefix
  <2>4. PICK W, C : W = Update(u, on) /\ C = Update(u, [codes |-> Codes])
    OBVIOUS
  <2>5. Prefix(W, A) /\ Prefix(C, A)
    BY <2>3, <2>4, CodesPrefix
  <2>6. Prefix((FindById(u) \o <<n, k, v>>) \o W, A)
    BY <1>1, <2>1, <2>5, PrefixJoin
  <2>7. Prefix((((FindById(u) \o <<n, k, v>>) \o W) \o <<m>>) \o C, A)
    BY <1>8, <2>5, <2>6, PrefixJoin
  <2>8. Prefix(((((FindById(u) \o <<n, k, v>>) \o W) \o <<m>>) \o C) \o <<d>>, A)
    BY <1>9, <2>7, PrefixJoin
  <2>9. EnableTwoFactor(u) = ((((FindById(u) \o <<n, k, v>>) \o W) \o <<m>>) \o C) \o <<d>>
    BY <1>2, <2>2, <2>4 DEF EnableTwoFactor
  <2>10. QED
    BY <2>8, <2>9
<1>12. Prefix(DisableTwoFactor(u), A)
  <2>1. Prefix((FindById(u) \o <<y>>) \o ClearTwoFactor(u), A)
    BY <1>1, <1>4, PrefixJoin
  <2>2. QED
    BY <1>2, <2>1 DEF DisableTwoFactor
<1>13. Prefix(DisableWithTotp(u), A)
  <2>1. Prefix(ValidateTwoFactorCode(u), A)
    BY <1>2, <1>4 DEF ValidateTwoFactorCode
  <2>2. Prefix(((FindById(u) \o <<y>>) \o ValidateTwoFactorCode(u)) \o ClearTwoFactor(u), A)
    BY <1>1, <1>4, <2>1, PrefixJoin
  <2>3. QED
    BY <1>2, <2>2 DEF DisableWithTotp
<1>14. ASSUME NEW c \in Codes PROVE Prefix(DisableWithRecovery(u, c), A)
  <2>1. Prefix(ValidateRecoveryCode(u, c), A)
    BY CodePrefix
  <2>2. Prefix((FindById(u) \o <<y>>) \o FindById(u), A)
    BY <1>1, <1>4, PrefixJoin
  <2>3. Prefix((((FindById(u) \o <<y>>) \o FindById(u)) \o ValidateRecoveryCode(u, c))
                 \o ClearTwoFactor(u), A)
    BY <1>1, <2>1, <2>2, PrefixJoin
  <2>4. QED
    BY <1>2, <2>3 DEF DisableWithRecovery
<1>15. QED
  BY <1>10, <1>11, <1>12, <1>13, <1>14, OpeningJoin

\* The programs of BeginSessions.
LEMMA SessionsPrograms ==
  ASSUME NEW A
  PROVE  /\ \A p \in A \cap Phones :
              /\ Opening(RequestFlashCall(p), A) /\ Opening(LoginByPassword(p), A)
              /\ \A digits : Opening(VerifyFlashCall(p, digits), A)
         /\ \A i \in DOMAIN tokens : Login(tokens[i].login) \in A /\ tokens[i].user \in A =>
              Opening(Refresh(i), A) /\ Opening(Logout(i), A)
         /\ \A u \in A \cap Users : 0 \in 0..Len(tokens) =>
              Opening(VerifyTotp(u), A) /\ \A c \in Codes : Opening(VerifyRecovery(u, c), A)
<1>1. ASSUME NEW p \in A \cap Phones
      PROVE  /\ Opening(RequestFlashCall(p), A) /\ Opening(LoginByPassword(p), A)
             /\ \A digits : Opening(VerifyFlashCall(p, digits), A)
  <2>1. PICK x, k, d, f : /\ x = <<"put", FlashKey(p), "digits">> /\ k = <<"peek", FlashKey(p)>>
                          /\ d = <<"delete", FlashKey(p)>> /\ f = <<"findByPhone", p>>
    OBVIOUS
  <2>2. /\ x[1] = "put" /\ x[2] = FlashKey(p) /\ k[1] = "peek" /\ k[2] = FlashKey(p)
        /\ d[1] = "delete" /\ d[2] = FlashKey(p) /\ f[1] = "findByPhone" /\ f[2] = p
        /\ FlashKey(p)[1] = "flash-call" /\ FlashKey(p)[2] = p
    BY <2>1 DEF FlashKey
  <2>3. Opening(<<x>>, A)
    <3>1. StepOK(x) /\ Minds(x, A)
      BY <2>2 DEF StepOK, Minds, OfUser, Reads
    <3>2. QED
      BY <2>2, <3>1, WholeOne
  <2>4. Prefix(<<k>>, A)
    <3>1. StepOK(k) /\ Minds(k, A)
      BY <2>2 DEF StepOK, Minds, OfUser, Reads
    <3>2. QED
      BY <2>2, <3>1, PrefixOne DEF Final
  <2>5. Prefix(<<d>>, A)
    <3>1. StepOK(d) /\ Minds(d, A)
      BY <2>2 DEF StepOK, Minds, OfUser, Reads
    <3>2. QED
      BY <2>2, <3>1, PrefixOne DEF Final
  <2>6. Opening(<<f>>, A)
    <3>1. StepOK(f) /\ Minds(f, A)
      BY <2>2 DEF StepOK, Minds, OfUser, Reads
    <3>2. QED
      BY <2>2, <3>1, WholeOne
  <2>7. ASSUME NEW digits PROVE Opening(VerifyFlashCall(p, digits), A)
    <3>1. PICK m : m = <<"matchDigits", digits>>
      OBVIOUS
    <3>2. m[1] = "matchDigits"
      BY <3>1
    <3>3. Prefix(<<m>>, A)
      <4>1. StepOK(m) /\ Minds(m, A)
        BY <3>2 DEF StepOK, Minds, OfUser, Reads
      <4>2. QED
        BY <3>2, <4>1, PrefixOne DEF Final
    <3>4. Prefix(<<k, m>>, A)
      BY <2>4, <3>3, PrefixMore
    <3>5. Opening(<<d>> \o <<f>>, A)
      BY <2>5, <2>6, OpeningJoin
    <3>6. Opening(<<k, m>> \o <<d, f>>, A)
      BY <3>4, <3>5, JoinOf1, OpeningJoin
    <3>7. VerifyFlashCall(p, digits) = <<k, m, d, f>>
      BY <2>1, <3>1 DEF VerifyFlashCall
    <3>8. QED
      BY <3>6, <3>7, JoinOf2
  <2>8. RequestFlashCall(p) = <<x>> /\ LoginByPassword(p) = <<f>>
    BY <2>1 DEF RequestFlashCall, LoginByPassword
  <2>9. QED
    BY <2>3, <2>6, <2>7, <2>8
<1>2. ASSUME NEW i \in DOMAIN tokens, Login(tokens[i].login) \in A, tokens[i].user \in A
      PROVE  Opening(Refresh(i), A) /\ Opening(Logout(i), A)
  <2>1. ASSUME NEW op PROVE Opening(<<<<"findRefresh", i, op>>>>, A)
    <3>1. PICK x : x = <<"findRefresh", i, op>>
      OBVIOUS
    <3>2. x[1] = "findRefresh" /\ x[2] = i
      BY <3>1
    <3>3. StepOK(x) /\ Minds(x, A)
      BY <1>2, <3>2 DEF StepOK, Minds, OfUser, Reads
    <3>4. QED
      BY <3>1, <3>2, <3>3, WholeOne
  <2>2. QED
    BY <2>1 DEF Refresh, Logout
<1>3. ASSUME NEW u \in A \cap Users, 0 \in 0..Len(tokens)
      PROVE  Opening(VerifyTotp(u), A) /\ \A c \in Codes : Opening(VerifyRecovery(u, c), A)
  <2>1. Opening(IssueTokens(u, 0), A)
    BY <1>3, IssueTokensWhole
  <2>2. Prefix(ValidateTwoFactorCode(u), A)
    BY TwoFaPrefix DEF ValidateTwoFactorCode
  <2>3. \A c \in Codes : Prefix(ValidateRecoveryCode(u, c), A)
    BY CodePrefix
  <2>4. QED
    BY <2>1, <2>2, <2>3, OpeningJoin DEF VerifyTotp, VerifyRecovery
<1>4. QED
  BY <1>1, <1>2, <1>3

\* A registration relies on the user not being there.
LEMMA RegistrationFit ==
  ASSUME NEW u \in Users, NEW p \in Phones, NEW A, u \in A, 0 \in 0..Len(tokens)
  PROVE  /\ Fit(CompleteRegistration(u, p), A)
         /\ \A k \in Facts : Needs(CompleteRegistration(u, p), k) => k = <<"absent", u>>
         /\ \A x \in Steps(CompleteRegistration(u, p)) : x[1] = "saveToken" => x[3] = 0
<1>1. PICK c : c = <<"createUser", u, p>>
  OBVIOUS
<1>2. c[1] = "createUser" /\ c[2] = u /\ c[3] = p
  BY <1>1
<1>3. Fit(<<c>>, A) /\ Program(<<c>>) /\ Steps(<<c>>) = {c} /\ \A k : Needs(<<c>>, k) => Uses(c, k)
  <2>1. StepOK(c)
    BY <1>2 DEF StepOK, OfUser, Reads
  <2>2. Minds(c, A)
    BY <1>2 DEF Minds, Reads
  <2>3. QED
    BY <1>2, <2>1, <2>2, FitOne
<1> DEFINE First(s) == /\ Fit(s, A) /\ \A x \in Steps(s) : x[1] \notin Final
                       /\ \A k \in Facts : Needs(s, k) => k = <<"absent", u>>
<1>4. First(<<c>>)
  <2>1. \A k : Uses(c, k) => k = <<"absent", u>>
    BY <1>2 DEF Uses
  <2>2. QED
    BY <1>2, <1>3, <2>1 DEF Final
<1>5. ASSUME NEW s, NEW q, First(s), Whole(q, A)
      PROVE  /\ Fit(s \o q, A) /\ \A k \in Facts : Needs(s \o q, k) => k = <<"absent", u>>
             /\ Prefix(q, A) => First(s \o q)
             /\ Opening(q, A) => \A x \in Steps(s \o q) : x[1] = "saveToken" => x[3] = 0
  <2>1. Program(s) /\ Program(q) /\ Fit(q, A)
    BY <1>5 DEF Fit, Whole
  <2>2. Fit(s \o q, A)
    BY <1>5, <2>1, FitJoin DEF Whole, Closed
  <2>3. \A k \in Facts : Needs(s \o q, k) => k = <<"absent", u>>
    BY <1>5, <2>1, NeedsJoin DEF Whole, Closed
  <2>4. Steps(s \o q) = Steps(s) \cup Steps(q)
    BY <2>1, ProgramJoin
  <2>5. QED
    BY <1>5, <2>2, <2>3, <2>4 DEF Prefix, Opening, Final
<1> HIDE DEF First
<1>6. PICK R, L : R = AddRole(u, "RENTER") /\ L = AddRole(u, "LANDLORD")
  OBVIOUS
<1>7. Prefix(R, A) /\ Prefix(L, A) /\ Whole(R, A) /\ Whole(L, A)
  BY <1>6, AddRolePrefix DEF BothRoles, Prefix
<1>8. First(<<c>> \o R)
  BY <1>4, <1>5, <1>7
<1>9. First((<<c>> \o R) \o L)
  BY <1>5, <1>7, <1>8
<1>10. Whole(IssueTokens(u, 0), A) /\ Opening(IssueTokens(u, 0), A)
  BY IssueTokensWhole
<1>11. CompleteRegistration(u, p) = ((<<c>> \o R) \o L) \o IssueTokens(u, 0)
  BY <1>1, <1>6 DEF CompleteRegistration
<1>12. QED
  BY <1>5, <1>9, <1>10, <1>11

LEMMA RelinkPrefix ==
  ASSUME NEW u \in Users, NEW t \in Telegrams, NEW old \in Users \cup {NoRow}, NEW A, u \in A, t \in A,
         old # NoRow => old \in A
  PROVE  Prefix(Relink(u, t, old), A)
<1>1. ASSUME NEW v \in Users, v \in A, NEW s \in Telegrams \cup {NoTg}, s \in A \cup {NoTg}
      PROVE  Prefix(Update(v, [tg |-> s]), A)
  <2>1. PICK patch : patch = [tg |-> s]
    OBVIOUS
  <2>2. PatchOK(patch, Saved) /\ patch.tg = s
    BY <2>1 DEF PatchOK, Typed, Saved, Columns, ColumnType
  <2>3. QED
    BY <1>1, <2>1, <2>2, UpdatePrefix
<1>2. Prefix(Link(u, t), A)
  BY <1>1 DEF Link
<1>3. PICK p : p = (IF old = NoRow THEN <<>> ELSE Unlink(old))
  OBVIOUS
<1>4. Prefix(p, A)
  <2>1. CASE old = NoRow
    BY <1>3, <2>1, WholeNone, NoProgram DEF Prefix
  <2>2. CASE old # NoRow
    BY <1>1, <1>3, <2>2 DEF Unlink
  <2>3. QED
    BY <2>1, <2>2
<1>5. Prefix(p \o Link(u, t), A)
  BY <1>2, <1>4, PrefixJoin
<1>6. Prefix(<<>>, A)
  BY WholeNone, NoProgram DEF Prefix
<1>7. QED
  BY <1>3, <1>5, <1>6 DEF Relink

\* The programs of BeginTelegram.
LEMMA TelegramPrograms ==
  ASSUME NEW A
  PROVE  /\ \A u \in A \cap Users : Opening(GenerateTelegramLink(u), A) /\ Opening(Unlink(u), A)
         /\ \A t \in A \cap Telegrams, k \in 0..Len(linkTokens) : Opening(HandleStart(t, k), A)
<1>1. ASSUME NEW u \in A \cap Users PROVE Opening(GenerateTelegramLink(u), A)
  <2>1. PICK e, x : e = <<"exists", u>> /\ x = <<"insertToken", u>>
    OBVIOUS
  <2>2. e[1] = "exists" /\ e[2] = u /\ x[1] = "insertToken" /\ x[2] = u
    BY <2>1
  <2>3. StepOK(e) /\ Minds(e, A) /\ StepOK(x) /\ Minds(x, A)
    BY <2>2 DEF StepOK, Minds, OfUser, Reads
  <2>4. Prefix(<<e>>, A)
    BY <2>2, <2>3, PrefixOne DEF Final
  <2>5. Opening(<<e>> \o <<x>>, A)
    BY <2>2, <2>3, <2>4, WholeLast
  <2>6. QED
    BY <2>1, <2>5, JoinOf1 DEF GenerateTelegramLink
<1>2. ASSUME NEW u \in A \cap Users PROVE Opening(Unlink(u), A)
  <2>1. PICK patch : patch = [tg |-> NoTg]
    OBVIOUS
  <2>2. PatchOK(patch, Saved) /\ patch.tg = NoTg
    BY <2>1 DEF PatchOK, Typed, Saved, Columns, ColumnType
  <2>3. QED
    BY <2>1, <2>2, UpdatePrefix, OpeningJoin DEF Unlink
<1>3. ASSUME NEW t \in A \cap Telegrams, NEW k \in 0..Len(linkTokens) PROVE Opening(HandleStart(t, k), A)
  <2>1. PICK x : x = <<"findByTelegramId", t, k>>
    OBVIOUS
  <2>2. x[1] = "findByTelegramId" /\ x[2] = t /\ x[3] = k
    BY <2>1
  <2>3. StepOK(x) /\ Minds(x, A)
    BY <2>2 DEF StepOK, Minds, OfUser, Reads
  <2>4. QED
    BY <2>1, <2>2, <2>3, WholeOne DEF HandleStart
<1>4. QED
  BY <1>1, <1>2, <1>3

\* The pages of reviews.
LEMMA PageKeys ==
  ASSUME NEW u \in Users
  PROVE  /\ UserPages(u) \cup {ListingPage(u)} \subseteq Copies \ UsersKeys
         /\ \A k \in UserPages(u) \cup {ListingPage(u)} :
              k[1] \in {"reviews:user", "reviews:listing"} /\ k[2] = u
<1>1. \A k \in UserPages(u) \cup {ListingPage(u)} :
        k[1] \in {"reviews:user", "reviews:listing"} /\ k[2] = u
  BY DEF UserPages, UserPage, ListingPage
<1>2. \A k \in UsersKeys : k[1] \in {"profile", "status", "roles"}
  BY DEF UsersKeys
<1>3. UserPages(u) \cup {ListingPage(u)} \subseteq Copies
  BY DEF Copies
<1>4. QED
  BY <1>1, <1>2, <1>3

LEMMA PublishPrefix ==
  ASSUME NEW b \in Bookings, NEW by, NEW A
  PROVE  Prefix(Publish(b, by), A)
<1>1. Target(b, by) \in Users /\ b.landlord \in Users
  BY ReviewsAssumption DEF Target
<1>2. PICK x, y : x = <<"scan", UserPages(Target(b, by))>> /\ y = <<"scan", {ListingPage(b.landlord)}>>
  OBVIOUS
<1>3. /\ x[1] = "scan" /\ x[2] = UserPages(Target(b, by))
      /\ y[1] = "scan" /\ y[2] = {ListingPage(b.landlord)}
  BY <1>2
<1>4. x[2] \subseteq Copies \ UsersKeys /\ y[2] \subseteq Copies \ UsersKeys
  BY <1>1, <1>3, PageKeys
<1>5. StepOK(x) /\ Minds(x, A) /\ StepOK(y) /\ Minds(y, A)
  BY <1>3, <1>4 DEF StepOK, Minds, OfUser, Reads
<1>6. Prefix(<<x>>, A) /\ Prefix(<<y>>, A)
  BY <1>3, <1>5, PrefixOne DEF Final
<1>7. Prefix(<<>>, A)
  BY WholeNone, NoProgram DEF Prefix
<1>8. Prefix(<<x>> \o (IF by = b.renter THEN <<y>> ELSE <<>>), A)
  BY <1>6, <1>7, PrefixJoin
<1>9. QED
  BY <1>2, <1>8 DEF Publish

\* The programs of BeginReviews.
LEMMA ReviewsPrograms ==
  ASSUME NEW A
  PROVE  /\ \A b \in Bookings, by \in Users, rating \in Ratings :
              Target(b, by) \in A => Opening(CreateReview(b, by, rating), A)
         /\ \A u \in A \cap Users : /\ \A role \in PageRoles : Opening(GetOrSet(UserPage(u, role)), A)
                                    /\ Opening(GetOrSet(ListingPage(u)), A)
<1>1. ASSUME NEW b \in Bookings, NEW by \in Users, NEW rating \in Ratings, Target(b, by) \in A
      PROVE  Opening(CreateReview(b, by, rating), A)
  <2>1. PICK x, y : x = <<"mayReview", b, by>> /\ y = <<"insertReview", b, by, rating>>
    OBVIOUS
  <2>2. /\ x[1] = "mayReview" /\ x[2] = b /\ x[3] = by
        /\ y[1] = "insertReview" /\ y[2] = b /\ y[3] = by /\ y[4] = rating
    BY <2>1
  <2>3. StepOK(x) /\ StepOK(y)
    BY <2>2 DEF StepOK, OfUser, Reads
  <2>4. Minds(x, A) /\ Minds(y, A)
    BY <1>1, <2>2 DEF Minds, Reads
  <2>5. Prefix(<<x>>, A)
    BY <2>2, <2>3, <2>4, PrefixOne DEF Final
  <2>6. Opening(<<x>> \o <<y>>, A)
    BY <2>2, <2>3, <2>4, <2>5, WholeLast
  <2>7. QED
    BY <2>1, <2>6, JoinOf1 DEF CreateReview
<1>2. ASSUME NEW u \in A \cap Users, NEW role \in PageRoles PROVE Opening(GetOrSet(UserPage(u, role)), A)
  <2>1. UserPage(u, role) \in UserPages(u)
    BY DEF UserPages
  <2>2. UserPage(u, role) \in Copies /\ UserPage(u, role)[2] = u
    BY <2>1, PageKeys
  <2>3. QED
    BY <2>2, GetOrSetWhole DEF Opening
<1>3. ASSUME NEW u \in A \cap Users PROVE Opening(GetOrSet(ListingPage(u)), A)
  <2>1. ListingPage(u) \in Copies /\ ListingPage(u)[2] = u
    BY PageKeys
  <2>2. QED
    BY <2>1, GetOrSetWhole DEF Opening
<1>4. QED
  BY <1>1, <1>2, <1>3

-----------------------------------------------------------------------------
(* Requests go on *)

\* Rows are added to the tables, and keep what they are about.
Growth ==
  /\ Len(tokens) \in Nat /\ Len(tokens') \in Nat /\ Len(tokens) <= Len(tokens')
  /\ DOMAIN tokens \subseteq DOMAIN tokens'
  /\ \A i \in DOMAIN tokens : tokens'[i].login = tokens[i].login /\ tokens'[i].user = tokens[i].user
  /\ Len(linkTokens) \in Nat /\ Len(linkTokens') \in Nat /\ Len(linkTokens) <= Len(linkTokens')
  /\ DOMAIN linkTokens \subseteq DOMAIN linkTokens'
  /\ \A i \in DOMAIN linkTokens : linkTokens'[i].user = linkTokens[i].user

LEMMA NoGrowth == ASSUME Tables, UNCHANGED <<tokens, linkTokens>> PROVE Growth
BY DEF Tables, Growth

\* A step stays what its action expects.
LEMMA StepStays ==
  ASSUME Growth, NEW x, NEW A, StepOK(x), Minds(x, A)
  PROVE  StepOK(x)' /\ Minds(x, A)'
<1>1. StepOK(x)'
  <2>1. \A n : (n \in 0..Len(tokens) => n \in 0..Len(tokens')) /\ (n \in 0..Len(linkTokens) => n \in 0..Len(linkTokens'))
    BY DEF Growth
  <2>2. \A n : (n \in DOMAIN tokens => n \in DOMAIN tokens') /\ (n \in DOMAIN linkTokens => n \in DOMAIN linkTokens')
    BY DEF Growth
  <2>3. QED
    BY <2>1, <2>2 DEF StepOK
<1>2. Minds(x, A)'
  <2>1. x[1] \in {"findRefresh", "revoke"} =>
          /\ x[2] \in DOMAIN tokens /\ tokens'[x[2]].login = tokens[x[2]].login
          /\ tokens'[x[2]].user = tokens[x[2]].user
    BY DEF StepOK, Growth
  <2>2. x[1] = "useToken" => x[3] \in DOMAIN linkTokens /\ linkTokens'[x[3]].user = linkTokens[x[3]].user
    BY DEF StepOK, Growth
  <2>3. \A l : Login(l)' = Login(l)
    BY DEF Login
  <2>4. QED
    BY <2>1, <2>2, <2>3 DEF Minds, Reads, Login
<1>3. QED
  BY <1>1, <1>2

LEMMA FitStays ==
  ASSUME Growth, NEW q, NEW A, Fit(q, A)
  PROVE  Fit(q, A)'
<1>1. \A x \in Steps(q) : StepOK(x)' /\ Minds(x, A)'
  <2>1. ASSUME NEW x \in Steps(q) PROVE StepOK(x)' /\ Minds(x, A)'
    BY StepStays DEF Fit
  <2>2. QED
    BY <2>1
<1>2. Sound(q)' <=> Sound(q)
  BY DEF Sound, Facts, UsersKeys, Uses, Breaks, Gives, ProfileKey, StatusKey
<1>3. QED
  BY <1>1, <1>2 DEF Fit

\* The other requests, and one that is free, keep their shape.
LEMMA OthersShaped ==
  ASSUME Shaped, Growth, NEW r \in Requests, Elsewhere(r), NEW q \in Requests \ {r}
  PROVE  Fit(req[q].todo, req[q].about)' /\ HasRead(q)'
<1>1. PICK todo, about : todo = req[q].todo /\ about = req[q].about
  OBVIOUS
<1>2. Fit(todo, about)'
  <2>1. Fit(todo, about)
    BY <1>1 DEF Shaped
  <2>2. QED
    BY <2>1, FitStays
<1>3. req'[q] = req[q]
  BY DEF Elsewhere
<1>4. Fit(req[q].todo, req[q].about)'
  BY <1>1, <1>2, <1>3
<1>5. HasRead(q)'
  <2>1. HasRead(q)
    BY DEF Shaped
  <2>2. QED
    BY <1>3, <2>1 DEF HasRead
<1>6. QED
  BY <1>4, <1>5

LEMMA IdleShaped ==
  ASSUME NEW r \in Requests, req'[r] = Idle
  PROVE  Fit(req[r].todo, req[r].about)' /\ HasRead(r)' /\ req'[r].about = {} /\ req'[r].op = "none"
<1>1. req'[r].todo = <<>> /\ req'[r].about = {} /\ req'[r].got = <<>> /\ req'[r].op = "none"
  BY DEF Idle
<1>2. Fit(<<>>, {})'
  <2>1. Program(<<>>) /\ Steps(<<>>) = {} /\ DOMAIN <<>> = {}
    BY NoProgram
  <2>2. (Sound(<<>>) /\ Adjacent(<<>>) /\ Ends(<<>>, Final))'
    BY <2>1 DEF Sound, Adjacent, Ends
  <2>3. QED
    BY <2>1, <2>2 DEF Fit
<1>3. Fit(req[r].todo, req[r].about)'
  BY <1>1, <1>2
<1>4. HasRead(r)'
  BY <1>1, NeedsNothing DEF HasRead
<1>5. QED
  BY <1>1, <1>3, <1>4

\* The request r goes on with a program that it may have left.
LEMMA GoesShaped ==
  ASSUME Shaped, Growth, NEW r \in Requests, NEW todo, NEW got, Goes(r, todo, got),
         Fit(todo, req[r].about), \A k \in UsersKeys : Needs(todo, k) => k[1] \in DOMAIN got,
         \A kind \in DOMAIN got : ValueOK(kind, got[kind])
  PROVE  Shaped' /\ Elsewhere(r) /\ req'[r].todo = todo /\ UNCHANGED <<mix, calls, faults, contended>>
<1>1. /\ Proper' /\ Elsewhere(r) /\ req'[r].todo = todo
      /\ req'[r] = IF todo = <<>> THEN Idle
                   ELSE [op |-> req[r].op, about |-> req[r].about, todo |-> todo, got |-> got]
      /\ UNCHANGED <<mix, calls, faults, contended>>
  <2>1. Program(todo) /\ Proper
    BY DEF Fit, Shaped
  <2>2. QED
    BY <2>1, GoesOn
<1>2. /\ Fit(req[r].todo, req[r].about)' /\ HasRead(r)' /\ req'[r].about \subseteq req[r].about
      /\ req'[r].op \in {req[r].op, "none"}
  <2>1. CASE todo = <<>>
    BY <1>1, <2>1, IdleShaped
  <2>2. CASE todo # <<>>
    <3>1. PICK about : about = req[r].about
      OBVIOUS
    <3>2. Fit(todo, about)'
      BY <3>1, FitStays
    <3>3. /\ req'[r].todo = todo /\ req'[r].about = about /\ req'[r].got = got
          /\ req'[r].op = req[r].op
      BY <1>1, <2>2, <3>1
    <3>4. Fit(req[r].todo, req[r].about)'
      BY <3>2, <3>3
    <3>5. HasRead(r)'
      BY <3>3 DEF HasRead
    <3>6. QED
      BY <3>1, <3>3, <3>4, <3>5
  <2>3. QED
    BY <2>1, <2>2
<1>3. Apart'
  BY <1>1, <1>2, ApartWhenDone DEF Shaped
<1>4. Counted'
  BY <1>1, <1>2 DEF Counted, Shaped, Elsewhere
<1>5. ASSUME NEW q \in Requests PROVE Fit(req[q].todo, req[q].about)' /\ HasRead(q)'
  <2>1. CASE q = r
    BY <1>2, <2>1
  <2>2. CASE q # r
    BY <1>1, <2>2, OthersShaped
  <2>3. QED
    BY <2>1, <2>2
<1>6. QED
  BY <1>1, <1>3, <1>4, <1>5 DEF Shaped

\* What is known of the request whose turn it is.
LEMMA AtHand ==
  ASSUME Shaped, NEW r \in Requests, req[r].todo # <<>>, NEW h, h = req[r].todo[1]
  PROVE  /\ Fit(Tail(req[r].todo), req[r].about) /\ StepOK(h) /\ Minds(h, req[r].about)
         /\ h[1] \in Final => Tail(req[r].todo) = <<>>
         /\ h[1] \in Writes \cup Calls => Whole(Tail(req[r].todo), req[r].about)
         /\ \A k \in UsersKeys : Uses(h, k) => k[1] \in DOMAIN req[r].got
         /\ \A kind \in DOMAIN req[r].got : ValueOK(kind, req[r].got[kind])
         /\ \A k \in UsersKeys : Needs(Tail(req[r].todo), k) => Gives(h, k) \/ k[1] \in DOMAIN req[r].got
<1>1. Fit(req[r].todo, req[r].about) /\ HasRead(r)
  BY DEF Shaped
<1>2. /\ Fit(Tail(req[r].todo), req[r].about) /\ StepOK(h) /\ Minds(h, req[r].about)
      /\ h[1] \in Final => Tail(req[r].todo) = <<>>
  BY <1>1, FitTail
<1>3. h[1] \in Writes \cup Calls => Whole(Tail(req[r].todo), req[r].about)
  BY <1>1, ClosedTail
<1>4. ASSUME NEW k \in UsersKeys, Uses(h, k) PROVE k[1] \in DOMAIN req[r].got
  <2>1. Needs(req[r].todo, k)
    BY <1>1, <1>4, NeedsHead DEF Fit
  <2>2. QED
    BY <1>1, <2>1 DEF HasRead
<1>5. ASSUME NEW k \in UsersKeys, Needs(Tail(req[r].todo), k)
      PROVE  Gives(h, k) \/ k[1] \in DOMAIN req[r].got
  <2>1. k \in Facts
    BY DEF Facts
  <2>2. Gives(h, k) \/ Needs(req[r].todo, k)
    BY <1>1, <1>5, <2>1, NeedsTail DEF Fit
  <2>3. QED
    BY <1>1, <2>2 DEF HasRead
<1>6. QED
  BY <1>1, <1>2, <1>3, <1>4, <1>5 DEF HasRead

\* The step is done, and nothing is read that is needed later, or it throws.
LEMMA ContinuesShaped ==
  ASSUME Shaped, Growth, NEW r \in Requests, req[r].todo # <<>>, req[r].todo[1][1] # "select",
         Continue(r) \/ Throw(r)
  PROVE  /\ Shaped' /\ Elsewhere(r) /\ UNCHANGED <<mix, calls, faults, contended>>
         /\ req'[r].todo \in {Tail(req[r].todo), <<>>}
<1>1. PICK h : h = req[r].todo[1]
  OBVIOUS
<1>2. CASE Continue(r)
  <2>1. PICK todo, got : todo = Tail(req[r].todo) /\ got = req[r].got
    OBVIOUS
  <2>2. Goes(r, todo, got)
    BY <1>2, <2>1 DEF Continue
  <2>3. \A k \in UsersKeys : ~Gives(h, k)
    BY <1>1 DEF Gives, UsersKeys
  <2>4. /\ Fit(todo, req[r].about)
        /\ \A k \in UsersKeys : Needs(todo, k) => k[1] \in DOMAIN got
        /\ \A kind \in DOMAIN got : ValueOK(kind, got[kind])
    BY <1>1, <2>1, <2>3, AtHand
  <2>5. QED
    BY <2>1, <2>2, <2>4, GoesShaped
<1>3. CASE Throw(r)
  <2>1. Fit(<<>>, req[r].about)
    BY WholeNone DEF Whole
  <2>2. Goes(r, <<>>, <<>>) /\ DOMAIN <<>> = {}
    BY <1>3 DEF Throw
  <2>3. QED
    BY <2>1, <2>2, NeedsNothing, GoesShaped
<1>4. QED
  BY <1>2, <1>3

\* A value is read.
LEMMA ReadsShaped ==
  ASSUME Shaped, Growth, NEW r \in Requests, req[r].todo # <<>>,
         NEW kind, NEW v, Read(r, kind, v), ValueOK(kind, v),
         req[r].todo[1][1] = "select" => req[r].todo[1][2][1] = kind
  PROVE  /\ Shaped' /\ Elsewhere(r) /\ UNCHANGED <<mix, calls, faults, contended>>
         /\ req'[r].todo = Tail(req[r].todo)
<1>1. PICK h : h = req[r].todo[1]
  OBVIOUS
<1>2. PICK todo, got : todo = Tail(req[r].todo) /\ got = With(req[r].got, kind, v)
  OBVIOUS
<1>3. Goes(r, todo, got)
  BY <1>2 DEF Read
<1>4. /\ Fit(todo, req[r].about)
      /\ \A s \in DOMAIN req[r].got : ValueOK(s, req[r].got[s])
      /\ \A k \in UsersKeys : Needs(todo, k) => Gives(h, k) \/ k[1] \in DOMAIN req[r].got
  BY <1>1, <1>2, AtHand
<1>5. DOMAIN got = DOMAIN req[r].got \cup {kind} /\ \A s \in DOMAIN got : ValueOK(s, got[s])
  BY <1>2, <1>4 DEF With
<1>6. \A k \in UsersKeys : Gives(h, k) => k[1] = kind
  BY <1>1 DEF Gives, UsersKeys
<1>7. \A k \in UsersKeys : Needs(todo, k) => k[1] \in DOMAIN got
  BY <1>4, <1>5, <1>6
<1>8. QED
  BY <1>2, <1>3, <1>4, <1>5, <1>7, GoesShaped

\* Other steps come first, after one that may end everything.
LEMMA CallsShaped ==
  ASSUME Shaped, Growth, NEW r \in Requests, req[r].todo # <<>>, req[r].todo[1][1] \in Calls,
         NEW more, Whole(more, req[r].about), req[r].todo[1][1] \in Final \/ Prefix(more, req[r].about),
         Do(r, more)
  PROVE  /\ Shaped' /\ Elsewhere(r) /\ UNCHANGED <<mix, calls, faults, contended>>
         /\ req'[r].todo = more \o Tail(req[r].todo)
<1>1. PICK h : h = req[r].todo[1]
  OBVIOUS
<1>2. PICK todo, got : todo = more \o Tail(req[r].todo) /\ got = req[r].got
  OBVIOUS
<1>3. Goes(r, todo, got)
  BY <1>2 DEF Do
<1>4. /\ Whole(Tail(req[r].todo), req[r].about) /\ (h[1] \in Final => Tail(req[r].todo) = <<>>)
      /\ \A s \in DOMAIN got : ValueOK(s, got[s])
  BY <1>1, <1>2, AtHand
<1>5. Whole(todo, req[r].about)
  <2>1. CASE Prefix(more, req[r].about)
    BY <1>2, <1>4, <2>1, WholeJoin DEF Prefix
  <2>2. CASE h[1] \in Final
    <3>1. more \o <<>> = more
      BY DEF Whole, Fit, Program
    <3>2. QED
      BY <1>2, <1>4, <2>2, <3>1
  <2>3. QED
    BY <1>1, <2>1, <2>2
<1>6. \A k \in UsersKeys : ~Needs(todo, k)
  BY <1>5 DEF Whole, Closed, Facts
<1>7. QED
  BY <1>2, <1>3, <1>4, <1>5, <1>6, GoesShaped DEF Whole

\* What else the request is about is found, and it goes on with other steps.
LEMMA FindsShaped ==
  ASSUME Shaped, Growth, NEW r \in Requests, req[r].todo # <<>>,
         req[r].todo[1][1] \in Calls \cap Final, NEW subjects, NEW more,
         Whole(more, req[r].about \cup subjects), DoAbout(r, subjects, more)
  PROVE  /\ Shaped' /\ Elsewhere(r) /\ UNCHANGED <<mix, calls, faults>>
         /\ req'[r].todo = more /\ contended' = contended \cup (subjects \cap Others(r))
         /\ more # <<>> => req'[r].about = req[r].about \cup subjects /\ req'[r].got = req[r].got
<1>1. Tail(req[r].todo) = <<>>
  BY AtHand
<1>2. more \o <<>> = more /\ Program(more)
  BY DEF Whole, Fit, Program
<1>3. /\ req' = [req EXCEPT ![r] = IF more = <<>> THEN Idle
                                   ELSE [req[r] EXCEPT !.todo = more, !.about = req[r].about \cup subjects]]
      /\ contended' = contended \cup (subjects \cap Others(r))
      /\ UNCHANGED <<mix, calls, faults>>
  <2>1. PICK todo : todo = more \o Tail(req[r].todo)
    OBVIOUS
  <2>2. /\ req' = [req EXCEPT ![r] = IF todo = <<>> THEN Idle
                                     ELSE [req[r] EXCEPT !.todo = todo, !.about = req[r].about \cup subjects]]
        /\ contended' = contended \cup (subjects \cap Others(r))
        /\ UNCHANGED <<mix, calls, faults>>
    BY <2>1 DEF DoAbout
  <2>3. todo = more
    BY <1>1, <1>2, <2>1
  <2>4. QED
    BY <2>2, <2>3
<1>4. Proper
  BY DEF Shaped
<1>5. Elsewhere(r)
  BY <1>3, <1>4 DEF Proper, Elsewhere
<1>6. req'[r] = IF more = <<>> THEN Idle
                ELSE [req[r] EXCEPT !.todo = more, !.about = req[r].about \cup subjects]
  BY <1>3, <1>4 DEF Proper
<1>7. req[r] = [op |-> req[r].op, about |-> req[r].about, todo |-> req[r].todo, got |-> req[r].got]
  BY <1>4 DEF Proper
<1>8. more # <<>> => req'[r] = [op |-> req[r].op, about |-> req[r].about \cup subjects, todo |-> more,
                                got |-> req[r].got]
  BY <1>6, <1>7
<1>9. req'[r].todo = more
  BY <1>6, <1>8 DEF Idle
<1>10. Proper'
  <2>1. req' = [q \in Requests |-> req'[q]]
    BY <1>3, <1>4 DEF Proper
  <2>2. ASSUME NEW q \in Requests
        PROVE  /\ req'[q] = [op |-> req'[q].op, about |-> req'[q].about, todo |-> req'[q].todo,
                             got |-> req'[q].got]
               /\ Program(req'[q].todo)
    <3>1. CASE q = r
      BY <1>2, <1>6, <1>8, <1>9, <3>1 DEF Idle
    <3>2. CASE q # r
      BY <1>4, <1>5, <3>2 DEF Proper, Elsewhere
    <3>3. QED
      BY <3>1, <3>2
  <2>3. QED
    BY <2>1, <2>2 DEF Proper
<1>11. /\ Fit(req[r].todo, req[r].about)' /\ HasRead(r)' /\ req'[r].op \in {req[r].op, "none"}
       /\ req'[r].about \subseteq req[r].about \cup subjects
  <2>1. CASE more = <<>>
    BY <1>6, <2>1, IdleShaped
  <2>2. CASE more # <<>>
    <3>1. PICK about : about = req[r].about \cup subjects
      OBVIOUS
    <3>2. Fit(more, about)'
      BY <3>1, FitStays DEF Whole
    <3>3. Fit(req[r].todo, req[r].about)'
      <4>1. req'[r].todo = more /\ req'[r].about = about
        BY <1>8, <2>2, <3>1
      <4>2. QED
        BY <3>2, <4>1
    <3>4. HasRead(r)'
      <4>1. \A k \in UsersKeys : ~Needs(more, k)
        BY DEF Whole, Closed, Facts
      <4>2. \A kind \in DOMAIN req[r].got : ValueOK(kind, req[r].got[kind])
        BY DEF Shaped, HasRead
      <4>3. QED
        BY <1>8, <2>2, <4>1, <4>2 DEF HasRead
    <3>5. QED
      BY <1>8, <2>2, <3>3, <3>4
  <2>3. QED
    BY <2>1, <2>2
<1>12. Apart'
  BY <1>3, <1>4, <1>5, <1>11, ApartWhenMore DEF Shaped
<1>13. Counted'
  BY <1>3, <1>5, <1>11 DEF Counted, Shaped, Elsewhere
<1>14. ASSUME NEW q \in Requests PROVE Fit(req[q].todo, req[q].about)' /\ HasRead(q)'
  <2>1. CASE q = r
    BY <1>11, <2>1
  <2>2. CASE q # r
    BY <1>5, <2>2, OthersShaped
  <2>3. QED
    BY <2>1, <2>2
<1>15. Shaped'
  BY <1>10, <1>12, <1>13, <1>14 DEF Shaped
<1>16. more # <<>> => req'[r].about = req[r].about \cup subjects /\ req'[r].got = req[r].got
  BY <1>8
<1>17. QED
  BY <1>3, <1>5, <1>9, <1>15, <1>16

\* After a step that may end everything, nothing is relied on.
LEMMA Turned ==
  ASSUME Shaped, NEW r \in Requests, req[r].todo # <<>>, req[r].todo[1][1] \in Calls,
         Elsewhere(r), contended \subseteq contended',
         \/ req'[r].todo \in {Tail(req[r].todo), <<>>}
         \/ \E A, more : /\ Whole(more, A) /\ req'[r].todo = more \o Tail(req[r].todo)
                         /\ Prefix(more, A) \/ (req[r].todo[1][1] \in Final /\ \A x \in Steps(more) : ~Chained(x))
  PROVE  Turns(r)
<1>1. PICK q, h, rest, todo : q = req[r].todo /\ h = q[1] /\ rest = Tail(q) /\ todo = req'[r].todo
  OBVIOUS
<1>2. Whole(rest, req[r].about) /\ (h[1] \in Final => rest = <<>>)
  BY <1>1, AtHand
<1>3. Program(rest) /\ Steps(rest) \subseteq Left(r)
  <2>1. Program(q)
    BY <1>1 DEF Shaped, Proper
  <2>2. QED
    BY <1>1, <2>1, ProgramTail DEF Left
<1>4. Left(r)' = Steps(todo)
  BY <1>1 DEF Left
<1>5. CASE todo \in {rest, <<>>}
  <2>1. Closed(todo) /\ Steps(todo) \subseteq Left(r)
    BY <1>2, <1>3, <1>5, WholeNone, NoProgram DEF Whole
  <2>2. QED
    BY <1>1, <1>4, <2>1 DEF Turns, Issuing
<1>6. ASSUME NEW A, NEW more, Whole(more, A), todo = more \o rest,
             Prefix(more, A) \/ (h[1] \in Final /\ \A x \in Steps(more) : ~Chained(x))
      PROVE  Turns(r)
  <2>1. Program(more)
    BY <1>6 DEF Whole, Fit
  <2>2. Steps(todo) = Steps(more) \cup Steps(rest)
    BY <1>3, <1>6, <2>1, ProgramJoin
  <2>3. \A x \in Steps(more) : ~Chained(x)
    BY <1>6 DEF Prefix, Final, Chained
  <2>4. Closed(todo)
    BY <1>2, <1>3, <1>6, <2>1, NeedsJoin DEF Whole, Closed
  <2>5. QED
    BY <1>1, <1>3, <1>4, <2>2, <2>3, <2>4 DEF Turns, Issuing
<1>7. QED
  BY <1>1, <1>5, <1>6

\* A request arrives.
LEMMA BeginsShaped ==
  ASSUME Shaped, Growth, NEW r \in Requests, NEW op, NEW about, NEW program,
         Begin(r, op, about, program), Fit(program, about), \A k \in UsersKeys : ~Needs(program, k)
  PROVE  /\ Shaped' /\ Elsewhere(r) /\ req[r] = Idle /\ UNCHANGED <<mix, faults>>
         /\ req'[r].todo = program /\ req'[r].about = about
         /\ contended' = contended \cup (about \cap Others(r))
<1>1. op \in mix.ops /\ calls < mix.calls /\ calls' = calls + 1 /\ Start(r, op, about, program)
  BY DEF Begin
<1>2. /\ Proper' /\ Elsewhere(r) /\ req[r] = Idle
      /\ req'[r] = [op |-> op, about |-> about, todo |-> program, got |-> <<>>]
      /\ contended' = contended \cup (about \cap Others(r)) /\ UNCHANGED <<mix, faults>>
  BY <1>1, Starts DEF Shaped, Fit
<1>3. Fit(req[r].todo, req[r].about)' /\ HasRead(r)'
  <2>1. Fit(program, about)'
    BY FitStays
  <2>2. Fit(req[r].todo, req[r].about)'
    BY <1>2, <2>1
  <2>3. HasRead(r)'
    BY <1>2 DEF HasRead
  <2>4. QED
    BY <2>2, <2>3
<1>4. Apart'
  BY <1>2, ApartWhenMore DEF Shaped
<1>5. Counted'
  <2>1. mix.calls \in Nat /\ mix.faults \in Nat
    BY HandlersAssumption DEF Shaped, Counted
  <2>2. calls' \in 0..mix.calls
    BY <1>1, <2>1 DEF Shaped, Counted
  <2>3. QED
    BY <1>1, <1>2, <2>2 DEF Counted, Shaped, Elsewhere
<1>6. ASSUME NEW q \in Requests PROVE Fit(req[q].todo, req[q].about)' /\ HasRead(q)'
  <2>1. CASE q = r
    BY <1>3, <2>1
  <2>2. CASE q # r
    BY <1>2, <2>2, OthersShaped
  <2>3. QED
    BY <2>1, <2>2
<1>7. QED
  BY <1>2, <1>4, <1>5, <1>6 DEF Shaped

LEMMA FaultShaped ==
  ASSUME Shaped, Growth, NEW r \in Requests, Fault(r)
  PROVE  /\ Shaped' /\ Elsewhere(r) /\ req'[r] = Idle /\ contended' = contended \cup req[r].about
         /\ UNCHANGED mix
<1>1. /\ Proper' /\ Elsewhere(r) /\ req'[r] = Idle
      /\ contended' = contended \cup req[r].about /\ faults < mix.faults /\ faults' = faults + 1
      /\ UNCHANGED <<mix, calls>>
  BY Faults DEF Shaped
<1>2. Fit(req[r].todo, req[r].about)' /\ HasRead(r)' /\ req'[r].about = {} /\ req'[r].op = "none"
  BY <1>1, IdleShaped
<1>3. Apart'
  BY <1>1, <1>2, ApartWhenDone DEF Shaped
<1>4. Counted'
  <2>1. mix.calls \in Nat /\ mix.faults \in Nat
    BY HandlersAssumption DEF Shaped, Counted
  <2>2. faults' \in 0..mix.faults
    BY <1>1, <2>1 DEF Shaped, Counted
  <2>3. QED
    BY <1>1, <1>2, <2>2 DEF Counted, Shaped, Elsewhere
<1>5. ASSUME NEW q \in Requests PROVE Fit(req[q].todo, req[q].about)' /\ HasRead(q)'
  <2>1. CASE q = r
    BY <1>2, <2>1
  <2>2. CASE q # r
    BY <1>1, <2>2, OthersShaped
  <2>3. QED
    BY <2>1, <2>2
<1>6. QED
  BY <1>1, <1>3, <1>4, <1>5 DEF Shaped

LEMMA StaysShaped ==
  ASSUME Shaped, Growth, UNCHANGED handlerVars
  PROVE  Shaped'
<1>1. UNCHANGED <<req, mix, calls, faults, contended>>
  BY DEF handlerVars
<1>2. Proper' /\ Apart' /\ Counted'
  BY <1>1 DEF Shaped, Proper, Apart, Counted
<1>3. ASSUME NEW q \in Requests PROVE Fit(req[q].todo, req[q].about)' /\ HasRead(q)'
  <2>1. PICK todo, about : todo = req[q].todo /\ about = req[q].about
    OBVIOUS
  <2>2. Fit(todo, about)'
    BY <2>1, FitStays DEF Shaped
  <2>3. HasRead(q)
    BY DEF Shaped
  <2>4. QED
    BY <1>1, <2>1, <2>2, <2>3 DEF HasRead
<1>4. QED
  BY <1>2, <1>3 DEF Shaped

-----------------------------------------------------------------------------
(* The steps keep the types *)

tables == <<user, roles, spent, tokens, jwts, linkTokens, reviews>>

LEMMA TablesStay ==
  ASSUME AccountsTypes, UNCHANGED tables
  PROVE  Tables' /\ PhonesDiffer' /\ Growth
<1>1. UNCHANGED <<user, roles, spent, tokens, jwts, linkTokens, reviews>>
  BY DEF tables
<1>2. Tables' /\ PhonesDiffer'
  BY <1>1 DEF AccountsTypes, Tables, PhonesDiffer, Registered
<1>3. QED
  BY <1>1, <1>2, NoGrowth DEF AccountsTypes

LEMMA CacheStays ==
  ASSUME Cached, \/ UNCHANGED cache
                 \/ \E S : cache' = Without(cache, S)
                 \/ \E k, v : ValueOK(k[1], v) /\ cache' = With(cache, k, v)
  PROVE  Cached'
<1>1. CASE UNCHANGED cache
  BY <1>1 DEF Cached
<1>2. CASE \E S : cache' = Without(cache, S)
  BY <1>2 DEF Cached, Without
<1>3. CASE \E k, v : ValueOK(k[1], v) /\ cache' = With(cache, k, v)
  BY <1>3 DEF Cached, With
<1>4. QED
  BY <1>1, <1>2, <1>3

\* A key that is found skips what reads it, and gives what that would have.
LEMMA HitNeeds ==
  ASSUME Shaped, NEW r \in Requests, At(r, "get"), NEW c, c = Arg(r, 1),
         NEW todo, todo = SubSeq(req[r].todo, 4, Len(req[r].todo))
  PROVE  /\ c \in Copies /\ c[2] \in req[r].about /\ Fit(todo, req[r].about)
         /\ \A k \in Facts : Needs(todo, k) =>
              \/ k = c
              \/ Needs(req[r].todo, k) /\ k[1] # c[1] /\ (c[1] = "profile" => k # <<"dropped", c[2]>>)
<1>1. PICK q, A : q = req[r].todo /\ A = req[r].about
  OBVIOUS
<1>2. Fit(q, A) /\ q # <<>> /\ Program(q) /\ Sound(q) /\ Adjacent(q) /\ q[1][1] = "get" /\ c = q[1][2]
  BY <1>1 DEF Shaped, Fit, At, Arg
<1>3. /\ 1 \in DOMAIN q /\ Len(q) \in Nat /\ DOMAIN q = 1..Len(q) /\ q \in Seq(Steps(q))
  BY <1>2, ProgramTail DEF Program
<1>4. 3 \in DOMAIN q /\ q[2] = <<"select", c>> /\ q[3] = <<"set", c>>
  <2>1. 1 + 2 \in DOMAIN q /\ q[1 + 1] = <<"select", c>> /\ q[1 + 2] = <<"set", c>>
    BY <1>2, <1>3 DEF Adjacent
  <2>2. QED
    BY <2>1
<1>5. StepOK(q[1]) /\ Minds(q[1], A)
  BY <1>2, FitTail
<1>6. c \in Copies /\ c[2] \in A
  BY <1>2, <1>5 DEF StepOK, Minds, Reads
<1>7. PICK q2, q3, q4 : q2 = Tail(q) /\ q3 = Tail(q2) /\ q4 = Tail(q3)
  OBVIOUS
<1>8. Fit(q2, A) /\ Program(q2) /\ Sound(q2) /\ q2[1] = q[2] /\ q2[2] = q[3] /\ q2 # <<>>
  <2>1. Fit(q2, A) /\ Program(q2) /\ Sound(q2)
    BY <1>2, <1>7, FitTail DEF Fit
  <2>2. DOMAIN q2 = 1..Len(q) - 1 /\ \A i \in DOMAIN q2 : q2[i] = q[i + 1]
    BY <1>2, <1>7, ProgramTail
  <2>3. 1 \in DOMAIN q2 /\ 2 \in DOMAIN q2
    BY <1>3, <1>4, <2>2
  <2>4. ASSUME NEW i \in DOMAIN q2, NEW j, j = i + 1 PROVE q2[i] = q[j]
    BY <2>2, <2>4, Zenon
  <2>5. q2[1] = q[2] /\ q2[2] = q[3]
    BY <2>3, <2>4
  <2>6. QED
    BY <2>1, <2>3, <2>5
<1>9. Fit(q3, A) /\ Program(q3) /\ Sound(q3) /\ q3[1] = q[3] /\ q3 # <<>>
  <2>1. Fit(q3, A) /\ Program(q3) /\ Sound(q3)
    BY <1>7, <1>8, FitTail DEF Fit
  <2>2. /\ Len(q2) = Len(q) - 1 /\ Len(q3) = Len(q2) - 1 /\ DOMAIN q3 = 1..Len(q3)
        /\ \A i \in DOMAIN q3 : q3[i] = q2[i + 1]
    BY <1>2, <1>7, <1>8, ProgramTail
  <2>3. 1 \in DOMAIN q3
    BY <1>3, <1>4, <2>2
  <2>4. ASSUME NEW i \in DOMAIN q3, NEW j, j = i + 1 PROVE q3[i] = q2[j]
    BY <2>2, <2>4, Zenon
  <2>5. q3[1] = q2[2]
    BY <2>3, <2>4
  <2>6. QED
    BY <1>8, <2>1, <2>3, <2>5
<1>10. Fit(q4, A)
  BY <1>7, <1>9, FitTail
<1>11. todo = q4
  <2>1. PICK n, S : n = Len(q) /\ S = Steps(q)
    OBVIOUS
  <2>2. q \in Seq(S) /\ n \in Nat /\ 2 \in 1..Len(q) /\ 3 \in 1..Len(q) /\ n \in 2..Len(q) /\ n \in 3..Len(q)
    BY <1>3, <1>4, <2>1
  <2>3. q2 = SubSeq(q, 2, n)
    BY <1>2, <1>7, <2>1, <2>2, TailIsSubSeq
  <2>4. q3 = SubSeq(q, 2 + 1, n)
    BY <1>7, <2>2, <2>3, HeadTailOfSubSeq
  <2>5. q4 = SubSeq(q, 3 + 1, n)
    <3>1. q3 = SubSeq(q, 3, n)
      BY <2>4
    <3>2. QED
      BY <1>7, <2>2, <3>1, HeadTailOfSubSeq
  <2>6. QED
    BY <1>1, <2>1, <2>5
<1>12. ASSUME NEW k \in Facts, Needs(q4, k), k # c
       PROVE  Needs(q, k) /\ k[1] # c[1] /\ (c[1] = "profile" => k # <<"dropped", c[2]>>)
  <2>1. Gives(q3[1], k) \/ (Needs(q3, k) /\ ~Breaks(q3[1], k))
    BY <1>7, <1>9, <1>12, NeedsTail
  <2>2. ~Gives(q3[1], k)
    BY <1>4, <1>9 DEF Gives
  <2>3. Gives(q2[1], k) \/ (Needs(q2, k) /\ ~Breaks(q2[1], k))
    BY <1>7, <1>8, <2>1, <2>2, NeedsTail
  <2>4. ~Gives(q2[1], k)
    BY <1>4, <1>8, <1>12 DEF Gives
  <2>5. Gives(q[1], k) \/ Needs(q, k)
    BY <1>2, <1>7, <2>3, <2>4, NeedsTail
  <2>6. ~Gives(q[1], k)
    BY <1>2 DEF Gives
  <2>7. k[1] # c[1]
    BY <1>4, <1>8, <1>12, <2>3, <2>4 DEF Breaks
  <2>8. c[1] = "profile" => k # <<"dropped", c[2]>>
    BY <1>4, <1>9, <2>1, <2>2 DEF Breaks
  <2>9. QED
    BY <2>5, <2>6, <2>7, <2>8
<1>13. QED
  BY <1>1, <1>6, <1>10, <1>11, <1>12

\* A step that changes no data.
LEMMA ChecksTyped ==
  ASSUME AccountsTypes, NEW r \in Requests, req[r].todo # <<>>, req[r].todo[1][1] # "select",
         Continue(r) \/ Throw(r), UNCHANGED cache, UNCHANGED tables
  PROVE  AccountsTypes' /\ (req[r].todo[1][1] \in Calls => Turns(r))
<1>1. Tables' /\ PhonesDiffer' /\ Growth
  BY TablesStay
<1>2. /\ Shaped' /\ Elsewhere(r) /\ UNCHANGED contended
      /\ req'[r].todo \in {Tail(req[r].todo), <<>>}
  BY <1>1, ContinuesShaped DEF AccountsTypes
<1>3. Cached'
  BY CacheStays DEF AccountsTypes
<1>4. req[r].todo[1][1] \in Calls => Turns(r)
  BY <1>2, Turned DEF AccountsTypes
<1>5. QED
  BY <1>1, <1>2, <1>3, <1>4 DEF AccountsTypes

LEMMA GetTyped ==
  ASSUME AccountsTypes, NEW r \in Requests, CacheGet(r), UNCHANGED tables
  PROVE  AccountsTypes'
<1>1. Tables' /\ PhonesDiffer' /\ Growth
  BY TablesStay
<1>2. Cached' /\ Shaped
  BY CacheStays DEF AccountsTypes, CacheGet
<1>3. req[r].todo # <<>> /\ req[r].todo[1][1] = "get" /\ At(r, "get")
  BY DEF CacheGet, At
<1>4. PICK c : c = Arg(r, 1)
  OBVIOUS
<1>5. CASE c \in DOMAIN cache
  <2>1. PICK todo, got : /\ todo = SubSeq(req[r].todo, 4, Len(req[r].todo))
                         /\ got = With(req[r].got, c[1], cache[c])
    OBVIOUS
  <2>2. Goes(r, todo, got)
    BY <1>4, <1>5, <2>1 DEF CacheGet
  <2>3. /\ Fit(todo, req[r].about)
        /\ \A k \in Facts : Needs(todo, k) => k = c \/ Needs(req[r].todo, k)
    BY <1>2, <1>3, <1>4, <2>1, HitNeeds
  <2>4. DOMAIN got = DOMAIN req[r].got \cup {c[1]}
    BY <2>1 DEF With
  <2>5. HasRead(r)
    BY <1>2 DEF Shaped
  <2>6. \A k \in UsersKeys : Needs(todo, k) => k[1] \in DOMAIN got
    BY <2>3, <2>4, <2>5 DEF HasRead, Facts
  <2>7. \A kind \in DOMAIN got : ValueOK(kind, got[kind])
    <3>1. ValueOK(c[1], cache[c])
      BY <1>5 DEF AccountsTypes, Cached
    <3>2. \A kind \in DOMAIN req[r].got : ValueOK(kind, req[r].got[kind])
      BY <2>5 DEF HasRead
    <3>3. QED
      BY <2>1, <2>4, <3>1, <3>2 DEF With
  <2>8. Shaped'
    BY <1>1, <1>2, <2>2, <2>3, <2>6, <2>7, GoesShaped
  <2>9. QED
    BY <1>1, <1>2, <2>8 DEF AccountsTypes
<1>6. CASE c \notin DOMAIN cache
  <2>1. Continue(r)
    BY <1>4, <1>6 DEF CacheGet
  <2>2. Shaped'
    BY <1>1, <1>2, <1>3, <2>1, ContinuesShaped
  <2>3. QED
    BY <1>1, <1>2, <2>2 DEF AccountsTypes
<1>7. QED
  BY <1>5, <1>6

LEMMA CacheTyped ==
  ASSUME AccountsTypes, NEW r \in Requests, UNCHANGED tables,
         CacheSet(r) \/ CachePut(r) \/ CachePeek(r) \/ CacheDelete(r) \/ CacheScan(r) \/ CacheUnlink(r)
  PROVE  AccountsTypes'
<1>1. Tables' /\ PhonesDiffer' /\ Growth /\ Shaped /\ Cached
  BY TablesStay DEF AccountsTypes
<1>2. ASSUME CacheSet(r) PROVE Shaped' /\ Cached'
  <2>1. PICK h : h = req[r].todo[1]
    OBVIOUS
  <2>2. /\ req[r].todo # <<>> /\ h[1] = "set" /\ Continue(r)
        /\ cache' = With(cache, h[2], req[r].got[h[2][1]])
    BY <1>2, <2>1 DEF CacheSet, At, Arg, Got
  <2>3. Shaped'
    BY <1>1, <2>1, <2>2, ContinuesShaped
  <2>4. /\ StepOK(h) /\ \A k \in UsersKeys : Uses(h, k) => k[1] \in DOMAIN req[r].got
        /\ \A kind \in DOMAIN req[r].got : ValueOK(kind, req[r].got[kind])
    BY <1>1, <2>1, <2>2, AtHand
  <2>5. ValueOK(h[2][1], req[r].got[h[2][1]])
    <3>1. CASE h[2] \in UsersKeys
      <4>1. h[2][1] \in DOMAIN req[r].got
        BY <2>2, <2>4, <3>1 DEF Uses
      <4>2. QED
        BY <2>4, <4>1
    <3>2. CASE h[2] \notin UsersKeys
      <4>1. h[2] \in Copies
        BY <2>2, <2>4 DEF StepOK, Reads
      <4>2. h[2][1] \in {"reviews:user", "reviews:listing"}
        BY <3>2, <4>1, PageKeys DEF Copies
      <4>3. QED
        BY <4>2 DEF ValueOK
    <3>3. QED
      BY <3>1, <3>2
  <2>6. Cached'
    BY <1>1, <2>2, <2>5, CacheStays
  <2>7. QED
    BY <2>3, <2>6
<1>3. ASSUME CachePut(r) PROVE Shaped' /\ Cached'
  <2>1. PICK h : h = req[r].todo[1]
    OBVIOUS
  <2>2. req[r].todo # <<>> /\ h[1] = "put" /\ Continue(r) /\ cache' = With(cache, h[2], h[3])
    BY <1>3, <2>1 DEF CachePut, At, Arg
  <2>3. Shaped'
    BY <1>1, <2>1, <2>2, ContinuesShaped
  <2>4. StepOK(h)
    BY <1>1, <2>1, <2>2, AtHand
  <2>5. ValueOK(h[2][1], h[3])
    BY <2>2, <2>4 DEF ValueOK, StepOK
  <2>6. Cached'
    BY <1>1, <2>2, <2>5, CacheStays
  <2>7. QED
    BY <2>3, <2>6
<1>4. ASSUME CachePeek(r) PROVE Shaped' /\ Cached'
  <2>1. PICK h, c : h = req[r].todo[1] /\ c = h[2]
    OBVIOUS
  <2>2. /\ req[r].todo # <<>> /\ h[1] = "peek" /\ UNCHANGED cache
        /\ IF c \in DOMAIN cache THEN Read(r, c[1], cache[c])
           ELSE Goes(r, Tail(req[r].todo), Without(req[r].got, {c[1]}))
    BY <1>4, <2>1 DEF CachePeek, At, Arg
  <2>3. StepOK(h) /\ Fit(Tail(req[r].todo), req[r].about)
    BY <1>1, <2>1, <2>2, AtHand
  <2>4. c[1] \in {"flash-call", "2fa:temp"}
    BY <2>1, <2>2, <2>3 DEF StepOK
  <2>5. CASE c \in DOMAIN cache
    <3>1. ValueOK(c[1], cache[c])
      BY <1>1, <2>5 DEF Cached
    <3>2. Shaped'
      BY <1>1, <2>1, <2>2, <2>5, <3>1, ReadsShaped
    <3>3. QED
      BY <1>1, <2>2, <3>2, CacheStays
  <2>6. CASE c \notin DOMAIN cache
    <3>1. PICK todo, got : todo = Tail(req[r].todo) /\ got = Without(req[r].got, {c[1]})
      OBVIOUS
    <3>2. DOMAIN got = DOMAIN req[r].got \ {c[1]} /\ \A s \in DOMAIN got : got[s] = req[r].got[s]
      BY <3>1 DEF Without
    <3>3. \A k \in UsersKeys : k[1] # c[1] /\ ~Gives(h, k)
      BY <2>2, <2>4 DEF UsersKeys, Gives
    <3>4. /\ \A k \in UsersKeys : Needs(todo, k) => Gives(h, k) \/ k[1] \in DOMAIN req[r].got
          /\ \A s \in DOMAIN req[r].got : ValueOK(s, req[r].got[s])
      BY <1>1, <2>1, <2>2, <3>1, AtHand
    <3>5. Goes(r, todo, got) /\ Fit(todo, req[r].about)
      BY <2>2, <2>3, <2>6, <3>1
    <3>6. /\ \A k \in UsersKeys : Needs(todo, k) => k[1] \in DOMAIN got
          /\ \A s \in DOMAIN got : ValueOK(s, got[s])
      BY <3>2, <3>3, <3>4
    <3>7. Shaped'
      BY <1>1, <3>5, <3>6, GoesShaped
    <3>8. QED
      BY <1>1, <2>2, <3>7, CacheStays
  <2>7. QED
    BY <2>5, <2>6
<1>5. ASSUME CacheDelete(r) \/ CacheUnlink(r) PROVE Shaped' /\ Cached'
  <2>1. PICK h : h = req[r].todo[1]
    OBVIOUS
  <2>2. /\ req[r].todo # <<>> /\ h[1] \in {"delete", "unlink"} /\ Continue(r)
        /\ \E S : cache' = Without(cache, S)
    BY <1>5, <2>1 DEF CacheDelete, CacheUnlink, At, Arg
  <2>3. Shaped'
    BY <1>1, <2>1, <2>2, ContinuesShaped
  <2>4. QED
    BY <1>1, <2>2, <2>3, CacheStays
<1>6. ASSUME CacheScan(r) PROVE Shaped' /\ Cached'
  <2>1. PICK h : h = req[r].todo[1]
    OBVIOUS
  <2>2. PICK more : more = (IF h[2] \cap DOMAIN cache = {} THEN <<>> ELSE <<<<"unlink", h[2] \cap DOMAIN cache>>>>)
    OBVIOUS
  <2>3. req[r].todo # <<>> /\ h[1] = "scan" /\ Do(r, more) /\ UNCHANGED cache
    BY <1>6, <2>1, <2>2 DEF CacheScan, At, Arg
  <2>4. StepOK(h)
    BY <1>1, <2>1, <2>3, AtHand
  <2>5. Prefix(more, req[r].about)
    <3>1. Prefix(<<>>, req[r].about)
      BY WholeNone, NoProgram DEF Prefix
    <3>2. PICK x : x = <<"unlink", h[2] \cap DOMAIN cache>>
      OBVIOUS
    <3>3. x[1] = "unlink" /\ x[2] \subseteq Copies \ UsersKeys
      BY <2>3, <2>4, <3>2 DEF StepOK
    <3>4. StepOK(x) /\ Minds(x, req[r].about)
      BY <3>3 DEF StepOK, Minds, OfUser, Reads
    <3>5. Prefix(<<x>>, req[r].about)
      BY <3>3, <3>4, PrefixOne DEF Final
    <3>6. QED
      BY <2>2, <3>1, <3>2, <3>5
  <2>6. Shaped'
    BY <1>1, <2>1, <2>3, <2>5, CallsShaped DEF Calls, Prefix
  <2>7. QED
    BY <1>1, <2>3, <2>6, CacheStays
<1>7. QED
  BY <1>1, <1>2, <1>3, <1>4, <1>5, <1>6 DEF AccountsTypes

-----------------------------------------------------------------------------
(* The steps that read or write tables *)

LEMMA RowColumns == ASSUME NEW row \in UserRow PROVE Typed(row, Columns)
BY DEF Typed, UserRow, ColumnType, Columns

LEMMA RowOf == ASSUME NEW row, Typed(row, Columns) PROVE [c \in Columns |-> row[c]] \in UserRow
BY DEF Typed, UserRow, ColumnType, Columns

\* What the callbacks of findById return.
LEMMA ProfileTyped ==
  ASSUME Tables, NEW u \in Registered
  PROVE  Typed(Profile(u), Columns \ {"online"}) /\ user[u].online \in BOOLEAN
<1>1. user[u] \in UserRow
  BY DEF Registered, Tables
<1>2. Typed(user[u], Columns)
  BY <1>1, RowColumns
<1>3. user[u].online \in BOOLEAN
  BY <1>1 DEF UserRow
<1>4. QED
  BY <1>2, <1>3 DEF Typed, Profile

LEMMA SelectTyped ==
  ASSUME AccountsTypes, NEW r \in Requests, UNCHANGED cache, UNCHANGED tables,
         SelectProfile(r) \/ SelectStatus(r) \/ SelectRoles(r) \/ SelectPage(r)
  PROVE  AccountsTypes'
<1>1. Tables' /\ PhonesDiffer' /\ Growth /\ Shaped /\ Cached' /\ Tables
  BY TablesStay, CacheStays DEF AccountsTypes
<1>2. PICK h, c : h = req[r].todo[1] /\ c = h[2]
  OBVIOUS
<1>3. req[r].todo # <<>> /\ h[1] = "select" /\ c = Arg(r, 1)
  BY <1>2 DEF SelectProfile, SelectStatus, SelectRoles, SelectPage, At, Arg
<1>4. c \in Copies
  <2>1. StepOK(h)
    BY <1>1, <1>2, <1>3, AtHand
  <2>2. QED
    BY <1>2, <1>3, <2>1 DEF StepOK, Reads
<1>5. c[1] \in {"profile", "status", "roles"} => c[2] \in Users
  BY <1>4, PageKeys DEF Copies, UsersKeys
<1>6. Throw(r) \/ \E v : Read(r, c[1], v) /\ ValueOK(c[1], v)
  <2>1. CASE SelectProfile(r)
    <3>1. c[1] = "profile" /\ IF user[c[2]] = NoRow THEN Throw(r) ELSE Read(r, "profile", Profile(c[2]))
      BY <1>3, <2>1 DEF SelectProfile
    <3>2. user[c[2]] # NoRow => c[2] \in Registered
      BY <1>5, <3>1 DEF Registered
    <3>3. user[c[2]] # NoRow => ValueOK("profile", Profile(c[2]))
      BY <1>1, <3>2, ProfileTyped DEF ValueOK
    <3>4. QED
      BY <3>1, <3>3
  <2>2. CASE SelectStatus(r)
    <3>1. c[1] = "status" /\ IF user[c[2]] = NoRow THEN Throw(r) ELSE Read(r, "status", user[c[2]].online)
      BY <1>3, <2>2 DEF SelectStatus
    <3>2. user[c[2]] # NoRow => c[2] \in Registered
      BY <1>5, <3>1 DEF Registered
    <3>3. user[c[2]] # NoRow => ValueOK("status", user[c[2]].online)
      BY <1>1, <3>2, ProfileTyped DEF ValueOK
    <3>4. QED
      BY <3>1, <3>3
  <2>3. CASE SelectRoles(r)
    <3>1. c[1] = "roles" /\ Read(r, "roles", roles[c[2]])
      BY <1>3, <2>3 DEF SelectRoles
    <3>2. ValueOK("roles", roles[c[2]])
      BY DEF ValueOK
    <3>3. QED
      BY <3>1, <3>2
  <2>4. CASE SelectPage(r)
    <3>1. c[1] \in {"reviews:user", "reviews:listing"} /\ Read(r, c[1], PageOf(c))
      BY <1>3, <2>4 DEF SelectPage
    <3>2. ValueOK(c[1], PageOf(c))
      BY <3>1 DEF ValueOK
    <3>3. QED
      BY <3>1, <3>2
  <2>5. QED
    BY <2>1, <2>2, <2>3, <2>4
<1>7. Shaped'
  <2>1. CASE Throw(r)
    <3>1. Fit(<<>>, req[r].about)
      BY WholeNone DEF Whole
    <3>2. Goes(r, <<>>, <<>>) /\ DOMAIN <<>> = {}
      BY <2>1 DEF Throw
    <3>3. QED
      BY <1>1, <3>1, <3>2, NeedsNothing, GoesShaped
  <2>2. ASSUME NEW v, Read(r, c[1], v), ValueOK(c[1], v) PROVE Shaped'
    <3>1. PICK kind : kind = c[1]
      OBVIOUS
    <3>2. req[r].todo[1][1] = "select" => req[r].todo[1][2][1] = kind
      BY <1>2, <3>1
    <3>3. QED
      BY <1>1, <1>3, <2>2, <3>1, <3>2, ReadsShaped
  <2>3. QED
    BY <1>6, <2>1, <2>2
<1>8. QED
  BY <1>1, <1>7 DEF AccountsTypes

\* The entity that update saves is a row.
LEMMA MergedRow ==
  ASSUME Shaped, NEW r \in Requests, At(r, "save")
  PROVE  /\ Arg(r, 1) \in Users /\ Merged(r, Arg(r, 2)) \in UserRow
         /\ Arg(r, 1) \in req[r].about
<1>1. PICK h, u, patch, got : h = req[r].todo[1] /\ u = h[2] /\ patch = h[3] /\ got = req[r].got
  OBVIOUS
<1>2. h[1] = "save" /\ req[r].todo # <<>>
  BY <1>1 DEF At
<1>3. /\ StepOK(h) /\ Minds(h, req[r].about) /\ \A k \in UsersKeys : Uses(h, k) => k[1] \in DOMAIN got
      /\ \A kind \in DOMAIN got : ValueOK(kind, got[kind])
  BY <1>1, <1>2, AtHand
<1>4. u \in Users /\ PatchOK(patch, Saved) /\ u \in req[r].about
  BY <1>1, <1>2, <1>3 DEF StepOK, OfUser, Minds
<1>5. "profile" \in DOMAIN got /\ "status" \in DOMAIN got
  <2>1. ProfileKey(u) \in UsersKeys /\ StatusKey(u) \in UsersKeys
    BY <1>4 DEF ProfileKey, StatusKey, UsersKeys
  <2>2. Uses(h, ProfileKey(u)) /\ Uses(h, StatusKey(u))
    BY <1>1, <1>2 DEF Uses
  <2>3. ProfileKey(u)[1] = "profile" /\ StatusKey(u)[1] = "status"
    BY DEF ProfileKey, StatusKey
  <2>4. QED
    BY <1>3, <2>1, <2>2, <2>3
<1>6. Typed(got["profile"], Columns \ {"online"}) /\ got["status"] \in BOOLEAN
  BY <1>3, <1>5 DEF ValueOK
<1>7. PICK row : row = [c \in Columns |-> IF c \in DOMAIN patch THEN patch[c]
                                          ELSE IF c = "online" THEN got["status"] ELSE got["profile"][c]]
  OBVIOUS
<1>8. Typed(row, Columns)
  <2>1. ASSUME NEW c \in Columns PROVE row[c] \in ColumnType[c]
    <3>1. CASE c \in DOMAIN patch
      BY <1>4, <1>7, <3>1 DEF PatchOK, Typed
    <3>2. CASE c \notin DOMAIN patch /\ c = "online"
      BY <1>6, <1>7, <3>2, Zenon DEF ColumnType
    <3>3. CASE c \notin DOMAIN patch /\ c # "online"
      BY <1>6, <1>7, <3>3 DEF Typed
    <3>4. QED
      BY <3>1, <3>2, <3>3
  <2>2. QED
    BY <2>1 DEF Typed
<1>9. [c \in Columns |-> row[c]] \in UserRow
  BY <1>8, RowOf
<1>10. row \in UserRow
  BY <1>7, <1>9
<1>11. Merged(r, Arg(r, 2)) = row /\ Arg(r, 1) = u
  BY <1>1, <1>7 DEF Merged, Arg, Got
<1>12. QED
  BY <1>4, <1>10, <1>11

\* One user changes.
LEMMA UserTables ==
  ASSUME Tables, NEW u \in Users, NEW row \in UserRow, user' = [user EXCEPT ![u] = row],
         UNCHANGED <<roles, spent, tokens, jwts, linkTokens, reviews>>,
         PhonesDiffer, \A v \in Registered \ {u} : user[v].phone # row.phone
  PROVE  Tables' /\ Growth /\ PhonesDiffer'
<1>1. user' \in [Users -> UserRow \cup {NoRow}]
  BY DEF Tables
<1>2. Tables'
  BY <1>1 DEF Tables
<1>3. PhonesDiffer'
  <2>1. Registered' \ {u} = Registered \ {u} /\ user'[u] = row /\ \A v \in Users \ {u} : user'[v] = user[v]
    BY DEF Registered, Tables
  <2>2. Registered' \subseteq Users
    BY DEF Registered
  <2>3. ASSUME NEW v \in Registered', NEW w \in Registered', v # w PROVE user'[v].phone # user'[w].phone
    <3>1. v \in Users /\ w \in Users
      BY <2>2
    <3>2. CASE v = u
      BY <2>1, <2>3, <3>1, <3>2
    <3>3. CASE w = u
      BY <2>1, <2>3, <3>1, <3>3
    <3>4. CASE v # u /\ w # u
      BY <2>1, <2>3, <3>1, <3>4 DEF PhonesDiffer
    <3>5. QED
      BY <3>2, <3>3, <3>4
  <2>4. QED
    BY <2>3 DEF PhonesDiffer
<1>4. QED
  BY <1>2, <1>3, NoGrowth

LEMMA SaveTyped ==
  ASSUME AccountsTypes, NEW r \in Requests, SaveUser(r),
         UNCHANGED <<spent, tokens, jwts, linkTokens, reviews>>
  PROVE  AccountsTypes'
<1>1. PICK u, row : u = Arg(r, 1) /\ row = Merged(r, Arg(r, 2))
  OBVIOUS
<1>2. /\ At(r, "save") /\ req[r].todo # <<>> /\ req[r].todo[1][1] = "save"
      /\ Shaped /\ Tables /\ PhonesDiffer /\ Cached
  BY DEF SaveUser, At, AccountsTypes
<1>3. u \in Users /\ row \in UserRow
  BY <1>1, <1>2, MergedRow
<1>4. /\ UNCHANGED <<cache, roles>>
      /\ \/ Throw(r) /\ UNCHANGED user
         \/ /\ ~\E v \in Registered \ {u} : user[v].phone = row.phone
            /\ Continue(r) /\ user' = [user EXCEPT ![u] = row]
  BY <1>1 DEF SaveUser
<1>5. CASE Throw(r) /\ UNCHANGED user
  BY <1>2, <1>4, <1>5, ChecksTyped DEF tables
<1>6. CASE /\ ~\E v \in Registered \ {u} : user[v].phone = row.phone
           /\ Continue(r) /\ user' = [user EXCEPT ![u] = row]
  <2>1. \A v \in Registered \ {u} : user[v].phone # row.phone
    BY <1>6
  <2>2. Tables' /\ Growth /\ PhonesDiffer'
    BY <1>2, <1>3, <1>4, <1>6, <2>1, UserTables
  <2>3. Shaped' /\ Cached'
    BY <1>2, <1>4, <1>6, <2>2, ContinuesShaped, CacheStays
  <2>4. QED
    BY <2>2, <2>3 DEF AccountsTypes
<1>7. QED
  BY <1>4, <1>5, <1>6

LEMMA CreateTyped ==
  ASSUME AccountsTypes, NEW r \in Requests, CreateUser(r), UNCHANGED <<linkTokens, reviews>>
  PROVE  AccountsTypes'
<1>1. PICK h, u, p : h = req[r].todo[1] /\ u = h[2] /\ p = h[3]
  OBVIOUS
<1>2. /\ req[r].todo # <<>> /\ h[1] = "createUser" /\ Shaped /\ Tables /\ PhonesDiffer /\ Cached
      /\ UNCHANGED <<cache, roles, spent, tokens, jwts>>
      /\ \/ Throw(r) /\ UNCHANGED user
         \/ Owner(p) = {} /\ Continue(r) /\ user' = [user EXCEPT ![u] = NewUser(p)]
  BY <1>1 DEF CreateUser, At, Arg, AccountsTypes
<1>3. StepOK(h)
  BY <1>1, <1>2, AtHand
<1>4. u \in Users /\ p \in Phones
  BY <1>1, <1>2, <1>3 DEF StepOK, OfUser
<1>5. CASE Throw(r) /\ UNCHANGED user
  BY <1>1, <1>2, <1>5, ChecksTyped DEF tables
<1>6. CASE Owner(p) = {} /\ Continue(r) /\ user' = [user EXCEPT ![u] = NewUser(p)]
  <2>1. NewUser(p) \in UserRow /\ NewUser(p).phone = p
    BY <1>4 DEF NewUser, UserRow
  <2>2. \A v \in Registered \ {u} : user[v].phone # NewUser(p).phone
    BY <1>6, <2>1 DEF Owner
  <2>3. PICK row : row = NewUser(p)
    OBVIOUS
  <2>4. Tables' /\ Growth /\ PhonesDiffer'
    BY <1>2, <1>4, <1>6, <2>1, <2>2, <2>3, UserTables
  <2>5. Shaped' /\ Cached'
    BY <1>1, <1>2, <1>6, <2>4, ContinuesShaped, CacheStays
  <2>6. QED
    BY <2>4, <2>5 DEF AccountsTypes
<1>7. QED
  BY <1>2, <1>5, <1>6

\* userRepository.update names one of three columns, none of which is the phone.
LEMMA WriteTyped ==
  ASSUME AccountsTypes, NEW r \in Requests, WriteColumns(r),
         UNCHANGED <<spent, tokens, jwts, linkTokens, reviews>>
  PROVE  AccountsTypes'
<1>1. PICK h, u, patch : h = req[r].todo[1] /\ u = h[2] /\ patch = h[3]
  OBVIOUS
<1>2. /\ req[r].todo # <<>> /\ h[1] = "write" /\ Shaped /\ Tables /\ PhonesDiffer /\ Cached
      /\ UNCHANGED <<cache, roles>> /\ Continue(r)
      /\ user' = IF user[u] = NoRow THEN user
                 ELSE [user EXCEPT ![u] = [c \in Columns |->
                         IF c \in DOMAIN patch THEN patch[c] ELSE user[u][c]]]
  BY <1>1 DEF WriteColumns, At, Arg, AccountsTypes
<1>3. StepOK(h)
  BY <1>1, <1>2, AtHand
<1>4. /\ u \in Users
      /\ \E b \in BOOLEAN : patch \in {[online |-> b], [banned |-> b], [verified |-> b]}
  BY <1>1, <1>2, <1>3 DEF StepOK, OfUser
<1>5. CASE user[u] = NoRow
  BY <1>1, <1>2, <1>5, ChecksTyped DEF tables
<1>6. CASE user[u] # NoRow
  <2>1. u \in Registered /\ user[u] \in UserRow
    BY <1>2, <1>4, <1>6 DEF Registered, Tables
  <2>2. PICK row : row = [c \in Columns |-> IF c \in DOMAIN patch THEN patch[c] ELSE user[u][c]]
    OBVIOUS
  <2>3. user' = [user EXCEPT ![u] = row]
    BY <1>2, <1>6, <2>2
  <2>4. Typed(patch, DOMAIN patch) /\ "phone" \notin DOMAIN patch
    BY <1>4 DEF Typed, ColumnType
  <2>5. Typed(row, Columns)
    <3>1. Typed(user[u], Columns)
      BY <2>1, RowColumns
    <3>2. QED
      BY <2>2, <2>4, <3>1 DEF Typed
  <2>6. row \in UserRow
    <3>1. [c \in Columns |-> row[c]] \in UserRow
      BY <2>5, RowOf
    <3>2. QED
      BY <2>2, <3>1
  <2>7. row.phone = user[u].phone
    BY <2>2, <2>4 DEF Columns
  <2>8. \A v \in Registered \ {u} : user[v].phone # row.phone
    BY <1>2, <2>1, <2>7 DEF PhonesDiffer
  <2>9. Tables' /\ Growth /\ PhonesDiffer'
    BY <1>2, <1>4, <2>3, <2>6, <2>8, UserTables
  <2>10. Shaped' /\ Cached'
    BY <1>1, <1>2, <2>9, ContinuesShaped, CacheStays
  <2>11. QED
    BY <2>9, <2>10 DEF AccountsTypes
<1>7. QED
  BY <1>5, <1>6

LEMMA InsertRoleTyped ==
  ASSUME AccountsTypes, NEW r \in Requests, InsertRole(r),
         UNCHANGED <<spent, tokens, jwts, linkTokens, reviews>>
  PROVE  AccountsTypes'
<1>1. PICK h, u, role : h = req[r].todo[1] /\ u = h[2] /\ role = h[3]
  OBVIOUS
<1>2. /\ req[r].todo # <<>> /\ h[1] = "insertRole" /\ Shaped /\ Tables /\ PhonesDiffer /\ Cached
      /\ UNCHANGED <<cache, user>> /\ (Continue(r) \/ Throw(r))
      /\ \/ UNCHANGED roles
         \/ roles' = [roles EXCEPT ![u] = roles[u] \cup {role}]
  BY <1>1 DEF InsertRole, At, Arg, AccountsTypes
<1>3. StepOK(h)
  BY <1>1, <1>2, AtHand
<1>4. u \in Users /\ role \in BothRoles
  BY <1>1, <1>2, <1>3 DEF StepOK, OfUser
<1>5. roles' \in [Users -> SUBSET BothRoles]
  <2>1. roles \in [Users -> SUBSET BothRoles]
    BY <1>2 DEF Tables
  <2>2. roles[u] \cup {role} \in SUBSET BothRoles
    BY <1>4, <2>1
  <2>3. QED
    BY <1>2, <2>1, <2>2
<1>6. Tables' /\ PhonesDiffer' /\ Growth
  BY <1>2, <1>5, NoGrowth DEF Tables, PhonesDiffer, Registered
<1>7. Shaped' /\ Cached'
  BY <1>1, <1>2, <1>6, ContinuesShaped, CacheStays
<1>8. QED
  BY <1>6, <1>7 DEF AccountsTypes

LEMMA MakeCodesTyped ==
  ASSUME AccountsTypes, NEW r \in Requests, MakeCodes(r), UNCHANGED <<tokens, jwts, linkTokens, reviews>>
  PROVE  AccountsTypes'
<1>1. PICK h, u : h = req[r].todo[1] /\ u = h[2]
  OBVIOUS
<1>2. /\ req[r].todo # <<>> /\ h[1] = "makeCodes" /\ Shaped /\ Tables /\ PhonesDiffer /\ Cached
      /\ UNCHANGED <<cache, user, roles>> /\ Continue(r) /\ spent' = [spent EXCEPT ![u] = {}]
  BY <1>1 DEF MakeCodes, At, Arg, AccountsTypes
<1>3. spent' \in [Users -> SUBSET Codes]
  BY <1>2 DEF Tables
<1>4. Tables' /\ PhonesDiffer' /\ Growth
  BY <1>2, <1>3, NoGrowth DEF Tables, PhonesDiffer, Registered
<1>5. Shaped' /\ Cached'
  BY <1>1, <1>2, <1>4, ContinuesShaped, CacheStays
<1>6. QED
  BY <1>4, <1>5 DEF AccountsTypes

\* A row of a table changes but for what it is about, or is added.
LEMMA TokensGrow ==
  ASSUME Tables, UNCHANGED linkTokens,
         \/ \E i \in DOMAIN tokens : tokens' = [tokens EXCEPT ![i].revoked = TRUE]
         \/ \E u \in Users, l \in 1..Len(tokens) + 1 :
              tokens' = Append(tokens, [user |-> u, login |-> l, revoked |-> FALSE])
  PROVE  /\ Growth /\ tokens' \in Seq([user: Users, login: Nat \ {0}, revoked: BOOLEAN])
         /\ \A i \in DOMAIN tokens' : tokens'[i].login \in 1..i
<1> DEFINE Token == [user: Users, login: Nat \ {0}, revoked: BOOLEAN]
<1>1. /\ tokens \in Seq(Token) /\ Len(tokens) \in Nat /\ DOMAIN tokens = 1..Len(tokens)
      /\ \A i \in DOMAIN tokens : tokens[i].login \in 1..i
      /\ linkTokens \in Seq([user: Users, used: BOOLEAN]) /\ Len(linkTokens) \in Nat
  BY DEF Tables
<1>2. CASE \E i \in DOMAIN tokens : tokens' = [tokens EXCEPT ![i].revoked = TRUE]
  <2>1. PICK n \in DOMAIN tokens : tokens' = [tokens EXCEPT ![n].revoked = TRUE]
    BY <1>2
  <2>2. PICK f : f = tokens'
    OBVIOUS
  <2>3. /\ f = [j \in DOMAIN tokens |-> f[j]]
        /\ \A j \in DOMAIN tokens : f[j] \in Token /\ f[j].login = tokens[j].login /\ f[j].user = tokens[j].user
    <3>1. f = [tokens EXCEPT ![n] = [tokens[n] EXCEPT !.revoked = TRUE]]
      BY <2>1, <2>2
    <3>2. \A j \in DOMAIN tokens : tokens[j] \in Token
      <4> HIDE DEF Token
      <4>1. QED
        BY <1>1
    <3>3. /\ [tokens[n] EXCEPT !.revoked = TRUE] \in Token
          /\ [tokens[n] EXCEPT !.revoked = TRUE].login = tokens[n].login
          /\ [tokens[n] EXCEPT !.revoked = TRUE].user = tokens[n].user
      BY <3>2
    <3>4. QED
      BY <3>1, <3>2, <3>3
  <2>4. f \in Seq(Token) /\ Len(f) = Len(tokens) /\ DOMAIN f = DOMAIN tokens
    <3> HIDE DEF Token
    <3>1. \A j \in DOMAIN tokens : f[j] \in Token
      BY <2>3
    <3>2. QED
      BY <1>1, <2>3, <3>1, RowsChange
  <2>5. \A j \in DOMAIN f : f[j].login \in 1..j
    BY <1>1, <2>3, <2>4
  <2>6. QED
    <3> HIDE DEF Token
    <3>1. Len(tokens) \in Nat /\ Len(linkTokens) \in Nat
      BY <1>1
    <3>2. \A j \in DOMAIN tokens : f[j].login = tokens[j].login /\ f[j].user = tokens[j].user
      BY <2>3
    <3>3. DOMAIN tokens' = DOMAIN tokens /\ Len(tokens') = Len(tokens)
      BY <2>2, <2>4
    <3>4. Len(tokens') \in Nat /\ Len(tokens) <= Len(tokens')
      <4>1. PICK m : m = Len(tokens)
        OBVIOUS
      <4>2. m \in Nat /\ m <= m
        BY <3>1, <4>1
      <4>3. QED
        BY <3>3, <4>1, <4>2
    <3>5. \A j \in DOMAIN tokens : tokens'[j].login = tokens[j].login /\ tokens'[j].user = tokens[j].user
      BY <2>2, <3>2
    <3>6. /\ Len(linkTokens') \in Nat /\ Len(linkTokens) <= Len(linkTokens') /\ DOMAIN linkTokens \subseteq DOMAIN linkTokens'
          /\ \A j \in DOMAIN linkTokens : linkTokens'[j].user = linkTokens[j].user
      BY <3>1
    <3>7. DOMAIN tokens \subseteq DOMAIN tokens'
      BY <3>3
    <3>8. Growth
      BY <3>1, <3>5, <3>4, <3>6, <3>7, Zenon DEF Growth
    <3>9. tokens' \in Seq(Token) /\ \A j \in DOMAIN tokens' : tokens'[j].login \in 1..j
      BY <2>2, <2>4, <2>5
    <3>10. QED
      BY <3>8, <3>9 DEF Token
<1>3. CASE \E u \in Users, l \in 1..Len(tokens) + 1 :
             tokens' = Append(tokens, [user |-> u, login |-> l, revoked |-> FALSE])
  <2>1. PICK u \in Users, l \in 1..Len(tokens) + 1 :
               tokens' = Append(tokens, [user |-> u, login |-> l, revoked |-> FALSE])
    BY <1>3
  <2>2. PICK v : v = [user |-> u, login |-> l, revoked |-> FALSE]
    OBVIOUS
  <2>3. v \in Token /\ v.login = l
    BY <1>1, <2>2
  <2>4. PICK q : q = Append(tokens, v)
    OBVIOUS
  <2>5. /\ q \in Seq(Token) /\ Len(q) = Len(tokens) + 1 /\ DOMAIN q = DOMAIN tokens \cup {Len(tokens) + 1}
        /\ \A i \in DOMAIN tokens : q[i] = tokens[i]
        /\ q[Len(tokens) + 1] = v
    <3> HIDE DEF Token
    <3>1. QED
      BY <1>1, <2>3, <2>4, RowAdded
  <2>6. tokens' = q
    BY <2>1, <2>2, <2>4
  <2>7. \A i \in DOMAIN q : q[i].login \in 1..i
    BY <1>1, <2>3, <2>5
  <2>8. QED
    <3> HIDE DEF Token
    <3>1. Len(tokens) \in Nat /\ Len(linkTokens) \in Nat
      BY <1>1
    <3>2. Growth
      BY <2>5, <2>6, <3>1 DEF Growth
    <3>3. tokens' \in Seq(Token) /\ \A j \in DOMAIN tokens' : tokens'[j].login \in 1..j
      BY <2>5, <2>6, <2>7
    <3>4. QED
      BY <3>2, <3>3 DEF Token
<1>4. QED
  BY <1>2, <1>3

LEMMA LinkTokensGrow ==
  ASSUME Tables, UNCHANGED tokens,
         \/ \E i \in DOMAIN linkTokens : linkTokens' = [linkTokens EXCEPT ![i].used = TRUE]
         \/ \E u \in Users : linkTokens' = Append(linkTokens, [user |-> u, used |-> FALSE])
  PROVE  Growth /\ linkTokens' \in Seq([user: Users, used: BOOLEAN])
<1> DEFINE Token == [user: Users, used: BOOLEAN]
<1>1. /\ linkTokens \in Seq(Token) /\ Len(linkTokens) \in Nat /\ DOMAIN linkTokens = 1..Len(linkTokens)
      /\ tokens \in Seq([user: Users, login: Nat \ {0}, revoked: BOOLEAN]) /\ Len(tokens) \in Nat
  BY DEF Tables
<1>2. CASE \E i \in DOMAIN linkTokens : linkTokens' = [linkTokens EXCEPT ![i].used = TRUE]
  <2>1. PICK n \in DOMAIN linkTokens : linkTokens' = [linkTokens EXCEPT ![n].used = TRUE]
    BY <1>2
  <2>2. PICK f : f = linkTokens'
    OBVIOUS
  <2>3. /\ f = [j \in DOMAIN linkTokens |-> f[j]]
        /\ \A j \in DOMAIN linkTokens : f[j] \in Token /\ f[j].user = linkTokens[j].user
    <3>1. f = [linkTokens EXCEPT ![n] = [linkTokens[n] EXCEPT !.used = TRUE]]
      BY <2>1, <2>2
    <3>2. \A j \in DOMAIN linkTokens : linkTokens[j] \in Token
      <4> HIDE DEF Token
      <4>1. QED
        BY <1>1
    <3>3. /\ [linkTokens[n] EXCEPT !.used = TRUE] \in Token
          /\ [linkTokens[n] EXCEPT !.used = TRUE].user = linkTokens[n].user
      BY <3>2
    <3>4. QED
      BY <3>1, <3>2, <3>3
  <2>4. f \in Seq(Token) /\ Len(f) = Len(linkTokens) /\ DOMAIN f = DOMAIN linkTokens
    <3> HIDE DEF Token
    <3>1. \A j \in DOMAIN linkTokens : f[j] \in Token
      BY <2>3
    <3>2. QED
      BY <1>1, <2>3, <3>1, RowsChange
  <2>5. QED
    <3> HIDE DEF Token
    <3>1. Len(tokens) \in Nat /\ Len(linkTokens) \in Nat
      BY <1>1
    <3>2. \A j \in DOMAIN linkTokens : f[j].user = linkTokens[j].user
      BY <2>3
    <3>3. DOMAIN linkTokens' = DOMAIN linkTokens /\ Len(linkTokens') = Len(linkTokens)
      BY <2>2, <2>4
    <3>4. Len(linkTokens') \in Nat /\ Len(linkTokens) <= Len(linkTokens')
      <4>1. PICK m : m = Len(linkTokens)
        OBVIOUS
      <4>2. m \in Nat /\ m <= m
        BY <3>1, <4>1
      <4>3. QED
        BY <3>3, <4>1, <4>2
    <3>5. \A j \in DOMAIN linkTokens : linkTokens'[j].user = linkTokens[j].user
      BY <2>2, <3>2
    <3>6. /\ Len(tokens') \in Nat /\ Len(tokens) <= Len(tokens') /\ DOMAIN tokens \subseteq DOMAIN tokens'
          /\ \A j \in DOMAIN tokens : tokens'[j].login = tokens[j].login /\ tokens'[j].user = tokens[j].user
      BY <3>1
    <3>7. DOMAIN linkTokens \subseteq DOMAIN linkTokens'
      BY <3>3
    <3>8. Growth
      BY <3>1, <3>5, <3>4, <3>6, <3>7, Zenon DEF Growth
    <3>9. linkTokens' \in Seq(Token)
      BY <2>2, <2>4
    <3>10. QED
      BY <3>8, <3>9 DEF Token
<1>3. CASE \E u \in Users : linkTokens' = Append(linkTokens, [user |-> u, used |-> FALSE])
  <2>1. PICK u \in Users : linkTokens' = Append(linkTokens, [user |-> u, used |-> FALSE])
    BY <1>3
  <2>2. PICK v : v = [user |-> u, used |-> FALSE]
    OBVIOUS
  <2>3. v \in Token
    BY <2>2
  <2>4. PICK q : q = Append(linkTokens, v)
    OBVIOUS
  <2>5. /\ q \in Seq(Token) /\ Len(q) = Len(linkTokens) + 1
        /\ DOMAIN q = DOMAIN linkTokens \cup {Len(linkTokens) + 1}
        /\ \A i \in DOMAIN linkTokens : q[i] = linkTokens[i]
    <3> HIDE DEF Token
    <3>1. QED
      BY <1>1, <2>3, <2>4, RowAdded
  <2>6. linkTokens' = q
    BY <2>1, <2>2, <2>4
  <2>7. QED
    <3> HIDE DEF Token
    <3>1. Len(tokens) \in Nat /\ Len(linkTokens) \in Nat
      BY <1>1
    <3>2. Growth
      BY <2>5, <2>6, <3>1 DEF Growth
    <3>3. linkTokens' \in Seq(Token)
      BY <2>5, <2>6
    <3>4. QED
      BY <3>2, <3>3 DEF Token
<1>4. QED
  BY <1>2, <1>3

LEMMA TokensTyped ==
  ASSUME AccountsTypes, NEW r \in Requests, UNCHANGED <<linkTokens, reviews>>,
         Revoke(r) \/ SaveToken(r)
  PROVE  AccountsTypes'
<1>1. PICK h, A : h = req[r].todo[1] /\ A = req[r].about
  OBVIOUS
<1>2. /\ req[r].todo # <<>> /\ h[1] \in {"revoke", "saveToken"} /\ Shaped /\ Tables /\ PhonesDiffer /\ Cached
      /\ UNCHANGED <<cache, user, roles, spent, jwts>> /\ Continue(r)
      /\ \/ h[1] = "revoke" /\ tokens' = [tokens EXCEPT ![h[2]].revoked = TRUE]
         \/ /\ h[1] = "saveToken"
            /\ tokens' = Append(tokens, [user |-> h[2], revoked |-> FALSE,
                                         login |-> IF h[3] = 0 THEN Len(tokens) + 1 ELSE h[3]])
  BY <1>1 DEF Revoke, SaveToken, At, Arg, AccountsTypes
<1>3. StepOK(h)
  BY <1>1, <1>2, AtHand
<1>4. /\ h[1] = "revoke" => h[2] \in DOMAIN tokens
      /\ h[1] = "saveToken" => h[2] \in Users /\ h[3] \in 0..Len(tokens)
  BY <1>3 DEF StepOK, OfUser
<1>5. \/ \E i \in DOMAIN tokens : tokens' = [tokens EXCEPT ![i].revoked = TRUE]
      \/ \E u \in Users, l \in 1..Len(tokens) + 1 :
           tokens' = Append(tokens, [user |-> u, login |-> l, revoked |-> FALSE])
  <2>1. CASE h[1] = "revoke"
    BY <1>2, <1>4, <2>1
  <2>2. CASE h[1] = "saveToken"
    <3>1. PICK l : l = IF h[3] = 0 THEN Len(tokens) + 1 ELSE h[3]
      OBVIOUS
    <3>2. l \in 1..Len(tokens) + 1
      <4>1. Len(tokens) \in Nat
        BY <1>2 DEF Tables
      <4>2. QED
        BY <1>4, <2>2, <3>1, <4>1
    <3>3. tokens' = Append(tokens, [user |-> h[2], login |-> l, revoked |-> FALSE])
      BY <1>2, <2>2, <3>1
    <3>4. QED
      BY <1>4, <2>2, <3>2, <3>3
  <2>3. QED
    BY <1>2, <2>1, <2>2
<1>6. /\ Growth /\ tokens' \in Seq([user: Users, login: Nat \ {0}, revoked: BOOLEAN])
      /\ \A i \in DOMAIN tokens' : tokens'[i].login \in 1..i
  BY <1>2, <1>5, TokensGrow
<1>7. Tables' /\ PhonesDiffer'
  BY <1>2, <1>6 DEF Tables, PhonesDiffer, Registered
<1>8. Shaped' /\ Cached'
  BY <1>1, <1>2, <1>6, ContinuesShaped, CacheStays
<1>9. QED
  BY <1>7, <1>8 DEF AccountsTypes

LEMMA InsertTokenTyped ==
  ASSUME AccountsTypes, NEW r \in Requests, InsertToken(r), UNCHANGED <<spent, tokens, jwts, reviews>>
  PROVE  AccountsTypes'
<1>1. PICK h : h = req[r].todo[1]
  OBVIOUS
<1>2. /\ req[r].todo # <<>> /\ h[1] = "insertToken" /\ Shaped /\ Tables /\ PhonesDiffer /\ Cached
      /\ UNCHANGED <<cache, user, roles>> /\ Continue(r)
      /\ linkTokens' = Append(linkTokens, [user |-> h[2], used |-> FALSE])
  BY <1>1 DEF InsertToken, At, Arg, AccountsTypes
<1>3. StepOK(h)
  BY <1>1, <1>2, AtHand
<1>4. h[2] \in Users
  BY <1>2, <1>3 DEF StepOK, OfUser
<1>5. Growth /\ linkTokens' \in Seq([user: Users, used: BOOLEAN])
  BY <1>2, <1>4, LinkTokensGrow
<1>6. Tables' /\ PhonesDiffer'
  BY <1>2, <1>5 DEF Tables, PhonesDiffer, Registered
<1>7. Shaped' /\ Cached'
  BY <1>1, <1>2, <1>5, ContinuesShaped, CacheStays
<1>8. QED
  BY <1>6, <1>7 DEF AccountsTypes

-----------------------------------------------------------------------------
(* The steps that go on with other steps *)

\* A step that goes on with other steps first, and one that finds what else the request is about.
LEMMA CallsTurn ==
  ASSUME Shaped, Growth, NEW r \in Requests, req[r].todo # <<>>, req[r].todo[1][1] \in Calls,
         NEW more, Prefix(more, req[r].about), Do(r, more)
  PROVE  Shaped' /\ Turns(r)
<1>1. Whole(more, req[r].about)
  BY DEF Prefix
<1>2. Shaped' /\ Elsewhere(r) /\ UNCHANGED contended /\ req'[r].todo = more \o Tail(req[r].todo)
  BY <1>1, CallsShaped
<1>3. QED
  BY <1>1, <1>2, Turned

LEMMA FindsTurn ==
  ASSUME Shaped, Growth, NEW r \in Requests, req[r].todo # <<>>,
         req[r].todo[1][1] \in Calls \cap Final, NEW subjects, NEW more,
         Whole(more, req[r].about \cup subjects), DoAbout(r, subjects, more),
         \A x \in Steps(more) : ~Chained(x)
  PROVE  Shaped' /\ Turns(r)
<1>1. Shaped' /\ Elsewhere(r) /\ req'[r].todo = more /\ contended \subseteq contended'
  BY FindsShaped
<1>2. Tail(req[r].todo) = <<>> /\ more \o <<>> = more
  BY AtHand DEF Whole, Fit, Program
<1>3. QED
  BY <1>1, <1>2, Turned

LEMMA MatchCodeTyped ==
  ASSUME AccountsTypes, NEW r \in Requests, MatchCode(r), UNCHANGED <<tokens, jwts, linkTokens, reviews>>
  PROVE  AccountsTypes' /\ Turns(r)
<1>1. PICK h, u, c, known : h = req[r].todo[1] /\ u = h[2] /\ c = h[3] /\ known = req[r].got["profile"].codes
  OBVIOUS
<1>2. /\ req[r].todo # <<>> /\ h[1] = "matchCode" /\ Shaped /\ Tables /\ PhonesDiffer /\ Cached
      /\ UNCHANGED <<cache, user, roles>>
      /\ \/ Throw(r) /\ UNCHANGED spent
         \/ /\ c \in known /\ Do(r, Update(u, [codes |-> known \ {c}]))
            /\ spent' = [spent EXCEPT ![u] = spent[u] \cup {c}]
  BY <1>1 DEF MatchCode, At, Arg, Got, Do, AccountsTypes
<1>3. /\ StepOK(h) /\ Minds(h, req[r].about) /\ \A k \in UsersKeys : Uses(h, k) => k[1] \in DOMAIN req[r].got
      /\ \A kind \in DOMAIN req[r].got : ValueOK(kind, req[r].got[kind])
  BY <1>1, <1>2, AtHand
<1>4. u \in Users /\ u \in req[r].about /\ c \in Codes
  BY <1>1, <1>2, <1>3 DEF StepOK, OfUser, Minds
<1>5. known \subseteq Codes
  <2>1. ProfileKey(u) \in UsersKeys /\ Uses(h, ProfileKey(u)) /\ ProfileKey(u)[1] = "profile"
    BY <1>1, <1>2, <1>4 DEF ProfileKey, UsersKeys, Uses
  <2>2. Typed(req[r].got["profile"], Columns \ {"online"})
    BY <1>3, <2>1 DEF ValueOK
  <2>3. "codes" \in Columns \ {"online"} /\ ColumnType["codes"] = SUBSET Codes
    BY DEF Columns, ColumnType
  <2>4. req[r].got["profile"]["codes"] \in SUBSET Codes
    BY <2>2, <2>3 DEF Typed
  <2>5. QED
    BY <1>1, <2>4
<1>6. CASE Throw(r) /\ UNCHANGED spent
  BY <1>1, <1>2, <1>6, ChecksTyped DEF tables, Calls
<1>7. CASE /\ c \in known /\ Do(r, Update(u, [codes |-> known \ {c}]))
           /\ spent' = [spent EXCEPT ![u] = spent[u] \cup {c}]
  <2>1. spent' \in [Users -> SUBSET Codes]
    <3>1. spent \in [Users -> SUBSET Codes] /\ spent[u] \cup {c} \in SUBSET Codes
      BY <1>2, <1>4 DEF Tables
    <3>2. QED
      BY <1>7, <3>1
  <2>2. Tables' /\ PhonesDiffer' /\ Growth
    BY <1>2, <2>1, NoGrowth DEF Tables, PhonesDiffer, Registered
  <2>3. Prefix(Update(u, [codes |-> known \ {c}]), req[r].about)
    BY <1>4, <1>5, CodesPrefix
  <2>4. Shaped' /\ Cached' /\ Turns(r)
    <3>1. PICK more : more = Update(u, [codes |-> known \ {c}])
      OBVIOUS
    <3>2. Prefix(more, req[r].about) /\ Do(r, more)
      BY <1>7, <2>3, <3>1
    <3>3. h[1] \in Calls
      BY <1>2 DEF Calls
    <3>4. Shaped' /\ Turns(r)
      BY <1>1, <1>2, <2>2, <3>2, <3>3, CallsTurn
    <3>5. QED
      BY <1>2, <3>4, CacheStays
  <2>5. QED
    BY <2>2, <2>4 DEF AccountsTypes
<1>8. QED
  BY <1>2, <1>6, <1>7

\* The caller is known, and gets a token or tokens.
LEMMA FindByPhoneTyped ==
  ASSUME AccountsTypes, NEW r \in Requests, FindByPhone(r), UNCHANGED <<linkTokens, reviews>>
  PROVE  AccountsTypes' /\ Turns(r)
<1>1. PICK h, p : h = req[r].todo[1] /\ p = h[2]
  OBVIOUS
<1>2. /\ req[r].todo # <<>> /\ h[1] = "findByPhone" /\ Shaped /\ Tables /\ PhonesDiffer /\ Cached
      /\ UNCHANGED <<cache, user, roles, spent, tokens>>
      /\ \/ Throw(r) /\ UNCHANGED jwts
         \/ Continue(r) /\ jwts' = jwts \cup {<<"register", p>>}
         \/ \E u \in Owner(p) :
              \/ Continue(r) /\ jwts' = jwts \cup {<<"2fa", u>>}
              \/ DoAbout(r, {u}, IssueTokens(u, 0)) /\ UNCHANGED jwts
  <2>1. FindByPhone(r) /\ Shaped /\ Tables /\ PhonesDiffer /\ Cached
    BY DEF AccountsTypes
  <2>2. /\ req[r].todo # <<>> /\ h[1] = "findByPhone" /\ UNCHANGED <<cache, user, roles, spent, tokens>>
        /\ \/ /\ Owner(p) = {}
              /\ IF req[r].op = "login" THEN Throw(r) /\ UNCHANGED jwts
                 ELSE Continue(r) /\ jwts' = jwts \cup {<<"register", p>>}
           \/ \E u \in Owner(p) :
                IF user[u].twoFa THEN Continue(r) /\ jwts' = jwts \cup {<<"2fa", u>>}
                ELSE DoAbout(r, {u}, IssueTokens(u, 0)) /\ UNCHANGED jwts
    <3>1. p = Arg(r, 1) /\ req[r].todo # <<>> /\ h[1] = "findByPhone"
      BY <1>1, <2>1 DEF FindByPhone, At, Arg
    <3>2. QED
      BY <2>1, <3>1, Zenon DEF FindByPhone
  <2>3. QED
    BY <2>1, <2>2
<1>3. StepOK(h)
  BY <1>1, <1>2, AtHand
<1>4. p \in Phones /\ Owner(p) \subseteq Users
  BY <1>1, <1>2, <1>3 DEF StepOK, Owner, Registered
<1>5. jwts' \subseteq ({"register"} \X Phones) \cup ({"2fa"} \X Users)
  <2>1. jwts \subseteq ({"register"} \X Phones) \cup ({"2fa"} \X Users)
    BY <1>2 DEF Tables
  <2>2. CASE jwts' = jwts
    BY <2>1, <2>2
  <2>3. CASE jwts' = jwts \cup {<<"register", p>>}
    BY <1>4, <2>1, <2>3
  <2>4. CASE \E u \in Owner(p) : jwts' = jwts \cup {<<"2fa", u>>}
    BY <1>4, <2>1, <2>4
  <2>5. QED
    BY <1>2, <2>2, <2>3, <2>4
<1>6. Tables' /\ PhonesDiffer' /\ Growth
  BY <1>2, <1>5, NoGrowth DEF Tables, PhonesDiffer, Registered
<1>7. Shaped' /\ Turns(r)
  <2>0. h[1] \in Calls \cap Final
    BY <1>2 DEF Calls, Final
  <2>1. CASE Continue(r) \/ Throw(r)
    <3>1. /\ Shaped' /\ Elsewhere(r) /\ UNCHANGED contended
          /\ req'[r].todo \in {Tail(req[r].todo), <<>>}
      BY <1>1, <1>2, <1>6, <2>1, ContinuesShaped
    <3>2. QED
      BY <1>1, <1>2, <2>0, <3>1, Turned
  <2>2. CASE \E u \in Owner(p) : DoAbout(r, {u}, IssueTokens(u, 0))
    <3>1. PICK u \in Owner(p) : DoAbout(r, {u}, IssueTokens(u, 0))
      BY <2>2
    <3>2. 0 \in 0..Len(tokens)
      BY <1>2 DEF Tables
    <3>3. Opening(IssueTokens(u, 0), req[r].about \cup {u})
      BY <1>4, <3>2, IssueTokensWhole
    <3>4. PICK more, A : more = IssueTokens(u, 0) /\ A = req[r].about \cup {u}
      OBVIOUS
    <3>5. Whole(more, A) /\ DoAbout(r, {u}, more) /\ \A x \in Steps(more) : ~Chained(x)
      BY <3>1, <3>3, <3>4 DEF Opening, Chained
    <3>6. QED
      BY <1>1, <1>2, <1>6, <2>0, <3>4, <3>5, FindsTurn
  <2>3. QED
    BY <1>2, <2>1, <2>2
<1>8. Cached'
  BY <1>2, CacheStays
<1>9. QED
  BY <1>6, <1>7, <1>8 DEF AccountsTypes

\* A token is found, and is revoked before the tokens that follow it.
LEMMA FindRefreshTyped ==
  ASSUME AccountsTypes, NEW r \in Requests, FindRefresh(r), UNCHANGED <<linkTokens, reviews>>
  PROVE  AccountsTypes' /\ Turns(r)
<1>1. PICK h, i, A : h = req[r].todo[1] /\ i = h[2] /\ A = req[r].about
  OBVIOUS
<1>2. PICK rest, x : /\ rest = IF h[3] = "refresh" THEN IssueTokens(tokens[i].user, tokens[i].login) ELSE <<>>
                     /\ x = <<"revoke", i>>
  OBVIOUS
<1>3. /\ req[r].todo # <<>> /\ h[1] = "findRefresh" /\ Shaped
      /\ UNCHANGED cache /\ UNCHANGED tables
      /\ (Do(r, <<x>> \o rest) /\ ~tokens[i].revoked) \/ Throw(r)
  BY <1>1, <1>2 DEF FindRefresh, At, Arg, AccountsTypes, tables
<1>4. Tables /\ Tables' /\ PhonesDiffer' /\ Growth /\ Cached'
  BY <1>3, TablesStay, CacheStays DEF AccountsTypes
<1>5. CASE Throw(r)
  BY <1>1, <1>3, <1>5, ChecksTyped DEF Calls
<1>6. CASE Do(r, <<x>> \o rest) /\ ~tokens[i].revoked
  <2>1. StepOK(h) /\ Minds(h, A)
    BY <1>1, <1>3, AtHand
  <2>2. i \in DOMAIN tokens /\ Login(tokens[i].login) \in A /\ tokens[i].user \in A
    BY <1>1, <1>3, <2>1 DEF StepOK, Minds
  <2>3. tokens[i].user \in Users /\ tokens[i].login \in 0..Len(tokens)
    <3>1. /\ tokens \in Seq([user: Users, login: Nat \ {0}, revoked: BOOLEAN])
          /\ tokens[i].login \in 1..i
      BY <1>4, <2>2 DEF Tables
    <3>2. i \in 1..Len(tokens) /\ Len(tokens) \in Nat
      BY <2>2, <3>1
    <3>3. \A T : tokens \in Seq(T) => tokens[i] \in T
      BY <2>2
    <3>4. tokens[i] \in [user: Users, login: Nat \ {0}, revoked: BOOLEAN]
      BY <3>1, <3>3
    <3>5. QED
      BY <3>1, <3>2, <3>4
  <2>4. x[1] = "revoke" /\ x[2] = i
    BY <1>2
  <2>5. StepOK(x) /\ Minds(x, A)
    BY <2>2, <2>4 DEF StepOK, Minds, OfUser, Reads
  <2>6. Prefix(<<x>>, A)
    BY <2>4, <2>5, PrefixOne DEF Final
  <2>7. Whole(rest, A) /\ \A y \in Steps(rest) : y[1] = "saveToken" => y[3] = tokens[i].login
    <3>1. CASE h[3] = "refresh"
      <4>1. PICK u, l : u = tokens[i].user /\ l = tokens[i].login
        OBVIOUS
      <4>2. /\ Whole(IssueTokens(u, l), A)
            /\ \A y \in Steps(IssueTokens(u, l)) : y[1] = "saveToken" => y[3] = l
        BY <2>2, <2>3, <4>1, IssueTokensWhole
      <4>3. QED
        BY <1>2, <3>1, <4>1, <4>2
    <3>2. CASE h[3] # "refresh"
      BY <1>2, <3>2, WholeNone, NoProgram
    <3>3. QED
      BY <3>1, <3>2
  <2>8. Whole(<<x>> \o rest, A)
    BY <2>6, <2>7, WholeJoin DEF Prefix
  <2>9. Shaped' /\ Turns(r)
    <3>1. PICK more : more = <<x>> \o rest
      OBVIOUS
    <3>2. Whole(more, req[r].about) /\ Do(r, more)
      BY <1>1, <1>6, <2>8, <3>1
    <3>3. req[r].todo[1][1] \in Calls /\ req[r].todo[1][1] \in Final
      BY <1>1, <1>3 DEF Calls, Final
    <3>4. Shaped' /\ Elsewhere(r) /\ UNCHANGED contended /\ req'[r].todo = more \o Tail(req[r].todo)
      BY <1>3, <1>4, <3>2, <3>3, CallsShaped
    <3>5. Tail(req[r].todo) = <<>> /\ more \o <<>> = more
      BY <1>3, <3>2, <3>3, AtHand DEF Whole, Fit, Program
    <3>6. Closed(more) /\ req'[r].todo = more
      BY <3>2, <3>4, <3>5 DEF Whole
    <3>7. /\ more[1] = x /\ more # <<>> /\ Steps(more) = {x} \cup Steps(rest)
      <4>1. Program(<<x>>) /\ Program(rest) /\ Steps(<<x>>) = {x} /\ Len(<<x>>) = 1 /\ <<x>>[1] = x
        BY <2>7, ProgramOf1 DEF Whole, Fit
      <4>2. /\ Steps(more) = {x} \cup Steps(rest) /\ Len(more) = 1 + Len(rest) /\ Len(rest) \in Nat
            /\ Program(more) /\ \A j \in 1..1 + Len(rest) : more[j] = IF j <= 1 THEN <<x>>[j] ELSE rest[j - 1]
        BY <3>1, <4>1, ProgramJoin
      <4>3. 1 \in 1..1 + Len(rest) /\ more # <<>>
        BY <4>2
      <4>4. QED
        BY <4>1, <4>2, <4>3
    <3>8. Revokes(r, tokens[i].login)'
      <4>1. req'[r].todo = more /\ tokens' = tokens
        BY <1>3, <3>6 DEF tables
      <4>2. more # <<>> /\ more[1][1] = "revoke" /\ more[1][2] = i
        BY <2>4, <3>7
      <4>3. PICK l : l = tokens[i].login
        OBVIOUS
      <4>4. Revokes(r, l)'
        BY <1>6, <4>1, <4>2, <4>3 DEF Revokes, At, Arg
      <4>5. QED
        BY <4>1, <4>3, <4>4
    <3>9. Issuing(r)
      <4>1. PICK l : l = tokens[i].login /\ l = tokens'[i].login
        BY <1>3 DEF tables
      <4>2. Revokes(r, l)'
        BY <3>8, <4>1
      <4>3. \A y \in Steps(more) : Chained(y) => y[3] = l
        BY <2>4, <2>7, <3>7, <4>1 DEF Chained
      <4>4. Left(r)' = Steps(more)
        BY <3>6 DEF Left
      <4>5. \A y \in Left(r)' : Chained(y) => Revokes(r, y[3])'
        BY <4>2, <4>3, <4>4
      <4>6. QED
        BY <4>5 DEF Issuing
    <3>10. QED
      BY <3>4, <3>6, <3>9 DEF Turns
  <2>10. QED
    BY <1>4, <2>9 DEF AccountsTypes
<1>7. QED
  BY <1>3, <1>5, <1>6

LEMMA FindByTelegramIdTyped ==
  ASSUME AccountsTypes, NEW r \in Requests, FindByTelegramId(r), UNCHANGED <<spent, tokens, jwts, reviews>>
  PROVE  AccountsTypes' /\ Turns(r)
<1>1. PICK h, t, k, linked, A : /\ h = req[r].todo[1] /\ t = h[2] /\ k = h[3] /\ A = req[r].about
                                /\ linked = {u \in Registered : user[u].tg = t}
  OBVIOUS
<1>2. /\ req[r].todo # <<>> /\ h[1] = "findByTelegramId" /\ UNCHANGED cache /\ UNCHANGED tables
      /\ \E old \in IF linked = {} THEN {NoRow} ELSE linked :
           IF k = 0 THEN Continue(r) ELSE DoAbout(r, linked, <<<<"findToken", t, k, old>>>>)
  <2>1. req[r].todo # <<>> /\ h[1] = "findByTelegramId" /\ t = Arg(r, 1) /\ k = Arg(r, 2)
    BY <1>1 DEF FindByTelegramId, At, Arg
  <2>2. UNCHANGED <<cache, user, roles, linkTokens>>
    BY DEF FindByTelegramId
  <2>3. \E old \in IF linked = {} THEN {NoRow} ELSE linked :
          IF k = 0 THEN Continue(r) ELSE DoAbout(r, linked, <<<<"findToken", t, k, old>>>>)
    BY <1>1, <2>1, Zenon DEF FindByTelegramId
  <2>4. QED
    BY <2>1, <2>2, <2>3 DEF tables
<1>3. PICK old \in IF linked = {} THEN {NoRow} ELSE linked :
        IF k = 0 THEN Continue(r) ELSE DoAbout(r, linked, <<<<"findToken", t, k, old>>>>)
  BY <1>2
<1>4. Tables' /\ PhonesDiffer' /\ Growth /\ Cached' /\ Shaped
  BY <1>2, TablesStay, CacheStays DEF AccountsTypes
<1>5. CASE k = 0
  BY <1>1, <1>2, <1>3, <1>5, ChecksTyped DEF Calls
<1>6. CASE k # 0
  <2>1. PICK x : x = <<"findToken", t, k, old>>
    OBVIOUS
  <2>2. x[1] = "findToken" /\ x[2] = t /\ x[3] = k /\ x[4] = old /\ DoAbout(r, linked, <<x>>)
    BY <1>3, <1>6, <2>1
  <2>3. StepOK(h) /\ Minds(h, A)
    BY <1>1, <1>2, <1>4, AtHand
  <2>4. t \in Telegrams /\ k \in DOMAIN linkTokens /\ t \in A
    <3>1. t \in Telegrams /\ k \in 0..Len(linkTokens) /\ t \in A
      BY <1>1, <1>2, <2>3 DEF StepOK, Minds
    <3>2. Len(linkTokens) \in Nat /\ DOMAIN linkTokens = 1..Len(linkTokens)
      BY DEF AccountsTypes, Tables
    <3>3. QED
      BY <1>6, <3>1, <3>2
  <2>5. old \in Users \cup {NoRow} /\ (old # NoRow => old \in A \cup linked)
    BY <1>1, <1>3 DEF Registered
  <2>6. StepOK(x)
    BY <2>2, <2>4, <2>5 DEF StepOK, OfUser, Reads
  <2>7. Minds(x, A \cup linked)
    BY <2>2, <2>4, <2>5 DEF Minds, Reads
  <2>8. Whole(<<x>>, A \cup linked)
    BY <2>2, <2>6, <2>7, WholeOne
  <2>9. h[1] \in Calls \cap Final
    BY <1>2 DEF Calls, Final
  <2>10. Shaped' /\ Turns(r)
    <3>1. PICK more : more = <<x>>
      OBVIOUS
    <3>2. /\ Whole(more, req[r].about \cup linked) /\ DoAbout(r, linked, more)
          /\ \A y \in Steps(more) : ~Chained(y)
      BY <1>1, <2>2, <2>8, <3>1, ProgramOf1 DEF Chained
    <3>3. QED
      BY <1>1, <1>2, <1>4, <2>9, <3>2, FindsTurn
  <2>11. QED
    BY <1>4, <2>10 DEF AccountsTypes
<1>7. QED
  BY <1>5, <1>6

LEMMA FindTokenTyped ==
  ASSUME AccountsTypes, NEW r \in Requests, FindToken(r), UNCHANGED <<spent, tokens, jwts, reviews>>
  PROVE  AccountsTypes' /\ Turns(r)
<1>1. PICK h, t, k, A, x, u : /\ h = req[r].todo[1] /\ t = h[2] /\ k = h[3] /\ A = req[r].about
                              /\ x = <<"useToken", t, k, h[4]>> /\ u = linkTokens[k].user
  OBVIOUS
<1>2. /\ req[r].todo # <<>> /\ h[1] = "findToken" /\ UNCHANGED cache /\ UNCHANGED tables
      /\ Throw(r) \/ DoAbout(r, {u}, <<x>>)
  BY <1>1 DEF FindToken, At, Arg, tables
<1>3. Tables' /\ PhonesDiffer' /\ Growth /\ Cached' /\ Shaped
  BY <1>2, TablesStay, CacheStays DEF AccountsTypes
<1>4. CASE Throw(r)
  BY <1>1, <1>2, <1>4, ChecksTyped DEF Calls
<1>5. CASE DoAbout(r, {u}, <<x>>)
  <2>1. x[1] = "useToken" /\ x[2] = t /\ x[3] = k /\ x[4] = h[4]
    BY <1>1
  <2>2. StepOK(h) /\ Minds(h, A)
    BY <1>1, <1>2, <1>3, AtHand
  <2>3. /\ t \in Telegrams /\ t \in A /\ k \in DOMAIN linkTokens
        /\ h[4] \in Users \cup {NoRow} /\ (h[4] # NoRow => h[4] \in A)
    BY <1>1, <1>2, <2>2 DEF StepOK, Minds
  <2>4. StepOK(x)
    BY <2>1, <2>3 DEF StepOK, OfUser, Reads
  <2>5. Minds(x, A \cup {u})
    BY <1>1, <2>1, <2>3 DEF Minds, Reads
  <2>6. Whole(<<x>>, A \cup {u})
    BY <2>1, <2>4, <2>5, WholeOne
  <2>7. h[1] \in Calls \cap Final
    BY <1>2 DEF Calls, Final
  <2>8. Shaped' /\ Turns(r)
    <3>1. PICK more : more = <<x>>
      OBVIOUS
    <3>2. /\ Whole(more, req[r].about \cup {u}) /\ DoAbout(r, {u}, more)
          /\ \A y \in Steps(more) : ~Chained(y)
      BY <1>1, <1>5, <2>1, <2>6, <3>1, ProgramOf1 DEF Chained
    <3>3. QED
      BY <1>1, <1>2, <1>3, <2>7, <3>2, FindsTurn
  <2>9. QED
    BY <1>3, <2>8 DEF AccountsTypes
<1>6. QED
  BY <1>2, <1>4, <1>5

LEMMA UseTokenTyped ==
  ASSUME AccountsTypes, NEW r \in Requests, UseToken(r), UNCHANGED <<spent, tokens, jwts, reviews>>
  PROVE  AccountsTypes' /\ Turns(r)
<1>1. PICK h, t, k, A, more : /\ h = req[r].todo[1] /\ t = h[2] /\ k = h[3] /\ A = req[r].about
                              /\ more = Relink(linkTokens[k].user, t, h[4])
  OBVIOUS
<1>2. /\ req[r].todo # <<>> /\ h[1] = "useToken" /\ UNCHANGED <<cache, user, roles>> /\ Do(r, more)
      /\ linkTokens' = [linkTokens EXCEPT ![k].used = TRUE]
      /\ Shaped /\ Tables /\ PhonesDiffer /\ Cached
  <2>1. /\ req[r].todo # <<>> /\ h[1] = "useToken" /\ t = Arg(r, 1) /\ k = Arg(r, 2)
        /\ more = Relink(linkTokens[Arg(r, 2)].user, Arg(r, 1), Arg(r, 3))
    <3>1. At(r, "useToken")
      BY Zenon DEF UseToken
    <3>2. QED
      BY <1>1, <3>1 DEF At, Arg
  <2>2. /\ UNCHANGED <<cache, user, roles>> /\ Do(r, more)
        /\ linkTokens' = [linkTokens EXCEPT ![k].used = TRUE]
    BY <2>1, Zenon DEF UseToken
  <2>3. QED
    BY <2>1, <2>2 DEF AccountsTypes
<1>3. StepOK(h) /\ Minds(h, A)
  BY <1>1, <1>2, AtHand
<1>4. /\ t \in Telegrams /\ t \in A /\ k \in DOMAIN linkTokens /\ linkTokens[k].user \in A
      /\ h[4] \in Users \cup {NoRow} /\ (h[4] # NoRow => h[4] \in A)
  BY <1>1, <1>2, <1>3 DEF StepOK, Minds
<1>5. linkTokens[k].user \in Users
  <2>1. linkTokens \in Seq([user: Users, used: BOOLEAN])
    BY <1>2 DEF Tables
  <2>2. \A T : linkTokens \in Seq(T) => linkTokens[k] \in T
    BY <1>4
  <2>3. linkTokens[k] \in [user: Users, used: BOOLEAN]
    BY <2>1, <2>2
  <2>4. QED
    BY <2>3
<1>6. Prefix(more, A)
  <2>1. PICK u, old : u = linkTokens[k].user /\ old = h[4]
    OBVIOUS
  <2>2. Prefix(Relink(u, t, old), A)
    BY <1>4, <1>5, <2>1, RelinkPrefix
  <2>3. QED
    BY <1>1, <2>1, <2>2
<1>7. Growth /\ linkTokens' \in Seq([user: Users, used: BOOLEAN])
  BY <1>2, <1>4, LinkTokensGrow
<1>8. Tables' /\ PhonesDiffer'
  BY <1>2, <1>7 DEF Tables, PhonesDiffer, Registered
<1>9. Shaped' /\ Cached' /\ Turns(r)
  <2>1. req[r].todo[1][1] \in Calls /\ Whole(more, req[r].about) /\ Prefix(more, req[r].about)
    BY <1>1, <1>2, <1>6 DEF Calls, Prefix
  <2>2. QED
    BY <1>2, <1>7, <2>1, CallsTurn, CacheStays
<1>10. QED
  BY <1>8, <1>9 DEF AccountsTypes

LEMMA InsertReviewTyped ==
  ASSUME AccountsTypes, NEW r \in Requests, InsertReview(r), UNCHANGED <<spent, tokens, jwts, linkTokens>>
  PROVE  AccountsTypes' /\ Turns(r)
<1>1. PICK h, b, by, A, x : /\ h = req[r].todo[1] /\ b = h[2] /\ by = h[3] /\ A = req[r].about
                            /\ x = <<"rate", Target(b, by), Role(b, by)>>
  OBVIOUS
<1>2. /\ req[r].todo # <<>> /\ h[1] = "insertReview" /\ UNCHANGED <<cache, user, roles>>
      /\ Do(r, <<x>> \o Publish(b, by)) /\ reviews' = Append(reviews, Review(b, by, h[4]))
      /\ Shaped /\ Tables /\ PhonesDiffer /\ Cached
  BY <1>1 DEF InsertReview, At, Arg, AccountsTypes
<1>3. StepOK(h) /\ Minds(h, A)
  BY <1>1, <1>2, AtHand
<1>4. b \in Bookings /\ by \in Users /\ h[4] \in Ratings /\ Target(b, by) \in A
  BY <1>1, <1>2, <1>3 DEF StepOK, Minds
<1>5. reviews' \in Seq([booking: Bookings, by: Users, rating: Ratings])
  <2>1. PICK T, v : T = [booking: Bookings, by: Users, rating: Ratings] /\ v = Review(b, by, h[4])
    OBVIOUS
  <2>2. v \in T
    BY <1>4, <2>1 DEF Review
  <2>3. reviews \in Seq(T)
    BY <1>2, <2>1 DEF Tables
  <2>4. Append(reviews, v) \in Seq(T)
    BY <2>2, <2>3
  <2>5. QED
    BY <1>2, <2>1, <2>4
<1>6. Tables' /\ PhonesDiffer' /\ Growth
  BY <1>2, <1>5, NoGrowth DEF Tables, PhonesDiffer, Registered
<1>7. Prefix(<<x>> \o Publish(b, by), A)
  <2>1. Target(b, by) \in Users /\ Role(b, by) \in BothRoles
    BY <1>4, ReviewsAssumption DEF Target, Role, BothRoles
  <2>2. x[1] = "rate" /\ x[2] = Target(b, by) /\ x[3] = Role(b, by)
    BY <1>1
  <2>3. StepOK(x) /\ Minds(x, A)
    BY <1>4, <2>1, <2>2 DEF StepOK, Minds, OfUser, Reads
  <2>4. Prefix(<<x>>, A)
    BY <2>2, <2>3, PrefixOne DEF Final
  <2>5. Prefix(Publish(b, by), A)
    BY <1>4, PublishPrefix
  <2>6. QED
    BY <2>4, <2>5, PrefixJoin
<1>8. Shaped' /\ Cached' /\ Turns(r)
  <2>1. PICK more : more = <<x>> \o Publish(b, by)
    OBVIOUS
  <2>2. Prefix(more, req[r].about) /\ Do(r, more)
    BY <1>1, <1>2, <1>7, <2>1
  <2>3. req[r].todo[1][1] \in Calls
    BY <1>1, <1>2 DEF Calls
  <2>4. QED
    BY <1>2, <1>6, <2>2, <2>3, CallsTurn, CacheStays
<1>9. QED
  BY <1>6, <1>8 DEF AccountsTypes

\* The sum and the number of ratings.
LEMMA RatingTyped ==
  ASSUME Tables, NEW u, NEW role
  PROVE  RatingOf(u, role) \in Nat \X Nat
<1>1. PICK S, f : S = About(u, role) /\ f = [i \in DOMAIN reviews |-> reviews[i].rating]
  OBVIOUS
<1>2. reviews \in Seq([booking: Bookings, by: Users, rating: Ratings]) /\ Ratings \subseteq 1..5
  BY ReviewsAssumption DEF Tables
<1>3. Len(reviews) \in Nat /\ DOMAIN reviews = 1..Len(reviews) /\ S \subseteq DOMAIN reviews
  BY <1>1, <1>2 DEF About
<1>4. IsFiniteSet(1..Len(reviews))
  BY <1>3, FS_Interval
<1>5. IsFiniteSet(S) /\ Cardinality(S) \in Nat
  BY <1>3, <1>4, FS_Subset, FS_CardinalityType
<1>6. \A i \in S : f[i] \in Nat
  <2>1. \A T : reviews \in Seq(T) => \A i \in DOMAIN reviews : reviews[i] \in T
    OBVIOUS
  <2>2. \A i \in DOMAIN reviews : reviews[i] \in [booking: Bookings, by: Users, rating: Ratings]
    BY <1>2, <2>1
  <2>3. \A i \in DOMAIN reviews : reviews[i].rating \in Ratings
    BY <2>2
  <2>4. \A i \in DOMAIN f : f[i] \in Ratings
    BY <1>1, <2>3
  <2>5. DOMAIN f = DOMAIN reviews /\ \A n \in Ratings : n \in Nat
    BY <1>1, <1>2
  <2>6. QED
    BY <1>3, <2>4, <2>5
<1>7. SumFunctionOnSet(f, S) \in Nat
  BY <1>5, <1>6, SumOfNaturals
<1>8. SumOfRatings(S) = SumFunctionOnSet(f, S) /\ RatingOf(u, role) = <<SumOfRatings(S), Cardinality(S)>>
  <2>1. SumOfRatings(S) = SumFunctionOnSet(f, S)
    BY <1>1 DEF SumOfRatings
  <2>2. RatingOf(u, role) = <<SumOfRatings(S), Cardinality(S)>>
    BY <1>1 DEF RatingOf
  <2>3. QED
    BY <2>1, <2>2
<1>9. QED
  BY <1>5, <1>7, <1>8

LEMMA RateTyped ==
  ASSUME AccountsTypes, NEW r \in Requests, Rate(r), UNCHANGED <<spent, tokens, jwts, linkTokens>>
  PROVE  AccountsTypes' /\ Turns(r)
<1>1. PICK h, u, A, rating, patch, more :
        /\ h = req[r].todo[1] /\ u = h[2] /\ A = req[r].about /\ rating = RatingOf(u, h[3])
        /\ patch = IF h[3] = "LANDLORD" THEN [asLandlord |-> rating] ELSE [asRenter |-> rating]
        /\ more = IF rating[2] = 0 THEN <<>> ELSE Update(u, patch)
  OBVIOUS
<1>2. /\ req[r].todo # <<>> /\ h[1] = "rate" /\ UNCHANGED cache /\ UNCHANGED tables /\ Do(r, more)
  <2>1. /\ req[r].todo # <<>> /\ h[1] = "rate" /\ u = Arg(r, 1) /\ h[3] = Arg(r, 2)
        /\ UNCHANGED cache /\ UNCHANGED tables
    BY <1>1 DEF Rate, At, Arg, tables
  <2>2. Do(r, IF rating[2] = 0 THEN <<>>
              ELSE Update(u, IF h[3] = "LANDLORD" THEN [asLandlord |-> rating] ELSE [asRenter |-> rating]))
    BY <1>1, <2>1, Zenon DEF Rate
  <2>3. QED
    BY <1>1, <2>1, <2>2
<1>3. Tables /\ Tables' /\ PhonesDiffer' /\ Growth /\ Cached' /\ Shaped
  BY <1>2, TablesStay, CacheStays DEF AccountsTypes
<1>4. StepOK(h) /\ Minds(h, A)
  BY <1>1, <1>2, <1>3, AtHand
<1>5. u \in Users /\ u \in A
  BY <1>1, <1>2, <1>4 DEF StepOK, OfUser, Minds
<1>6. rating \in Nat \X Nat
  BY <1>1, <1>3, RatingTyped
<1>7. PatchOK(patch, Saved) /\ "tg" \notin DOMAIN patch
  <2>1. CASE h[3] = "LANDLORD"
    <3>1. patch = [asLandlord |-> rating]
      BY <1>1, <2>1
    <3>2. QED
      BY <1>6, <3>1 DEF PatchOK, Typed, Saved, Columns, ColumnType
  <2>2. CASE h[3] # "LANDLORD"
    <3>1. patch = [asRenter |-> rating]
      BY <1>1, <2>2
    <3>2. QED
      BY <1>6, <3>1 DEF PatchOK, Typed, Saved, Columns, ColumnType
  <2>3. QED
    BY <2>1, <2>2
<1>8. Prefix(more, A)
  <2>1. Prefix(Update(u, patch), A)
    BY <1>5, <1>7, UpdatePrefix
  <2>2. Prefix(<<>>, A)
    BY WholeNone, NoProgram DEF Prefix
  <2>3. QED
    BY <1>1, <2>1, <2>2
<1>9. Shaped' /\ Turns(r)
  <2>1. req[r].todo[1][1] \in Calls /\ Prefix(more, req[r].about)
    BY <1>1, <1>2, <1>8 DEF Calls
  <2>2. QED
    BY <1>2, <1>3, <2>1, CallsTurn
<1>10. QED
  BY <1>3, <1>9 DEF AccountsTypes

-----------------------------------------------------------------------------
(* Requests that arrive *)

\* A request arrives with a program that relies on nothing but the id of a user to come, and continues no login.
Arrival(r) ==
  \E op, about, program :
    /\ Begin(r, op, about, program) /\ Fit(program, about)
    /\ \A x \in Steps(program) : x[1] = "saveToken" => x[3] = 0
    /\ \A k \in Facts : Needs(program, k) => \E u \in about \cap (Users \ Registered) :
                                               k = <<"absent", u>> /\ Quiet(u)

LEMMA OpeningArrives ==
  ASSUME NEW r, NEW op, NEW about, NEW program, Begin(r, op, about, program), Opening(program, about)
  PROVE  Arrival(r)
BY DEF Arrival, Opening, Whole, Closed

LEMMA UsersArrive == ASSUME NEW r, BeginUsers(r) PROVE Arrival(r)
<1>1. PICK u \in Users :
        \/ Begin(r, "getMyProfile", {u}, Validate(u) \o FindById(u))
        \/ Begin(r, "findOne", {u}, FindOne(u))
        \/ \E p \in Phones : Begin(r, "update", {u, p}, Update(u, [phone |-> p]))
        \/ \E b \in BOOLEAN : Begin(r, "ban", {u}, UpdateBanStatus(u, b))
        \/ Begin(r, "verify", {u}, UpdateVerifiedStatus(u, TRUE))
        \/ \E b \in BOOLEAN : Begin(r, "online", {u}, UpdateOnlineStatus(u, b))
  BY Zenon DEF BeginUsers
<1>2. ASSUME NEW A, u \in A
      PROVE  /\ Opening(Validate(u) \o FindById(u), A)
             /\ Opening(FindOne(u), A)
             /\ \A p \in Phones : Opening(Update(u, [phone |-> p]), A)
             /\ \A b \in BOOLEAN : /\ Opening(UpdateBanStatus(u, b), A)
                                   /\ Opening(UpdateVerifiedStatus(u, b), A)
                                   /\ Opening(UpdateOnlineStatus(u, b), A)
  BY <1>2, UsersPrograms
<1>3. TRUE \in BOOLEAN /\ u \in {u} /\ \A p : u \in {u, p}
  OBVIOUS
<1>4. CASE Begin(r, "getMyProfile", {u}, Validate(u) \o FindById(u))
  BY <1>2, <1>3, <1>4, OpeningArrives, Zenon
<1>5. CASE Begin(r, "findOne", {u}, FindOne(u))
  BY <1>2, <1>3, <1>5, OpeningArrives, Zenon
<1>6. CASE \E p \in Phones : Begin(r, "update", {u, p}, Update(u, [phone |-> p]))
  BY <1>2, <1>3, <1>6, OpeningArrives, Zenon
<1>7. CASE \E b \in BOOLEAN : Begin(r, "ban", {u}, UpdateBanStatus(u, b))
  BY <1>2, <1>3, <1>7, OpeningArrives, Zenon
<1>8. CASE Begin(r, "verify", {u}, UpdateVerifiedStatus(u, TRUE))
  BY <1>2, <1>3, <1>8, OpeningArrives, Zenon
<1>9. CASE \E b \in BOOLEAN : Begin(r, "online", {u}, UpdateOnlineStatus(u, b))
  BY <1>2, <1>3, <1>9, OpeningArrives, Zenon
<1>10. QED
  BY <1>1, <1>4, <1>5, <1>6, <1>7, <1>8, <1>9

LEMMA TwoFactorArrive == ASSUME NEW r, BeginTwoFactor(r) PROVE Arrival(r)
<1>1. PICK u \in Registered :
        \/ Begin(r, "generate", {u}, GenerateSecret(u))
        \/ Begin(r, "enable", {u}, EnableTwoFactor(u))
        \/ Begin(r, "disable", {u}, DisableTwoFactor(u))
        \/ Begin(r, "disable", {u}, DisableWithTotp(u))
        \/ \E c \in Codes : Begin(r, "disable", {u}, DisableWithRecovery(u, c))
  BY Zenon DEF BeginTwoFactor
<1>2. /\ Opening(GenerateSecret(u), {u}) /\ Opening(EnableTwoFactor(u), {u})
      /\ Opening(DisableTwoFactor(u), {u}) /\ Opening(DisableWithTotp(u), {u})
      /\ \A c \in Codes : Opening(DisableWithRecovery(u, c), {u})
  <2>1. u \in Users /\ u \in {u}
    BY DEF Registered
  <2>2. QED
    BY <2>1, TwoFactorPrograms
<1>3. QED
  BY <1>1, <1>2, OpeningArrives, Zenon

LEMMA TelegramArrive == ASSUME NEW r, BeginTelegram(r) PROVE Arrival(r)
<1>1. \/ \E u \in Registered : \/ Begin(r, "link", {u}, GenerateTelegramLink(u))
                               \/ Begin(r, "unlink", {u}, Unlink(u))
      \/ \E t \in Telegrams, k \in 0..Len(linkTokens) : Begin(r, "start", {t}, HandleStart(t, k))
  BY Zenon DEF BeginTelegram
<1>2. ASSUME NEW u \in Registered
      PROVE  Opening(GenerateTelegramLink(u), {u}) /\ Opening(Unlink(u), {u})
  <2>1. u \in {u} \cap Users
    BY <1>2 DEF Registered
  <2>2. QED
    BY <2>1, TelegramPrograms
<1>3. ASSUME NEW t \in Telegrams, NEW k \in 0..Len(linkTokens) PROVE Opening(HandleStart(t, k), {t})
  <2>1. t \in {t} \cap Telegrams
    BY <1>3
  <2>2. QED
    BY <2>1, TelegramPrograms
<1>4. QED
  BY <1>1, <1>2, <1>3, OpeningArrives, Zenon

LEMMA ReviewsArrive == ASSUME NEW r, BeginReviews(r) PROVE Arrival(r)
<1>1. \/ \E b \in Bookings, by \in Users, rating \in Ratings :
           Begin(r, "review", {b.renter, b.landlord}, CreateReview(b, by, rating))
      \/ \E u \in Registered :
           \/ \E role \in PageRoles : Begin(r, "reviewsOfUser", {u}, GetOrSet(UserPage(u, role)))
           \/ Begin(r, "reviewsOfListing", {u}, GetOrSet(ListingPage(u)))
  BY Zenon DEF BeginReviews
<1>2. ASSUME NEW b \in Bookings, NEW by \in Users, NEW rating \in Ratings
      PROVE  Opening(CreateReview(b, by, rating), {b.renter, b.landlord})
  <2>1. PICK A : A = {b.renter, b.landlord}
    OBVIOUS
  <2>2. Target(b, by) \in A
    BY <2>1 DEF Target
  <2>3. Opening(CreateReview(b, by, rating), A)
    BY <1>2, <2>2, ReviewsPrograms
  <2>4. QED
    BY <2>1, <2>3
<1>3. ASSUME NEW u \in Registered
      PROVE  /\ \A role \in PageRoles : Opening(GetOrSet(UserPage(u, role)), {u})
             /\ Opening(GetOrSet(ListingPage(u)), {u})
  <2>1. u \in {u} \cap Users
    BY <1>3 DEF Registered
  <2>2. QED
    BY <2>1, ReviewsPrograms
<1>4. QED
  BY <1>1, <1>2, <1>3, OpeningArrives, Zenon

LEMMA SessionsArrive == ASSUME Tables, NEW r, BeginSessions(r) PROVE Arrival(r)
<1>1. 0 \in 0..Len(tokens)
  BY DEF Tables
<1>2. ASSUME NEW p \in Phones, NEW op, NEW program,
             Begin(r, op, {p}, program),
             program \in {RequestFlashCall(p), LoginByPassword(p)}
               \/ \E digits : program = VerifyFlashCall(p, digits)
      PROVE  Arrival(r)
  <2>1. p \in {p} \cap Phones
    BY <1>2
  <2>2. Opening(program, {p})
    BY <1>2, <2>1, SessionsPrograms
  <2>3. QED
    BY <1>2, <2>2, OpeningArrives
<1>3. ASSUME NEW p \in Phones, NEW u \in Users \ Registered, Quiet(u),
             Begin(r, "register", {p, u}, CompleteRegistration(u, p))
      PROVE  Arrival(r)
  <2>1. PICK A : A = {p, u}
    OBVIOUS
  <2>2. u \in A /\ u \in Users
    BY <1>3, <2>1
  <2>3. /\ Fit(CompleteRegistration(u, p), A)
        /\ \A k \in Facts : Needs(CompleteRegistration(u, p), k) => k = <<"absent", u>>
        /\ \A x \in Steps(CompleteRegistration(u, p)) : x[1] = "saveToken" => x[3] = 0
    BY <1>1, <2>2, RegistrationFit
  <2>4. Begin(r, "register", A, CompleteRegistration(u, p))
    BY <1>3, <2>1
  <2>5. u \in A \cap (Users \ Registered)
    BY <1>3, <2>2
  <2>6. QED
    BY <1>3, <2>3, <2>4, <2>5, Zenon DEF Arrival
<1>4. ASSUME NEW i \in DOMAIN tokens, NEW op,
             Begin(r, op, {tokens[i].user, Login(tokens[i].login)},
                   IF op = "refresh" THEN Refresh(i) ELSE Logout(i))
      PROVE  Arrival(r)
  <2>1. PICK A : A = {tokens[i].user, Login(tokens[i].login)}
    OBVIOUS
  <2>2. tokens[i].user \in A /\ Login(tokens[i].login) \in A
    BY <2>1
  <2>3. Opening(Refresh(i), A) /\ Opening(Logout(i), A)
    BY <1>4, <2>2, SessionsPrograms
  <2>4. PICK program : program = IF op = "refresh" THEN Refresh(i) ELSE Logout(i)
    OBVIOUS
  <2>5. Begin(r, op, A, program) /\ Opening(program, A)
    BY <1>4, <2>1, <2>3, <2>4
  <2>6. QED
    BY <2>5, OpeningArrives
<1>5. ASSUME NEW u \in Registered, NEW op, NEW program, Begin(r, op, {u}, program),
             program = VerifyTotp(u) \/ \E c \in Codes : program = VerifyRecovery(u, c)
      PROVE  Arrival(r)
  <2>1. u \in {u} \cap Users
    BY <1>5 DEF Registered
  <2>2. Opening(program, {u})
    BY <1>1, <1>5, <2>1, SessionsPrograms
  <2>3. QED
    BY <1>5, <2>2, OpeningArrives
<1>6. CASE \E p \in Phones :
             \/ Begin(r, "requestFlashCall", {p}, RequestFlashCall(p))
             \/ \E digits \in {"digits", "0000", "other"} :
                  Begin(r, "verifyFlashCall", {p}, VerifyFlashCall(p, digits))
             \/ Begin(r, "login", {p}, LoginByPassword(p))
             \/ \E u \in Users \ Registered : /\ Quiet(u)
                  /\ Begin(r, "register", {p, u}, CompleteRegistration(u, p))
  <2>1. PICK p \in Phones :
             \/ Begin(r, "requestFlashCall", {p}, RequestFlashCall(p))
             \/ \E digits \in {"digits", "0000", "other"} :
                  Begin(r, "verifyFlashCall", {p}, VerifyFlashCall(p, digits))
             \/ Begin(r, "login", {p}, LoginByPassword(p))
             \/ \E u \in Users \ Registered : /\ Quiet(u)
                  /\ Begin(r, "register", {p, u}, CompleteRegistration(u, p))
    BY <1>6
  <2>2. RequestFlashCall(p) \in {RequestFlashCall(p), LoginByPassword(p)}
          /\ LoginByPassword(p) \in {RequestFlashCall(p), LoginByPassword(p)}
    OBVIOUS
  <2>3. CASE Begin(r, "requestFlashCall", {p}, RequestFlashCall(p))
    BY <1>2, <2>2, <2>3, Zenon
  <2>4. CASE \E digits \in {"digits", "0000", "other"} :
               Begin(r, "verifyFlashCall", {p}, VerifyFlashCall(p, digits))
    BY <1>2, <2>4, Zenon
  <2>5. CASE Begin(r, "login", {p}, LoginByPassword(p))
    BY <1>2, <2>2, <2>5, Zenon
  <2>6. CASE \E u \in Users \ Registered : /\ Quiet(u)
                  /\ Begin(r, "register", {p, u}, CompleteRegistration(u, p))
    BY <1>3, <2>6, Zenon
  <2>7. QED
    BY <2>1, <2>3, <2>4, <2>5, <2>6
<1>7. CASE \E i \in DOMAIN tokens : \E op \in {"refresh", "logout"} :
             Begin(r, op, {tokens[i].user, Login(tokens[i].login)},
                   IF op = "refresh" THEN Refresh(i) ELSE Logout(i))
  BY <1>4, <1>7, Zenon
<1>8. CASE \E u \in Registered :
             \/ Begin(r, "verify2fa", {u}, VerifyTotp(u))
             \/ \E c \in Codes : Begin(r, "verify2fa", {u}, VerifyRecovery(u, c))
  BY <1>5, <1>8, Zenon
<1>9. QED
  BY <1>6, <1>7, <1>8, Zenon DEF BeginSessions

\* Nothing but a request arrives.
LEMMA Arrives ==
  ASSUME Tables, NEW r, Arrive(r)
  PROVE  Arrival(r) /\ UNCHANGED cache /\ UNCHANGED tables
<1>1. CASE BeginUsers(r) /\ UNCHANGED <<spent, tokens, jwts, linkTokens, reviews>>
  <2>1. UNCHANGED <<cache, user, roles>>
    BY <1>1, Zenon DEF BeginUsers
  <2>2. QED
    BY <1>1, <2>1, UsersArrive DEF tables
<1>2. CASE BeginTwoFactor(r) /\ UNCHANGED <<tokens, jwts, linkTokens, reviews>>
  <2>1. UNCHANGED <<cache, user, roles, spent>>
    BY <1>2, Zenon DEF BeginTwoFactor
  <2>2. QED
    BY <1>2, <2>1, TwoFactorArrive DEF tables
<1>3. CASE BeginSessions(r) /\ UNCHANGED <<linkTokens, reviews>>
  <2>1. UNCHANGED <<cache, user, roles, spent, tokens, jwts>>
    BY <1>3, Zenon DEF BeginSessions
  <2>2. QED
    BY <1>3, <2>1, SessionsArrive DEF tables
<1>4. CASE BeginTelegram(r) /\ UNCHANGED <<spent, tokens, jwts, reviews>>
  <2>1. UNCHANGED <<cache, user, roles, linkTokens>>
    BY <1>4, Zenon DEF BeginTelegram
  <2>2. QED
    BY <1>4, <2>1, TelegramArrive DEF tables
<1>5. CASE BeginReviews(r) /\ UNCHANGED <<spent, tokens, jwts, linkTokens>>
  <2>1. UNCHANGED <<cache, user, roles, reviews>>
    BY <1>5, Zenon DEF BeginReviews
  <2>2. QED
    BY <1>5, <2>1, ReviewsArrive DEF tables
<1>6. QED
  BY <1>1, <1>2, <1>3, <1>4, <1>5, Zenon DEF Arrive

LEMMA ArriveTyped ==
  ASSUME AccountsTypes, NEW r \in Requests, Arrive(r)
  PROVE  AccountsTypes'
<1>1. Tables' /\ PhonesDiffer' /\ Growth
  <2>1. UNCHANGED tables
    BY Arrives DEF AccountsTypes
  <2>2. QED
    BY <2>1, TablesStay
<1>2. Cached'
  <2>1. UNCHANGED cache
    BY Arrives DEF AccountsTypes
  <2>2. QED
    BY <2>1, CacheStays DEF AccountsTypes
<1>3. Arrival(r)
  BY Arrives DEF AccountsTypes
<1>4. PICK op, about, program :
        /\ Begin(r, op, about, program) /\ Fit(program, about)
        /\ \A k \in Facts : Needs(program, k) => \E u \in about \cap (Users \ Registered) :
                                                   k = <<"absent", u>> /\ Quiet(u)
  BY <1>3, Zenon DEF Arrival
<1>5. \A k \in UsersKeys : k \in Facts /\ \A u : k # <<"absent", u>>
  BY DEF UsersKeys, Facts
<1>6. \A k \in UsersKeys : ~Needs(program, k)
  BY <1>4, <1>5, Zenon
<1>7. Shaped'
  BY <1>1, <1>4, <1>6, BeginsShaped DEF AccountsTypes
<1>8. QED
  BY <1>1, <1>2, <1>7 DEF AccountsTypes

LEMMA FaultTyped ==
  ASSUME AccountsTypes, NEW r \in Requests, UsersFault(r),
         UNCHANGED <<spent, tokens, jwts, linkTokens, reviews>>
  PROVE  AccountsTypes'
<1>1. Fault(r) /\ UNCHANGED cache /\ UNCHANGED tables
  BY DEF UsersFault, tables
<1>2. Tables' /\ PhonesDiffer' /\ Growth
  BY <1>1, TablesStay
<1>3. QED
  BY <1>1, <1>2, FaultShaped, CacheStays DEF AccountsTypes

LEMMA ForgetTyped ==
  ASSUME AccountsTypes, Forget
  PROVE  AccountsTypes'
<1>1. UNCHANGED handlerVars /\ UNCHANGED tables /\ \E S : cache' = Without(cache, S)
  BY DEF Forget, UsersExpire, Expire, tables
<1>2. Tables' /\ PhonesDiffer' /\ Growth
  BY <1>1, TablesStay
<1>3. QED
  BY <1>1, <1>2, StaysShaped, CacheStays DEF AccountsTypes

LEMMA StutterTyped ==
  ASSUME AccountsTypes, UNCHANGED vars
  PROVE  AccountsTypes'
<1>1. UNCHANGED handlerVars /\ UNCHANGED tables /\ UNCHANGED cache
  BY DEF vars, handlerVars, tables
<1>2. Tables' /\ PhonesDiffer' /\ Growth
  BY <1>1, TablesStay
<1>3. QED
  BY <1>1, <1>2, StaysShaped, CacheStays DEF AccountsTypes

LEMMA InitTyped == ASSUME Init PROVE AccountsTypes
<1>1. /\ mix \in Mixes /\ calls = 0 /\ faults = 0 /\ contended = {} /\ cache = <<>>
      /\ user = mix.tables.users /\ roles = [u \in Users |-> IF user[u] = NoRow THEN {} ELSE BothRoles]
      /\ spent = [u \in Users |-> {}] /\ tokens = <<>> /\ jwts = {} /\ reviews = <<>>
      /\ linkTokens = mix.tables.linkTokens /\ HandlersInit
  BY DEF Init, HandlersInit, UsersInit, RedisInit, TwoFactorInit, SessionsInit, TelegramInit, ReviewsInit
<1>2. PICK t : t = mix.tables
  OBVIOUS
<1>3. Consistent(t) /\ user = t.users /\ linkTokens = t.linkTokens
  BY <1>1, <1>2, AccountsAssumption
<1>4. Tables
  <2>1. user \in [Users -> UserRow \cup {NoRow}]
    BY <1>3 DEF Consistent
  <2>2. linkTokens \in Seq([user: Registered, used: BOOLEAN])
    BY <1>3 DEF Consistent, Registered
  <2>3. linkTokens \in Seq([user: Users, used: BOOLEAN])
    <3>1. [user: Registered, used: BOOLEAN] \subseteq [user: Users, used: BOOLEAN]
      BY DEF Registered
    <3>2. \A S, T : S \subseteq T => Seq(S) \subseteq Seq(T)
      OBVIOUS
    <3>3. QED
      BY <2>2, <3>1, <3>2
  <2>4. roles \in [Users -> SUBSET BothRoles] /\ spent \in [Users -> SUBSET Codes]
    BY <1>1
  <2>5. \A S : <<>> \in Seq(S) /\ DOMAIN <<>> = {}
    OBVIOUS
  <2>6. QED
    BY <1>1, <2>1, <2>3, <2>4, <2>5 DEF Tables
<1>5. PhonesDiffer
  BY <1>3 DEF Consistent, PhonesDiffer, Registered
<1>6. Cached
  BY <1>1 DEF Cached
<1>7. Proper /\ \A r \in Requests : req[r] = Idle
  BY <1>1, NoneYet
<1>8. Apart
  BY <1>7 DEF Apart, Idle
<1>9. Counted
  <2>1. mix.calls \in Nat /\ mix.faults \in Nat
    BY <1>1, HandlersAssumption
  <2>2. QED
    BY <1>1, <1>7, <2>1 DEF Counted, Idle
<1>10. ASSUME NEW r \in Requests PROVE Fit(req[r].todo, req[r].about) /\ HasRead(r)
  <2>1. req[r].todo = <<>> /\ req[r].got = <<>>
    BY <1>7 DEF Idle
  <2>2. Fit(<<>>, req[r].about)
    BY WholeNone DEF Whole
  <2>3. HasRead(r)
    BY <2>1, NeedsNothing DEF HasRead
  <2>4. QED
    BY <2>1, <2>2, <2>3
<1>11. QED
  BY <1>4, <1>5, <1>6, <1>7, <1>8, <1>9, <1>10 DEF AccountsTypes, Shaped

\* The checks of the services.
LEMMA RequireTyped ==
  ASSUME AccountsTypes, NEW r \in Requests, UNCHANGED cache, UNCHANGED tables,
         \/ Exists(r) \/ Unique(r) \/ NotBanned(r) \/ Show(r) \/ HasRoles(r) \/ TwoFaIs(r) \/ VerifyTemp(r)
         \/ MatchDigits(r) \/ MayReview(r)
  PROVE  AccountsTypes'
<1>1. /\ req[r].todo # <<>> /\ req[r].todo[1][1] # "select"
      /\ \E condition : Require(r, condition)
  <2>1. CASE Exists(r)
    BY <2>1 DEF Exists, At
  <2>2. CASE Unique(r)
    BY <2>2 DEF Unique, At
  <2>3. CASE NotBanned(r) \/ HasRoles(r)
    BY <2>3 DEF NotBanned, HasRoles, At
  <2>8. CASE Show(r)
    BY <2>8 DEF Show, Require, At
  <2>4. CASE TwoFaIs(r) \/ VerifyTemp(r)
    BY <2>4 DEF TwoFaIs, VerifyTemp, At
  <2>5. CASE MatchDigits(r)
    BY <2>5 DEF MatchDigits, At
  <2>6. CASE MayReview(r)
    BY <2>6 DEF MayReview, At
  <2>7. QED
    BY <2>1, <2>2, <2>3, <2>4, <2>5, <2>6, <2>8
<1>2. Continue(r) \/ Throw(r)
  BY <1>1 DEF Require
<1>3. QED
  BY <1>1, <1>2, ChecksTyped

LEMMA ProgressTyped ==
  ASSUME AccountsTypes, NEW r \in Requests, Progress(r)
  PROVE  AccountsTypes'
<1>1. CASE UsersSteps(r) /\ UNCHANGED <<spent, tokens, jwts, linkTokens, reviews>>
  <2>1. CASE RedisSteps(r) /\ UNCHANGED <<user, roles>>
    BY <1>1, <2>1, GetTyped, CacheTyped DEF RedisSteps, tables
  <2>2. CASE SelectProfile(r) \/ SelectStatus(r) \/ SelectRoles(r)
    <3>1. UNCHANGED cache /\ UNCHANGED tables
      BY <1>1, <2>2 DEF SelectProfile, SelectStatus, SelectRoles, tables
    <3>2. QED
      BY <2>2, <3>1, SelectTyped
  <2>3. CASE Exists(r) \/ Unique(r) \/ NotBanned(r) \/ Show(r) \/ HasRoles(r)
    <3>1. UNCHANGED cache /\ UNCHANGED tables
      BY <1>1, <2>3 DEF Exists, Unique, NotBanned, Show, HasRoles, tables
    <3>2. QED
      BY <2>3, <3>1, RequireTyped
  <2>4. CASE SaveUser(r) \/ WriteColumns(r) \/ InsertRole(r)
    BY <1>1, <2>4, SaveTyped, WriteTyped, InsertRoleTyped
  <2>5. QED
    BY <1>1, <2>1, <2>2, <2>3, <2>4 DEF UsersSteps
<1>2. CASE TwoFactorSteps(r) /\ UNCHANGED <<tokens, jwts, linkTokens, reviews>>
  <2>1. CASE TwoFaIs(r) \/ VerifyTemp(r)
    <3>1. UNCHANGED cache /\ UNCHANGED tables
      BY <1>2, <2>1 DEF TwoFaIs, VerifyTemp, tables
    <3>2. QED
      BY <2>1, <3>1, RequireTyped
  <2>2. QED
    BY <1>2, <2>1, MakeCodesTyped, MatchCodeTyped DEF TwoFactorSteps
<1>3. CASE SessionsSteps(r) /\ UNCHANGED <<linkTokens, reviews>>
  <2>1. CASE MatchDigits(r)
    <3>1. UNCHANGED cache /\ UNCHANGED tables
      BY <1>3, <2>1 DEF MatchDigits, tables
    <3>2. QED
      BY <2>1, <3>1, RequireTyped
  <2>2. QED
    BY <1>3, <2>1, FindByPhoneTyped, CreateTyped, FindRefreshTyped, TokensTyped DEF SessionsSteps
<1>4. CASE TelegramSteps(r) /\ UNCHANGED <<spent, tokens, jwts, reviews>>
  BY <1>4, InsertTokenTyped, FindByTelegramIdTyped, FindTokenTyped, UseTokenTyped DEF TelegramSteps
<1>5. CASE ReviewsSteps(r) /\ UNCHANGED <<spent, tokens, jwts, linkTokens>>
  <2>1. CASE SelectPage(r) \/ MayReview(r)
    <3>1. UNCHANGED cache /\ UNCHANGED tables
      BY <1>5, <2>1 DEF SelectPage, MayReview, tables
    <3>2. QED
      BY <2>1, <3>1, SelectTyped, RequireTyped
  <2>2. QED
    BY <1>5, <2>1, InsertReviewTyped, RateTyped DEF ReviewsSteps
<1>6. QED
  BY <1>1, <1>2, <1>3, <1>4, <1>5 DEF Progress

\* Whatever the program of a request is, the tables, the cache and what was read have their types, and
\* the columns of a patch the values of the schema; every phone number has one user.
THEOREM AccountsTyped == Spec => []AccountsTypes
<1>1. Init => AccountsTypes
  BY InitTyped
<1>2. ASSUME AccountsTypes, [Next]_vars PROVE AccountsTypes'
  BY <1>2, ArriveTyped, ProgressTyped, FaultTyped, ForgetTyped, StutterTyped DEF Next
<1>3. QED
  BY <1>1, <1>2, PTL DEF Spec

\* The type of every variable, and a phone number for one user at most.
THEOREM AccountsSafe == Spec => []AccountsInv
<1>1. ASSUME AccountsTypes PROVE AccountsInv
  BY <1>1 DEF AccountsTypes, Shaped, Counted, Tables, PhonesDiffer, AccountsInv, TypeOK
<1>2. QED
  BY <1>1, AccountsTyped, PTL

-----------------------------------------------------------------------------
(* Chains of refreshes: one token at most is valid in each *)

\* A step that leaves the tokens alone.
LEMMA ChainsStay ==
  ASSUME Chains, NEW r \in Requests, Elsewhere(r), contended \subseteq contended', UNCHANGED tokens,
         Issuing(r), Left(r)' = {} \/ ~At(r, "revoke")
  PROVE  Chains'
<1>1. OneTokenPerLogin'
  BY DEF Chains, OneTokenPerLogin
<1>2. \A l : Live(l)' = Live(l)
  BY DEF Live
<1>3. ASSUME NEW q \in Requests, NEW x \in Left(q)', Chained(x), q # r PROVE MayIssue(q, x[3])'
  <2>1. req'[q] = req[q] /\ x \in Left(q)
    BY <1>3 DEF Elsewhere, Left
  <2>2. MayIssue(q, x[3])
    BY <1>3, <2>1 DEF Chains
  <2>3. PICK l : l = x[3]
    OBVIOUS
  <2>4. MayIssue(q, l)'
    BY <1>2, <2>1, <2>2, <2>3 DEF MayIssue, Revokes, At, Arg
  <2>5. QED
    BY <2>3, <2>4
<1>4. ASSUME NEW x \in Left(r)', Chained(x) PROVE MayIssue(r, x[3])'
  <2>1. PICK l : l = x[3]
    OBVIOUS
  <2>2. CASE Revokes(r, x[3])'
    BY <2>2 DEF MayIssue
  <2>3. CASE x \in Left(r)
    <3>1. MayIssue(r, l) /\ ~At(r, "revoke")
      BY <1>4, <2>1, <2>3 DEF Chains
    <3>2. MayIssue(r, l)'
      BY <1>2, <3>1 DEF MayIssue, Revokes
    <3>3. QED
      BY <2>1, <3>2
  <2>4. QED
    BY <1>4, <2>2, <2>3 DEF Issuing
<1>5. QED
  BY <1>1, <1>3, <1>4 DEF Chains

\* A step that gives its place to the next, and issues nothing.
LEMMA DoneIssues ==
  ASSUME Proper, NEW r \in Requests, req[r].todo # <<>>, req'[r].todo \in {Tail(req[r].todo), <<>>}
  PROVE  Issuing(r)
<1>1. Steps(req[r].todo) = {req[r].todo[1]} \cup Steps(Tail(req[r].todo))
  BY ProgramTail DEF Proper
<1>2. Left(r)' \subseteq Left(r)
  BY <1>1, NoProgram DEF Left
<1>3. QED
  BY <1>2 DEF Issuing

\* What is issued for a login, and what is revoked, belongs to a request about it.
LEMMA IssuesMind ==
  ASSUME Shaped, Tables, NEW r \in Requests
  PROVE  /\ \A x \in Left(r) : Chained(x) => Login(x[3]) \in req[r].about /\ x[3] \in 1..Len(tokens)
         /\ At(r, "revoke") => /\ Arg(r, 1) \in DOMAIN tokens
                               /\ Login(tokens[Arg(r, 1)].login) \in req[r].about
<1>1. \A x \in Left(r) : StepOK(x) /\ Minds(x, req[r].about)
  BY DEF Shaped, Fit, Left
<1>2. ASSUME NEW x \in Left(r), Chained(x) PROVE Login(x[3]) \in req[r].about /\ x[3] \in 1..Len(tokens)
  <2>1. StepOK(x) /\ Minds(x, req[r].about) /\ x[1] = "saveToken" /\ x[3] # 0
    BY <1>1, <1>2 DEF Chained
  <2>2. Login(x[3]) \in req[r].about /\ x[3] \in 0..Len(tokens)
    BY <2>1 DEF StepOK, Minds
  <2>3. Len(tokens) \in Nat
    BY DEF Tables
  <2>4. QED
    BY <2>1, <2>2, <2>3
<1>3. ASSUME At(r, "revoke")
      PROVE  Arg(r, 1) \in DOMAIN tokens /\ Login(tokens[Arg(r, 1)].login) \in req[r].about
  <2>1. PICK h : h = req[r].todo[1]
    OBVIOUS
  <2>2. req[r].todo # <<>> /\ h[1] = "revoke" /\ Arg(r, 1) = h[2]
    BY <1>3, <2>1 DEF At, Arg
  <2>3. StepOK(h) /\ Minds(h, req[r].about)
    BY <2>1, <2>2, AtHand
  <2>4. QED
    BY <2>2, <2>3 DEF StepOK, Minds
<1>4. QED
  BY <1>2, <1>3

\* What two requests in flight are both about is contended.
LEMMA SharedContended ==
  ASSUME Shaped, NEW r \in Requests, NEW q \in Requests, q # r, NEW s, s \in req[r].about, s \in req[q].about
  PROVE  s \in contended
BY DEF Shaped, Apart

LEMMA RevokeChains ==
  ASSUME AccountsTypes, Chains, NEW r \in Requests, Revoke(r)
  PROVE  Chains'
<1>1. PICK i, h : i = h[2] /\ h = req[r].todo[1]
  OBVIOUS
<1>2. /\ At(r, "revoke") /\ Arg(r, 1) = i /\ req[r].todo # <<>> /\ h[1] = "revoke" /\ Continue(r)
      /\ tokens' = [tokens EXCEPT ![i].revoked = TRUE]
  <2>1. At(r, "revoke")
    BY Zenon DEF Revoke
  <2>2. Arg(r, 1) = i /\ req[r].todo # <<>> /\ h[1] = "revoke"
    BY <1>1, <2>1 DEF At, Arg
  <2>3. Continue(r) /\ tokens' = [tokens EXCEPT ![i].revoked = TRUE]
    BY <2>2, Zenon DEF Revoke
  <2>4. QED
    BY <2>1, <2>2, <2>3
<1>3. Shaped /\ Tables /\ Proper
  BY DEF AccountsTypes, Shaped
<1>4. /\ Elsewhere(r) /\ contended' = contended /\ req'[r].todo = Tail(req[r].todo)
      /\ Left(r) = {h} \cup Left(r)'
  <2>1. PICK got : got = req[r].got
    OBVIOUS
  <2>2. Goes(r, Tail(req[r].todo), got)
    BY <1>2, <2>1 DEF Continue
  <2>3. QED
    BY <1>1, <1>2, <1>3, <2>2, Continues DEF Went
<1>5. i \in DOMAIN tokens /\ Login(tokens[i].login) \in req[r].about
  BY <1>2, <1>3, IssuesMind
<1>6. /\ DOMAIN tokens' = DOMAIN tokens
      /\ \A j \in DOMAIN tokens : /\ tokens'[j].login = tokens[j].login
                                  /\ tokens'[j].revoked = IF j = i THEN TRUE ELSE tokens[j].revoked
  <2>1. tokens \in Seq([user: Users, login: Nat \ {0}, revoked: BOOLEAN])
    BY <1>3 DEF Tables
  <2>2. \A T : tokens \in Seq(T) => \A j \in DOMAIN tokens : tokens[j] \in T
    OBVIOUS
  <2>3. \A j \in DOMAIN tokens : tokens[j] \in [user: Users, login: Nat \ {0}, revoked: BOOLEAN]
    BY <2>1, <2>2
  <2>4. PICK t, t1 : t = tokens[i] /\ t1 = [t EXCEPT !.revoked = TRUE]
    OBVIOUS
  <2>5. tokens' = [tokens EXCEPT ![i] = t1]
    BY <1>2, <2>4, Zenon
  <2>6. t1.login = t.login /\ t1.revoked = TRUE
    <3>1. t \in [user: Users, login: Nat \ {0}, revoked: BOOLEAN]
      BY <1>5, <2>3, <2>4
    <3>2. QED
      BY <2>4, <3>1
  <2>7. DOMAIN tokens' = DOMAIN tokens
    BY <2>5
  <2>8. ASSUME NEW j \in DOMAIN tokens PROVE tokens'[j] = IF j = i THEN t1 ELSE tokens[j]
    BY <1>5, <2>5
  <2>9. QED
    BY <2>4, <2>6, <2>7, <2>8
<1>7. \A l : Live(l)' = Live(l) \ {i}
  <2>1. ASSUME NEW l, NEW j \in DOMAIN tokens
        PROVE  tokens'[j].login = l /\ ~tokens'[j].revoked <=> tokens[j].login = l /\ ~tokens[j].revoked /\ j # i
    BY <1>6
  <2>2. QED
    BY <1>6, <2>1 DEF Live
<1>8. OneTokenPerLogin'
  BY <1>4, <1>6 DEF Chains, OneTokenPerLogin
<1>9. ASSUME NEW q \in Requests, NEW x \in Left(q)', Chained(x), q # r PROVE MayIssue(q, x[3])'
  <2>1. req'[q] = req[q] /\ x \in Left(q)
    BY <1>4, <1>9 DEF Elsewhere, Left
  <2>2. PICK l : l = x[3]
    OBVIOUS
  <2>3. MayIssue(q, l)
    BY <1>9, <2>1, <2>2 DEF Chains
  <2>4. CASE Login(l) \in contended \/ Live(l) = {}
    <3>1. Login(l) \in contended' \/ Live(l)' = {}
      BY <1>4, <1>7, <2>4
    <3>2. MayIssue(q, l)'
      BY <3>1 DEF MayIssue
    <3>3. QED
      BY <2>2, <3>2
  <2>5. CASE Revokes(q, l)
    <3>1. PICK j : j = Arg(q, 1)
      OBVIOUS
    <3>2. At(q, "revoke") /\ tokens[j].login = l /\ ~tokens[j].revoked
      BY <2>5, <3>1 DEF Revokes
    <3>3. j \in DOMAIN tokens /\ Login(l) \in req[q].about
      BY <1>3, <3>1, <3>2, IssuesMind
    <3>4. CASE j = i
      <4>1. Login(l) \in contended'
        BY <1>3, <1>4, <1>5, <1>9, <3>2, <3>3, <3>4, SharedContended
      <4>2. MayIssue(q, l)'
        BY <4>1 DEF MayIssue
      <4>3. QED
        BY <2>2, <4>2
    <3>5. CASE j # i
      <4>1. tokens'[j].login = l /\ ~tokens'[j].revoked
        BY <1>6, <3>2, <3>3, <3>5
      <4>2. At(q, "revoke")' /\ j = Arg(q, 1)'
        BY <2>1, <3>1, <3>2 DEF At, Arg
      <4>3. MayIssue(q, l)'
        BY <4>1, <4>2 DEF MayIssue, Revokes
      <4>4. QED
        BY <2>2, <4>3
    <3>6. QED
      BY <3>4, <3>5
  <2>6. QED
    BY <2>3, <2>4, <2>5 DEF MayIssue
<1>10. ASSUME NEW x \in Left(r)', Chained(x) PROVE MayIssue(r, x[3])'
  <2>1. PICK l : l = x[3]
    OBVIOUS
  <2>2. MayIssue(r, l)
    BY <1>4, <1>10, <2>1 DEF Chains
  <2>3. Login(l) \in contended' \/ Live(l)' = {}
    <3>1. CASE Login(l) \in contended \/ Live(l) = {}
      BY <1>4, <1>7, <3>1
    <3>2. CASE Revokes(r, l)
      <4>1. tokens[i].login = l /\ ~tokens[i].revoked
        BY <1>2, <3>2 DEF Revokes
      <4>2. ASSUME NEW j \in Live(l), j # i PROVE Login(l) \in contended
        <5>1. j \in DOMAIN tokens /\ tokens[j].login = l /\ ~tokens[j].revoked
          BY <4>2 DEF Live
        <5>2. QED
          BY <1>5, <4>1, <4>2, <5>1 DEF Chains, OneTokenPerLogin
      <4>3. QED
        BY <1>4, <1>7, <4>2
    <3>3. QED
      BY <2>2, <3>1, <3>2 DEF MayIssue
  <2>4. MayIssue(r, l)'
    BY <2>3 DEF MayIssue
  <2>5. QED
    BY <2>1, <2>4
<1>11. QED
  BY <1>8, <1>9, <1>10 DEF Chains

LEMMA SaveTokenChains ==
  ASSUME AccountsTypes, Chains, NEW r \in Requests, SaveToken(r)
  PROVE  Chains'
<1>1. PICK h, n, l : h = req[r].todo[1] /\ n = Len(tokens) /\ l = IF h[3] = 0 THEN n + 1 ELSE h[3]
  OBVIOUS
<1>2. /\ req[r].todo # <<>> /\ h[1] = "saveToken" /\ Continue(r)
      /\ tokens' = Append(tokens, [user |-> h[2], login |-> l, revoked |-> FALSE])
  BY <1>1 DEF SaveToken, At, Arg
<1>3. Shaped /\ Tables /\ Proper
  BY DEF AccountsTypes, Shaped
<1>4. /\ Elsewhere(r) /\ contended' = contended /\ req'[r].todo = Tail(req[r].todo)
      /\ Left(r) = {h} \cup Left(r)'
  <2>1. PICK got : got = req[r].got
    OBVIOUS
  <2>2. Goes(r, Tail(req[r].todo), got)
    BY <1>2, <2>1 DEF Continue
  <2>3. QED
    BY <1>1, <1>2, <1>3, <2>2, Continues DEF Went
<1>5. Left(r)' = {}
  <2>1. Tail(req[r].todo) = <<>>
    BY <1>1, <1>2, <1>3, AtHand DEF Final
  <2>2. QED
    BY <1>4, <2>1, NoProgram DEF Left
<1>6. n \in Nat /\ DOMAIN tokens = 1..n /\ \A i \in 1..n : tokens[i].login \in 1..i
  BY <1>1, <1>3 DEF Tables
<1>7. /\ DOMAIN tokens' = 1..n + 1 /\ \A i \in 1..n : tokens'[i] = tokens[i]
      /\ tokens'[n + 1].login = l /\ tokens'[n + 1].revoked = FALSE
  <2>1. tokens \in Seq([user: Users, login: Nat \ {0}, revoked: BOOLEAN])
    BY <1>3 DEF Tables
  <2>2. PICK T, t : /\ T = [user: Users, login: Nat \ {0}, revoked: BOOLEAN]
                    /\ t = [user |-> h[2], login |-> l, revoked |-> FALSE]
    OBVIOUS
  <2>3. t.login = l /\ t.revoked = FALSE
    BY <2>2
  <2>4. tokens \in Seq(T) /\ tokens' = Append(tokens, t)
    BY <1>2, <2>1, <2>2
  <2>5. DOMAIN tokens' = 1..n + 1 /\ \A i \in 1..n : tokens'[i] = tokens[i] /\ tokens'[n + 1] = t
    BY <1>1, <1>6, <2>4
  <2>6. tokens'[n + 1] = t
    BY <1>1, <1>6, <2>4
  <2>7. QED
    BY <2>3, <2>5, <2>6
<1>8. l = n + 1 \/ (l \in 1..n /\ l # 0 /\ Chained(h) /\ Login(l) \in req[r].about)
  <2>1. h \in Left(r)
    BY <1>4
  <2>2. Chained(h) => Login(h[3]) \in req[r].about /\ h[3] \in 1..n
    BY <1>1, <1>3, <2>1, IssuesMind
  <2>3. QED
    BY <1>1, <1>2, <1>6, <2>2 DEF Chained
<1>9. \A s : s # l => Live(s)' = Live(s)
  <2>1. ASSUME NEW s, s # l, NEW j \in 1..n + 1
        PROVE  tokens'[j].login = s /\ ~tokens'[j].revoked <=> j \in 1..n /\ tokens[j].login = s /\ ~tokens[j].revoked
    <3>1. CASE j = n + 1
      BY <1>6, <1>7, <2>1, <3>1
    <3>2. CASE j # n + 1
      <4>1. j \in 1..n
        BY <1>6, <3>2
      <4>2. QED
        BY <1>7, <4>1
    <3>3. QED
      BY <3>1, <3>2
  <2>2. 1..n \subseteq 1..n + 1
    BY <1>6
  <2>3. QED
    BY <1>6, <1>7, <2>1, <2>2 DEF Live
<1>10. Live(l) = {} \/ Login(l) \in contended
  <2>1. CASE l = n + 1
    <3>1. \A j \in 1..n : tokens[j].login # l
      BY <1>6, <2>1
    <3>2. QED
      BY <1>6, <3>1 DEF Live
  <2>2. CASE l # n + 1
    <3>1. Chained(h) /\ h \in Left(r) /\ h[3] = l
      BY <1>1, <1>4, <1>8, <2>2
    <3>2. MayIssue(r, l)
      BY <3>1 DEF Chains
    <3>3. ~Revokes(r, l)
      BY <1>1, <1>2 DEF Revokes, At
    <3>4. QED
      BY <3>2, <3>3 DEF MayIssue
  <2>3. QED
    BY <2>1, <2>2
<1>11. OneTokenPerLogin'
  <2>1. ASSUME NEW i \in 1..n + 1, NEW j \in 1..n + 1, i # j, tokens'[i].login = tokens'[j].login,
               ~tokens'[i].revoked, ~tokens'[j].revoked
        PROVE  Login(tokens'[i].login) \in contended'
    <3>1. CASE i \in 1..n /\ j \in 1..n
      BY <1>4, <1>6, <1>7, <2>1, <3>1 DEF Chains, OneTokenPerLogin
    <3>2. CASE i = n + 1
      <4>1. j \in 1..n /\ tokens[j].login = l /\ ~tokens[j].revoked
        BY <1>6, <1>7, <2>1, <3>2
      <4>2. QED
        BY <1>4, <1>6, <1>7, <1>10, <3>2, <4>1 DEF Live
    <3>3. CASE j = n + 1
      <4>1. i \in 1..n /\ tokens[i].login = l /\ ~tokens[i].revoked
        BY <1>6, <1>7, <2>1, <3>3
      <4>2. QED
        BY <1>4, <1>6, <1>7, <1>10, <2>1, <3>3, <4>1 DEF Live
    <3>4. QED
      BY <1>6, <3>1, <3>2, <3>3
  <2>2. QED
    BY <1>7, <2>1 DEF OneTokenPerLogin
<1>12. ASSUME NEW q \in Requests, NEW x \in Left(q)', Chained(x) PROVE MayIssue(q, x[3])'
  <2>1. q # r
    BY <1>5, <1>12
  <2>2. req'[q] = req[q] /\ x \in Left(q)
    BY <1>4, <1>12, <2>1 DEF Elsewhere, Left
  <2>3. PICK s : s = x[3]
    OBVIOUS
  <2>4. MayIssue(q, s) /\ Login(s) \in req[q].about /\ s \in 1..n
    BY <1>1, <1>3, <1>12, <2>2, <2>3, IssuesMind DEF Chains
  <2>5. CASE s = l
    <3>1. Login(l) \in req[r].about
      BY <1>6, <1>8, <2>4, <2>5
    <3>2. Login(s) \in contended'
      BY <1>3, <1>4, <2>1, <2>4, <2>5, <3>1, SharedContended
    <3>3. MayIssue(q, s)'
      BY <3>2 DEF MayIssue
    <3>4. QED
      BY <2>3, <3>3
  <2>6. CASE s # l
    <3>1. Live(s)' = Live(s)
      BY <1>9, <2>6
    <3>2. Revokes(q, s) => Revokes(q, s)'
      <4>1. PICK j : j = Arg(q, 1) /\ j = Arg(q, 1)'
        BY <2>2 DEF Arg
      <4>2. At(q, "revoke") => j \in 1..n
        BY <1>3, <1>6, <4>1, IssuesMind
      <4>3. QED
        BY <1>7, <2>2, <4>1, <4>2 DEF Revokes, At
    <3>3. MayIssue(q, s)'
      BY <1>4, <2>4, <3>1, <3>2 DEF MayIssue
    <3>4. QED
      BY <2>3, <3>3
  <2>7. QED
    BY <2>5, <2>6
<1>13. QED
  BY <1>11, <1>12 DEF Chains

-----------------------------------------------------------------------------
(* What a step leaves of the facts *)

\* A step leaves a fact as it was.
Undisturbed(k) ==
  /\ k \in UsersKeys => Current(k)' = Current(k) /\ (k[2] \in Registered => k[2] \in Registered')
  /\ k[1] = "free" => \A v \in Registered' :
                        user'[v].tg = k[2] => v \in contended' \/ (v \in Registered /\ user[v].tg = k[2])
  /\ k[1] = "dropped" => (ProfileKey(k[2]) \in DOMAIN cache' => ProfileKey(k[2]) \in DOMAIN cache)
  /\ k[1] = "absent" => (k[2] \in Registered' => k[2] \in Registered)

\* What was read under a key is still at hand.
Remembered(r, k) ==
  k \in UsersKeys /\ k[1] \in DOMAIN req[r].got =>
    k[1] \in DOMAIN req'[r].got /\ req'[r].got[k[1]] = req[r].got[k[1]]

Safe == Chains /\ Known

LEMMA FactKinds ==
  ASSUME NEW k \in Facts
  PROVE  /\ k[1] \in {"profile", "status", "roles"} <=> k \in UsersKeys
         /\ k \in UsersKeys => k[2] \in Users /\ k = <<k[1], k[2]>>
         /\ k[1] \in {"dropped", "absent"} => k[2] \in Users /\ k = <<k[1], k[2]>>
         /\ k[1] = "free" => k[2] \in Telegrams \ {NoTg} /\ k = <<"free", k[2]>>
BY DEF Facts, UsersKeys

LEMMA CurrentIs ==
  ASSUME NEW k \in UsersKeys
  PROVE  /\ k[1] = "profile" => Current(k) = Profile(k[2]) /\ Current(k)' = Profile(k[2])'
         /\ k[1] = "status" => Current(k) = user[k[2]].online /\ Current(k)' = user'[k[2]].online
         /\ k[1] = "roles" => Current(k) = roles[k[2]] /\ Current(k)' = roles'[k[2]]
BY DEF Current

LEMMA HoldsStays ==
  ASSUME NEW r, NEW k \in Facts, Holds(r, k), Undisturbed(k), Remembered(r, k),
         contended \subseteq contended'
  PROVE  Holds(r, k)'
<1>1. k[1] \in {"profile", "status", "roles"} <=> k \in UsersKeys
  BY FactKinds
<1>2. CASE k \in UsersKeys
  <2>1. /\ k[1] \in {"profile", "status", "roles"}
        /\ k[1] # "free" /\ k[1] # "dropped" /\ k[1] # "absent"
    BY <1>1, <1>2
  <2>2. k[1] \in DOMAIN req[r].got /\ req[r].got[k[1]] = Current(k) /\ (k[1] # "roles" => k[2] \in Registered)
    BY <2>1 DEF Holds
  <2>3. k[1] \in DOMAIN req'[r].got /\ req'[r].got[k[1]] = Current(k)' /\ (k[1] # "roles" => k[2] \in Registered')
    BY <1>2, <2>2 DEF Undisturbed, Remembered
  <2>4. QED
    BY <2>1, <2>3 DEF Holds
<1>3. CASE k \notin UsersKeys
  <2>1. k[1] \notin {"profile", "status", "roles"}
    BY <1>1, <1>3
  <2>2. k[1] = "free" => \A v \in Registered' : user'[v].tg = k[2] => v \in contended'
    BY DEF Holds, Undisturbed
  <2>3. k[1] = "dropped" => ProfileKey(k[2]) \notin DOMAIN cache'
    BY DEF Holds, Undisturbed
  <2>4. k[1] = "absent" => k[2] \notin Registered'
    BY DEF Holds, Undisturbed
  <2>5. QED
    BY <2>1, <2>2, <2>3, <2>4 DEF Holds, ProfileKey
<1>4. QED
  BY <1>2, <1>3

\* What is relied on, the request is about.
LEMMA NeedsMind ==
  ASSUME Shaped, NEW r \in Requests, NEW k \in Facts, Needs(req[r].todo, k)
  PROVE  k[2] \in req[r].about
<1>1. PICK x \in Steps(req[r].todo) : Uses(x, k)
  BY DEF Needs, Steps
<1>2. Minds(x, req[r].about)
  BY <1>1 DEF Shaped, Fit
<1>3. CASE x[1] = "set" /\ k = x[2]
  BY <1>2, <1>3 DEF Minds, Reads
<1>4. CASE x[1] = "save" /\ k \in {ProfileKey(x[2]), StatusKey(x[2]), <<"dropped", x[2]>>}
  <2>1. k[2] = x[2]
    BY <1>4 DEF ProfileKey, StatusKey
  <2>2. QED
    BY <1>2, <1>4, <2>1 DEF Minds
<1>5. CASE x[1] = "save" /\ "tg" \in DOMAIN x[3] /\ k = <<"free", x[3].tg>>
  <2>1. k[2] = x[3].tg /\ k[1] = "free"
    BY <1>5
  <2>2. k[2] # NoTg
    BY <2>1, FactKinds
  <2>3. QED
    BY <1>2, <1>5, <2>1, <2>2 DEF Minds
<1>6. CASE x[1] \in {"notBanned", "matchCode"} /\ k = ProfileKey(x[2])
  <2>1. k[2] = x[2]
    BY <1>6 DEF ProfileKey
  <2>2. QED
    BY <1>2, <1>6, <2>1 DEF Minds
<1>7. CASE x[1] = "createUser" /\ k = <<"absent", x[2]>>
  <2>1. k[2] = x[2]
    BY <1>7
  <2>2. QED
    BY <1>2, <1>7, <2>1 DEF Minds
<1>8. QED
  BY <1>1, <1>3, <1>4, <1>5, <1>6, <1>7 DEF Uses

\* The other requests know what they knew.
LEMMA OthersKnow ==
  ASSUME Shaped, NEW r \in Requests, Elsewhere(r), contended \subseteq contended',
         \A k \in Facts : Undisturbed(k) \/ k[2] \in contended' \cup req[r].about,
         NEW q \in Requests, q # r, Knows(q)
  PROVE  Knows(q)'
<1>1. req'[q] = req[q]
  BY DEF Elsewhere
<1>2. ASSUME NEW k \in Facts, Needs(req[q].todo, k), k[2] \notin contended' PROVE Holds(q, k)'
  <2>1. Holds(q, k)
    BY <1>2 DEF Knows
  <2>2. k[2] \in req[q].about
    BY <1>2, NeedsMind
  <2>3. k[2] \notin req[r].about
    BY <1>2, <2>2, SharedContended
  <2>4. Undisturbed(k)
    BY <1>2, <2>3
  <2>5. Remembered(q, k)
    BY <1>1 DEF Remembered
  <2>6. QED
    BY <2>1, <2>4, <2>5, HoldsStays
<1>3. QED
  BY <1>1, <1>2 DEF Knows

\* A step of the request r.
LEMMA StepKnown ==
  ASSUME AccountsTypes, Known, NEW r \in Requests, Elsewhere(r), contended \subseteq contended',
         \A k \in Facts : Undisturbed(k) \/ k[2] \in contended' \cup req[r].about,
         \A k \in UsersKeys : k \in DOMAIN cache' =>
           \/ k[2] \in contended'
           \/ Undisturbed(k) /\ k \in DOMAIN cache /\ cache'[k] = cache[k] /\ ~Drops(r, k)
           \/ cache'[k] = Current(k)' /\ (k[1] # "roles" => k[2] \in Registered')
           \/ Drops(r, k)',
         Knows(r)', TelegramUnique'
  PROVE  Known'
<1>1. ASSUME NEW q \in Requests PROVE Knows(q)'
  <2>1. Knows(q) /\ Shaped
    BY DEF Known, AccountsTypes
  <2>2. QED
    BY <2>1, OthersKnow
<1>2. ASSUME NEW k \in UsersKeys, k \in DOMAIN cache', k[2] \notin contended'
      PROVE  (cache'[k] = Current(k)' /\ (k[1] # "roles" => k[2] \in Registered')) \/ \E q \in Requests : Drops(q, k)'
  <2>1. CASE Undisturbed(k) /\ k \in DOMAIN cache /\ cache'[k] = cache[k] /\ ~Drops(r, k)
    <3>1. CASE cache[k] = Current(k) /\ (k[1] # "roles" => k[2] \in Registered)
      BY <1>2, <2>1, <3>1 DEF Undisturbed
    <3>2. CASE \E q \in Requests : Drops(q, k)
      <4>1. PICK q \in Requests : Drops(q, k)
        BY <3>2
      <4>2. q # r
        BY <2>1, <4>1
      <4>3. req'[q] = req[q]
        BY <4>2 DEF Elsewhere
      <4>4. Drops(q, k)'
        BY <4>1, <4>3 DEF Drops
      <4>5. QED
        BY <4>4
    <3>3. QED
      BY <1>2, <2>1, <3>1, <3>2 DEF Known, CacheFresh
  <2>2. QED
    BY <1>2, <2>1
<1>3. CacheFresh'
  BY <1>2 DEF CacheFresh
<1>4. QED
  BY <1>1, <1>3 DEF Known

LEMMA QuietUndisturbed ==
  ASSUME UNCHANGED <<user, roles>>, DOMAIN cache' \cap UsersKeys \subseteq DOMAIN cache, NEW k \in Facts
  PROVE  Undisturbed(k)
<1>1. Registered' = Registered
  BY DEF Registered
<1>2. k \in UsersKeys => Current(k)' = Current(k)
  <2>1. ASSUME k \in UsersKeys PROVE Current(k)' = Current(k)
    <3>1. Profile(k[2])' = Profile(k[2])
      BY DEF Profile
    <3>2. k[1] \in {"profile", "status", "roles"}
      BY <2>1 DEF UsersKeys
    <3>3. QED
      BY <2>1, <3>1, <3>2, CurrentIs
  <2>2. QED
    BY <2>1
<1>3. k[1] = "dropped" => ProfileKey(k[2]) \in UsersKeys
  BY FactKinds, KeyOfUser
<1>4. QED
  BY <1>1, <1>2, <1>3 DEF Undisturbed

\* A step that leaves the tables of users and roles alone, and caches nothing about users.
LEMMA QuietSafe ==
  ASSUME AccountsTypes, Safe, NEW r \in Requests, Elsewhere(r), contended \subseteq contended',
         UNCHANGED <<user, roles, tokens>>,
         \A k \in UsersKeys : k \in DOMAIN cache' =>
           k \in DOMAIN cache /\ cache'[k] = cache[k] /\ (~Drops(r, k) \/ k[2] \in contended'),
         Knows(r)', Issuing(r), Left(r)' = {} \/ ~At(r, "revoke")
  PROVE  Safe'
<1>1. \A k \in Facts : Undisturbed(k)
  BY QuietUndisturbed
<1>2. TelegramUnique'
  BY DEF TelegramUnique, Safe, Known, Registered
<1>3. \A k \in UsersKeys : k \in Facts
  BY DEF Facts
<1>4. Known'
  BY <1>1, <1>2, <1>3, StepKnown DEF Safe
<1>5. Chains'
  BY ChainsStay DEF Safe
<1>6. QED
  BY <1>4, <1>5 DEF Safe

-----------------------------------------------------------------------------
(* What a request knows after its step *)

LEMMA DoneKnows == ASSUME NEW r, req'[r].todo = <<>> PROVE Knows(r)'
BY NeedsNothing DEF Knows

\* The rest of the program relies on what the step found, and on what it left.
LEMMA TailKnows ==
  ASSUME Shaped, NEW r \in Requests, Knows(r), req[r].todo # <<>>, NEW h, h = req[r].todo[1],
         req'[r].todo = Tail(req[r].todo), contended \subseteq contended',
         \A k \in Facts : Gives(h, k) => Holds(r, k)' \/ k[2] \in contended',
         \A k \in Facts : ~Breaks(h, k) /\ ~Gives(h, k) => (Undisturbed(k) /\ Remembered(r, k)) \/ k[2] \in contended'
  PROVE  Knows(r)'
<1>1. ASSUME NEW k \in Facts, Needs(Tail(req[r].todo), k), k[2] \notin contended' PROVE Holds(r, k)'
  <2>1. Program(req[r].todo) /\ Sound(req[r].todo)
    BY DEF Shaped, Fit
  <2>2. Gives(h, k) \/ (Needs(req[r].todo, k) /\ ~Breaks(h, k))
    BY <1>1, <2>1, NeedsTail
  <2>3. CASE Gives(h, k)
    BY <1>1, <2>3
  <2>4. CASE Needs(req[r].todo, k) /\ ~Breaks(h, k) /\ ~Gives(h, k)
    <3>1. Holds(r, k)
      BY <1>1, <2>4 DEF Knows
    <3>2. Undisturbed(k) /\ Remembered(r, k)
      BY <1>1, <2>4
    <3>3. QED
      BY <3>1, <3>2, HoldsStays
  <2>5. QED
    BY <2>2, <2>3, <2>4
<1>2. QED
  BY <1>1 DEF Knows

\* A step that may end everything.
LEMMA TurnsSafe ==
  ASSUME AccountsTypes, Safe, NEW r \in Requests, Turns(r), req[r].todo[1][1] \in Calls,
         UNCHANGED <<cache, user, roles, tokens>>
  PROVE  Safe'
<1>1. Elsewhere(r) /\ contended \subseteq contended' /\ Closed(req'[r].todo) /\ Issuing(r)
  BY DEF Turns
<1>2. Knows(r)'
  BY <1>1 DEF Knows, Closed
<1>3. ~At(r, "revoke") /\ \A k : ~Drops(r, k)
  BY DEF At, Drops, Calls
<1>4. QED
  BY <1>1, <1>2, <1>3, QuietSafe

\* A check that finds no fact but is passed or not.
LEMMA DoneSafe ==
  ASSUME AccountsTypes, Safe, NEW r \in Requests, req[r].todo # <<>>, Continue(r) \/ Throw(r),
         UNCHANGED <<user, roles, tokens>>, req[r].todo[1][1] \notin {"select", "delete", "revoke"},
         \A k \in UsersKeys : k \in DOMAIN cache' => k \in DOMAIN cache /\ cache'[k] = cache[k],
         req[r].todo[1][1] = "unique" => Throw(r) \/
           \A k \in Facts : Gives(req[r].todo[1], k) => \A v \in Registered : user[v].tg # k[2]
  PROVE  Safe'
<1>1. PICK h : h = req[r].todo[1]
  OBVIOUS
<1>2. Shaped /\ Proper /\ Knows(r)
  BY DEF AccountsTypes, Shaped, Safe, Known
<1>3. \A k \in Facts : Undisturbed(k)
  BY QuietUndisturbed
<1>4. ~At(r, "revoke") /\ \A k : ~Drops(r, k)
  BY DEF At, Drops
<1>5. CASE Throw(r)
  <2>1. Elsewhere(r) /\ contended' = contended /\ req'[r].todo = <<>>
    BY <1>2, <1>5, Throws DEF Thrown
  <2>2. Knows(r)' /\ Issuing(r)
    BY <1>2, <2>1, DoneKnows, DoneIssues
  <2>3. QED
    BY <1>4, <2>1, <2>2, QuietSafe
<1>6. CASE Continue(r) /\ ~Throw(r)
  <2>1. PICK got : got = req[r].got
    OBVIOUS
  <2>2. Goes(r, Tail(req[r].todo), got)
    BY <1>6, <2>1 DEF Continue
  <2>3. /\ Elsewhere(r) /\ contended' = contended /\ req'[r].todo = Tail(req[r].todo)
        /\ req'[r] # Idle => req'[r].got = got
    BY <1>2, <2>2, Continues DEF Went
  <2>4. Issuing(r)
    BY <1>2, <2>3, DoneIssues
  <2>5. ASSUME NEW k \in Facts, Gives(h, k) PROVE Holds(r, k)'
    <3>1. h[1] = "unique" /\ "tg" \in DOMAIN h[2] /\ k = <<"free", h[2].tg>>
      BY <1>1, <2>5 DEF Gives
    <3>2. \A v \in Registered : user[v].tg # k[2]
      BY <1>1, <1>6, <2>5, <3>1
    <3>3. Registered' = Registered /\ k[1] = "free"
      BY <3>1 DEF Registered
    <3>4. QED
      BY <3>2, <3>3 DEF Holds
  <2>6. CASE req'[r] = Idle
    <3>1. req'[r].todo = <<>>
      BY <2>6 DEF Idle
    <3>2. QED
      BY <1>4, <2>3, <2>4, <3>1, DoneKnows, QuietSafe
  <2>7. CASE req'[r] # Idle
    <3>1. \A k \in Facts : Remembered(r, k)
      BY <2>1, <2>3, <2>7 DEF Remembered
    <3>2. Knows(r)'
      BY <1>1, <1>2, <1>3, <2>3, <2>5, <3>1, TailKnows
    <3>3. QED
      BY <1>4, <2>3, <2>4, <3>2, QuietSafe
  <2>8. QED
    BY <2>6, <2>7
<1>7. QED
  BY <1>5, <1>6

-----------------------------------------------------------------------------
(* What holds of the facts after each step *)

\* The steps that end everything.
LEMMA CallsSafe ==
  ASSUME AccountsTypes, Safe, NEW r \in Requests,
         \/ MatchCode(r) /\ UNCHANGED <<tokens, jwts, linkTokens, reviews>>
         \/ (FindByPhone(r) \/ FindRefresh(r)) /\ UNCHANGED <<linkTokens, reviews>>
         \/ (FindByTelegramId(r) \/ FindToken(r) \/ UseToken(r)) /\ UNCHANGED <<spent, tokens, jwts, reviews>>
         \/ (InsertReview(r) \/ Rate(r)) /\ UNCHANGED <<spent, tokens, jwts, linkTokens>>
  PROVE  Safe'
<1>1. Turns(r)
  BY MatchCodeTyped, FindByPhoneTyped, FindRefreshTyped, FindByTelegramIdTyped, FindTokenTyped,
     UseTokenTyped, InsertReviewTyped, RateTyped
<1>2. UNCHANGED <<cache, user, roles, tokens>>
  BY Zenon DEF MatchCode, FindByPhone, FindRefresh, FindByTelegramId, FindToken, UseToken, InsertReview, Rate
<1>3. req[r].todo[1][1] \in Calls
  <2>1. \/ At(r, "matchCode") \/ At(r, "findByPhone") \/ At(r, "findRefresh") \/ At(r, "findByTelegramId")
        \/ At(r, "findToken") \/ At(r, "useToken") \/ At(r, "insertReview") \/ At(r, "rate")
    BY Zenon DEF MatchCode, FindByPhone, FindRefresh, FindByTelegramId, FindToken, UseToken, InsertReview, Rate
  <2>2. QED
    BY <2>1 DEF At, Calls
<1>4. QED
  BY <1>1, <1>2, <1>3, TurnsSafe

LEMMA ScanSafe ==
  ASSUME AccountsTypes, Safe, NEW r \in Requests, CacheScan(r), UNCHANGED tables
  PROVE  Safe'
<1>1. Shaped /\ Growth /\ UNCHANGED <<user, roles, tokens>>
  BY TablesStay DEF AccountsTypes, tables
<1>2. PICK h : h = req[r].todo[1]
  OBVIOUS
<1>3. PICK more : more = (IF h[2] \cap DOMAIN cache = {} THEN <<>> ELSE <<<<"unlink", h[2] \cap DOMAIN cache>>>>)
  OBVIOUS
<1>4. req[r].todo # <<>> /\ h[1] = "scan" /\ Do(r, more) /\ UNCHANGED cache
  BY <1>2, <1>3 DEF CacheScan, At, Arg
<1>5. Prefix(more, req[r].about)
  <2>1. Prefix(<<>>, req[r].about)
    BY WholeNone, NoProgram DEF Prefix
  <2>2. PICK x : x = <<"unlink", h[2] \cap DOMAIN cache>>
    OBVIOUS
  <2>3. StepOK(h)
    BY <1>1, <1>2, <1>4, AtHand
  <2>4. x[1] = "unlink" /\ x[2] \subseteq Copies \ UsersKeys
    BY <1>4, <2>2, <2>3 DEF StepOK
  <2>5. StepOK(x) /\ Minds(x, req[r].about)
    BY <2>4 DEF StepOK, Minds, OfUser, Reads
  <2>6. Prefix(<<x>>, req[r].about)
    BY <2>4, <2>5, PrefixOne DEF Final
  <2>7. QED
    BY <1>3, <2>1, <2>2, <2>6
<1>6. Turns(r) /\ req[r].todo[1][1] \in Calls
  BY <1>1, <1>2, <1>4, <1>5, CallsTurn DEF Calls
<1>7. QED
  BY <1>1, <1>4, <1>6, TurnsSafe

\* The checks.
LEMMA RequireSafe ==
  ASSUME AccountsTypes, Safe, NEW r \in Requests, UNCHANGED cache, UNCHANGED tables,
         \/ Exists(r) \/ NotBanned(r) \/ Show(r) \/ HasRoles(r) \/ TwoFaIs(r) \/ VerifyTemp(r)
         \/ MatchDigits(r) \/ MayReview(r)
  PROVE  Safe'
<1>1. Continue(r) \/ Throw(r)
  BY Zenon DEF Exists, NotBanned, Show, HasRoles, TwoFaIs, VerifyTemp, MatchDigits, MayReview, Require
<1>2. \/ At(r, "exists") \/ At(r, "show") \/ At(r, "notBanned") \/ At(r, "hasRoles") \/ At(r, "twoFaIs") \/ At(r, "verifyTemp")
      \/ At(r, "matchDigits") \/ At(r, "mayReview")
  BY Zenon DEF Exists, NotBanned, Show, HasRoles, TwoFaIs, VerifyTemp, MatchDigits, MayReview
<1>3. req[r].todo # <<>> /\ req[r].todo[1][1] \notin {"select", "delete", "revoke", "unique"}
  BY <1>2 DEF At
<1>4. UNCHANGED <<user, roles, tokens>>
  BY DEF tables
<1>5. QED
  BY <1>1, <1>3, <1>4, DoneSafe

LEMMA UniqueSafe ==
  ASSUME AccountsTypes, Safe, NEW r \in Requests, UNCHANGED cache, UNCHANGED tables, Unique(r)
  PROVE  Safe'
<1>1. PICK h : h = req[r].todo[1]
  OBVIOUS
<1>2. /\ req[r].todo # <<>> /\ h[1] = "unique"
      /\ Require(r, \A c \in LookedFor(h[2]), v \in Registered : user[v][c] # h[2][c])
  <2>1. At(r, "unique") /\ Arg(r, 1) = h[2]
    BY <1>1 DEF Unique, Arg
  <2>2. Require(r, \A c \in LookedFor(Arg(r, 1)), v \in Registered : user[v][c] # Arg(r, 1)[c])
    BY Zenon DEF Unique
  <2>3. QED
    BY <1>1, <2>1, <2>2 DEF At
<1>3. Throw(r) \/ (Continue(r) /\ \A c \in LookedFor(h[2]), v \in Registered : user[v][c] # h[2][c])
  BY <1>2 DEF Require
<1>4. ASSUME ~Throw(r), NEW k \in Facts, Gives(h, k), NEW v \in Registered PROVE user[v].tg # k[2]
  <2>1. "tg" \in DOMAIN h[2] /\ k = <<"free", h[2].tg>>
    BY <1>2, <1>4 DEF Gives
  <2>2. h[2].tg # NoTg
    BY <2>1, FactKinds
  <2>3. "tg" \in LookedFor(h[2])
    BY <2>1, <2>2 DEF LookedFor
  <2>4. user[v]["tg"] # h[2]["tg"]
    BY <1>3, <1>4, <2>3
  <2>5. QED
    BY <2>1, <2>4
<1>5. UNCHANGED <<user, roles, tokens>>
  BY DEF tables
<1>6. req[r].todo[1][1] = "unique" => Throw(r) \/
        \A k \in Facts : Gives(req[r].todo[1], k) => \A v \in Registered : user[v].tg # k[2]
  BY <1>1, <1>4
<1>7. QED
  BY <1>1, <1>2, <1>3, <1>5, <1>6, DoneSafe

\* The steps that keep what the cache holds of users.
LEMMA CachePutSafe ==
  ASSUME AccountsTypes, Safe, NEW r \in Requests, UNCHANGED tables,
         CachePut(r) \/ CacheUnlink(r)
  PROVE  Safe'
<1>1. PICK h : h = req[r].todo[1]
  OBVIOUS
<1>2. /\ req[r].todo # <<>> /\ h[1] \in {"put", "unlink"} /\ Continue(r)
      /\ h[1] = "put" => cache' = With(cache, h[2], h[3])
      /\ h[1] = "unlink" => cache' = Without(cache, h[2])
  BY <1>1 DEF CachePut, CacheUnlink, At, Arg
<1>3. StepOK(h)
  BY <1>1, <1>2, AtHand DEF AccountsTypes
<1>4. ASSUME NEW k \in UsersKeys, k \in DOMAIN cache' PROVE k \in DOMAIN cache /\ cache'[k] = cache[k]
  <2>1. CASE h[1] = "put"
    <3>1. h[2][1] \in {"flash-call", "2fa:temp"}
      BY <1>3, <2>1 DEF StepOK
    <3>2. k # h[2]
      BY <3>1 DEF UsersKeys
    <3>3. QED
      BY <1>2, <1>4, <2>1, <3>2 DEF With
  <2>2. CASE h[1] = "unlink"
    BY <1>2, <1>4, <2>2 DEF Without
  <2>3. QED
    BY <1>2, <2>1, <2>2
<1>5. UNCHANGED <<user, roles, tokens>>
  BY DEF tables
<1>6. QED
  BY <1>1, <1>2, <1>4, <1>5, DoneSafe

\* Who is about to delete a key is about its user.
LEMMA DropsMind ==
  ASSUME Shaped, NEW r \in Requests, NEW k, Drops(r, k)
  PROVE  k[2] \in req[r].about /\ req[r].todo # <<>> /\ req[r].todo[1][1] = "delete" /\ req[r].todo[1][2] = k
<1>1. PICK h : h = req[r].todo[1]
  OBVIOUS
<1>2. req[r].todo # <<>> /\ h = <<"delete", k>>
  BY <1>1 DEF Drops
<1>3. h[1] = "delete" /\ h[2] = k
  BY <1>2
<1>4. Minds(h, req[r].about)
  BY <1>1, <1>2, AtHand
<1>5. QED
  BY <1>1, <1>2, <1>3, <1>4 DEF Minds

\* The request is thrown out.
LEMMA ThrowSafe ==
  ASSUME AccountsTypes, Safe, NEW r \in Requests, req[r].todo # <<>>, Throw(r),
         req[r].todo[1][1] # "delete", UNCHANGED <<cache, user, roles, tokens>>
  PROVE  Safe'
<1>1. Proper
  BY DEF AccountsTypes, Shaped
<1>2. Elsewhere(r) /\ contended' = contended /\ req'[r].todo = <<>> /\ Left(r)' = {}
  BY <1>1, Throws DEF Thrown
<1>3. Knows(r)' /\ Issuing(r)
  BY <1>1, <1>2, DoneKnows, DoneIssues
<1>4. \A k : ~Drops(r, k)
  BY DEF Drops
<1>5. QED
  BY <1>2, <1>3, <1>4, QuietSafe

\* The request has read something.
LEMMA ReadSafe ==
  ASSUME AccountsTypes, Safe, NEW r \in Requests, req[r].todo # <<>>, NEW h, h = req[r].todo[1],
         h[1] \in {"select", "peek"}, NEW got, Goes(r, Tail(req[r].todo), got),
         UNCHANGED <<cache, user, roles, tokens>>,
         \A k \in UsersKeys : Gives(h, k) =>
           k[1] \in DOMAIN got /\ got[k[1]] = Current(k) /\ (k[1] # "roles" => k[2] \in Registered),
         \A k \in UsersKeys : ~Gives(h, k) /\ ~Breaks(h, k) /\ k[1] \in DOMAIN req[r].got =>
           k[1] \in DOMAIN got /\ got[k[1]] = req[r].got[k[1]]
  PROVE  Safe'
<1>1. Shaped /\ Proper /\ Knows(r)
  BY DEF AccountsTypes, Shaped, Safe, Known
<1>2. /\ Elsewhere(r) /\ contended' = contended /\ req'[r].todo = Tail(req[r].todo)
      /\ req'[r] # Idle => req'[r].got = got
  BY <1>1, Continues DEF Went
<1>3. Issuing(r)
  BY <1>1, <1>2, DoneIssues
<1>4. \A k \in Facts : Undisturbed(k)
  BY QuietUndisturbed
<1>5. ~At(r, "revoke") /\ \A k : ~Drops(r, k)
  BY DEF At, Drops
<1>6. CASE req'[r] = Idle
  <2>1. req'[r].todo = <<>>
    BY <1>6 DEF Idle
  <2>2. QED
    BY <1>2, <1>3, <1>5, <2>1, DoneKnows, QuietSafe
<1>7. CASE req'[r] # Idle
  <2>1. ASSUME NEW k \in Facts, Gives(h, k) PROVE Holds(r, k)'
    <3>1. k = h[2] /\ h[1] = "select"
      BY <2>1 DEF Gives
    <3>2. StepOK(h)
      BY <1>1, AtHand
    <3>3. k \in Copies
      BY <3>1, <3>2 DEF StepOK, Reads
    <3>4. k \in UsersKeys
      <4>1. k \notin UsersKeys => k[1] \in {"reviews:user", "reviews:listing"}
        BY <3>3, PageKeys DEF Copies
      <4>2. k[1] \in {"profile", "status", "roles", "free", "dropped", "absent"}
        BY DEF Facts, UsersKeys
      <4>3. QED
        BY <4>1, <4>2
    <3>5. k[1] \in DOMAIN got /\ got[k[1]] = Current(k) /\ (k[1] # "roles" => k[2] \in Registered)
      BY <2>1, <3>4
    <3>6. Undisturbed(k) /\ req'[r].got = got /\ k[1] \in {"profile", "status", "roles"}
      BY <1>2, <1>4, <1>7, <3>4, FactKinds
    <3>7. QED
      BY <3>4, <3>5, <3>6 DEF Holds, Undisturbed
  <2>2. ASSUME NEW k \in Facts, ~Breaks(h, k) /\ ~Gives(h, k) PROVE Undisturbed(k) /\ Remembered(r, k)
    BY <1>2, <1>4, <1>7, <2>2 DEF Remembered
  <2>3. Knows(r)'
    BY <1>1, <1>2, <2>1, <2>2, TailKnows
  <2>4. QED
    BY <1>2, <1>3, <1>5, <2>3, QuietSafe
<1>8. QED
  BY <1>6, <1>7

LEMMA PeekSafe ==
  ASSUME AccountsTypes, Safe, NEW r \in Requests, CachePeek(r), UNCHANGED tables
  PROVE  Safe'
<1>1. PICK h, c : h = req[r].todo[1] /\ c = h[2]
  OBVIOUS
<1>2. /\ req[r].todo # <<>> /\ h[1] = "peek" /\ UNCHANGED cache
      /\ IF c \in DOMAIN cache THEN Read(r, c[1], cache[c])
         ELSE Goes(r, Tail(req[r].todo), Without(req[r].got, {c[1]}))
  BY <1>1 DEF CachePeek, At, Arg
<1>3. PICK got : /\ got \in {With(req[r].got, c[1], cache[c]), Without(req[r].got, {c[1]})}
                 /\ Goes(r, Tail(req[r].todo), got)
  BY <1>2 DEF Read
<1>4. StepOK(h)
  BY <1>1, <1>2, AtHand DEF AccountsTypes
<1>5. c[1] \in {"flash-call", "2fa:temp"}
  BY <1>1, <1>2, <1>4 DEF StepOK
<1>6. ASSUME NEW k \in UsersKeys PROVE ~Gives(h, k) /\ k[1] # c[1]
  BY <1>2, <1>5 DEF Gives, UsersKeys
<1>7. ASSUME NEW k \in UsersKeys, k[1] \in DOMAIN req[r].got
      PROVE  k[1] \in DOMAIN got /\ got[k[1]] = req[r].got[k[1]]
  BY <1>3, <1>6, <1>7 DEF With, Without
<1>8. UNCHANGED <<user, roles, tokens>>
  BY DEF tables
<1>9. QED
  BY <1>1, <1>2, <1>3, <1>6, <1>7, <1>8, ReadSafe

LEMMA SelectSafe ==
  ASSUME AccountsTypes, Safe, NEW r \in Requests, UNCHANGED cache, UNCHANGED tables,
         SelectProfile(r) \/ SelectStatus(r) \/ SelectRoles(r) \/ SelectPage(r)
  PROVE  Safe'
<1>1. PICK h, c : h = req[r].todo[1] /\ c = h[2]
  OBVIOUS
<1>2. /\ req[r].todo # <<>> /\ h[1] = "select"
      /\ \/ Throw(r)
         \/ c[1] = "profile" /\ user[c[2]] # NoRow /\ Read(r, c[1], Profile(c[2]))
         \/ c[1] = "status" /\ user[c[2]] # NoRow /\ Read(r, c[1], user[c[2]].online)
         \/ c[1] = "roles" /\ Read(r, c[1], roles[c[2]])
         \/ c[1] \in {"reviews:user", "reviews:listing"} /\ Read(r, c[1], PageOf(c))
  BY <1>1 DEF SelectProfile, SelectStatus, SelectRoles, SelectPage, At, Arg
<1>3. UNCHANGED <<user, roles, tokens>>
  BY DEF tables
<1>4. CASE Throw(r)
  BY <1>1, <1>2, <1>3, <1>4, ThrowSafe
<1>5. CASE ~Throw(r)
  <2>1. PICK v : /\ Read(r, c[1], v)
                 /\ \/ c[1] = "profile" /\ user[c[2]] # NoRow /\ v = Profile(c[2])
                    \/ c[1] = "status" /\ user[c[2]] # NoRow /\ v = user[c[2]].online
                    \/ c[1] = "roles" /\ v = roles[c[2]]
                    \/ c[1] \in {"reviews:user", "reviews:listing"}
    BY <1>2, <1>5
  <2>2. PICK got : got = With(req[r].got, c[1], v)
    OBVIOUS
  <2>3. /\ Goes(r, Tail(req[r].todo), got) /\ c[1] \in DOMAIN got /\ got[c[1]] = v
        /\ \A s \in DOMAIN req[r].got : s # c[1] => s \in DOMAIN got /\ got[s] = req[r].got[s]
    BY <2>1, <2>2 DEF Read, With
  <2>4. ASSUME NEW k \in UsersKeys, Gives(h, k)
        PROVE  k[1] \in DOMAIN got /\ got[k[1]] = Current(k) /\ (k[1] # "roles" => k[2] \in Registered)
    <3>1. k = c /\ k[2] \in Users /\ k[1] \in {"profile", "status", "roles"}
      BY <1>1, <1>2, <2>4 DEF Gives, UsersKeys
    <3>2. v = Current(k)
      BY <2>1, <3>1, CurrentIs
    <3>3. QED
      BY <2>1, <2>3, <3>1, <3>2 DEF Registered
  <2>5. ASSUME NEW k \in UsersKeys, ~Gives(h, k), ~Breaks(h, k), k[1] \in DOMAIN req[r].got
        PROVE  k[1] \in DOMAIN got /\ got[k[1]] = req[r].got[k[1]]
    <3>1. k[1] # c[1]
      BY <1>1, <1>2, <2>5 DEF Gives, Breaks
    <3>2. QED
      BY <2>3, <2>5, <3>1
  <2>6. \A k \in UsersKeys : ~Gives(h, k) /\ ~Breaks(h, k) /\ k[1] \in DOMAIN req[r].got =>
          k[1] \in DOMAIN got /\ got[k[1]] = req[r].got[k[1]]
    BY <2>5
  <2>7. Goes(r, Tail(req[r].todo), got) /\ h[1] \in {"select", "peek"}
    BY <1>2, <2>3
  <2>8. \A k \in UsersKeys : Gives(h, k) =>
          k[1] \in DOMAIN got /\ got[k[1]] = Current(k) /\ (k[1] # "roles" => k[2] \in Registered)
    BY <2>4
  <2>9. req[r].todo # <<>> /\ h = req[r].todo[1] /\ UNCHANGED <<cache, user, roles, tokens>>
    BY <1>1, <1>2, <1>3
  <2>10. QED
    BY <2>6, <2>7, <2>8, <2>9, ReadSafe, SMTT(30)
<1>6. QED
  BY <1>4, <1>5

LEMMA GetSafe ==
  ASSUME AccountsTypes, Safe, NEW r \in Requests, CacheGet(r), UNCHANGED tables
  PROVE  Safe'
<1>1. PICK h, c : h = req[r].todo[1] /\ c = h[2]
  OBVIOUS
<1>2. PICK todo, got : /\ todo = SubSeq(req[r].todo, 4, Len(req[r].todo))
                       /\ got = With(req[r].got, c[1], cache[c])
  OBVIOUS
<1>3. /\ At(r, "get") /\ c = Arg(r, 1) /\ req[r].todo # <<>> /\ h[1] = "get" /\ UNCHANGED cache
      /\ IF c \in DOMAIN cache THEN Goes(r, todo, got) ELSE Continue(r)
  BY <1>1, <1>2 DEF CacheGet, At, Arg
<1>4. UNCHANGED <<user, roles, tokens>>
  BY DEF tables
<1>5. Shaped /\ Proper /\ Knows(r) /\ CacheFresh
  BY DEF AccountsTypes, Shaped, Safe, Known
<1>6. CASE c \notin DOMAIN cache
  BY <1>1, <1>3, <1>4, <1>6, DoneSafe
<1>7. CASE c \in DOMAIN cache
  <2>1. /\ c \in Copies /\ c[2] \in req[r].about /\ Fit(todo, req[r].about)
        /\ \A k \in Facts : Needs(todo, k) => k = c \/ (Needs(req[r].todo, k) /\ k[1] # c[1])
    BY <1>2, <1>3, <1>5, HitNeeds
  <2>2. Program(todo) /\ Goes(r, todo, got)
    BY <1>3, <1>7, <2>1 DEF Fit
  <2>3. /\ Elsewhere(r) /\ req'[r].todo = todo /\ contended' = contended
        /\ req'[r] # Idle => req'[r].got = got
    <3>1. /\ Elsewhere(r) /\ req'[r].todo = todo /\ UNCHANGED <<mix, calls, faults, contended>>
          /\ req'[r] = IF todo = <<>> THEN Idle
                       ELSE [op |-> req[r].op, about |-> req[r].about, todo |-> todo, got |-> got]
      BY <1>5, <2>2, GoesOn
    <3>2. req'[r] # Idle => req'[r].got = got
      BY <3>1
    <3>3. QED
      BY <3>1, <3>2
  <2>4. Issuing(r)
    <3>1. \A x \in Steps(todo) : x \in Steps(req[r].todo)
      <4>1. PICK q : q = req[r].todo
        OBVIOUS
      <4>2. q \in Seq(Steps(q)) /\ Len(q) \in Nat /\ DOMAIN q = 1..Len(q)
        BY <1>3, <1>5, <4>1, ProgramTail DEF Proper, Program
      <4>3. todo = SubSeq(q, 4, Len(q))
        BY <1>2, <4>1
      <4>4. \A i \in DOMAIN todo : i + 3 \in DOMAIN q /\ todo[i] = q[i + 3]
        BY <4>2, <4>3
      <4>5. QED
        BY <4>1, <4>4 DEF Steps
    <3>2. QED
      BY <2>3, <3>1 DEF Issuing, Left
  <2>5. ~At(r, "revoke") /\ \A k : ~Drops(r, k)
    BY <1>1, <1>3 DEF At, Drops
  <2>6. CASE req'[r] = Idle
    <3>1. req'[r].todo = <<>>
      BY <2>6 DEF Idle
    <3>2. QED
      BY <1>3, <1>4, <2>3, <2>4, <2>5, <3>1, DoneKnows, QuietSafe
  <2>7. CASE req'[r] # Idle
    <3>1. c[1] \in DOMAIN got /\ got[c[1]] = cache[c]
          /\ \A s \in DOMAIN req[r].got : s # c[1] => s \in DOMAIN got /\ got[s] = req[r].got[s]
      BY <1>2 DEF With
    <3>2. ASSUME NEW k \in Facts, Needs(todo, k), k[2] \notin contended PROVE Holds(r, k)'
      <4>1. Undisturbed(k)
        BY <1>3, <1>4, QuietUndisturbed
      <4>2. CASE k = c
        <5>1. k \in UsersKeys
          <6>1. k \notin UsersKeys => k[1] \in {"reviews:user", "reviews:listing"}
            BY <2>1, <4>2, PageKeys DEF Copies
          <6>2. k[1] \in {"profile", "status", "roles", "free", "dropped", "absent"}
            BY DEF Facts, UsersKeys
          <6>3. QED
            BY <6>1, <6>2
        <5>2. ASSUME NEW q \in Requests, Drops(q, k) PROVE FALSE
          <6>1. q # r /\ k[2] \in req[q].about
            BY <1>5, <2>5, <5>2, DropsMind
          <6>2. QED
            BY <1>5, <2>1, <3>2, <4>2, <6>1, SharedContended
        <5>3. cache[k] = Current(k) /\ (k[1] # "roles" => k[2] \in Registered)
          BY <1>5, <1>7, <3>2, <4>2, <5>1, <5>2 DEF CacheFresh
        <5>4. k[1] \in {"profile", "status", "roles"} /\ req'[r].got = got
          BY <2>3, <2>7, <5>1, FactKinds
        <5>5. QED
          BY <3>1, <4>1, <4>2, <5>1, <5>3, <5>4 DEF Holds, Undisturbed
      <4>3. CASE k # c
        <5>1. Needs(req[r].todo, k) /\ k[1] # c[1]
          BY <2>1, <3>2, <4>3
        <5>2. Remembered(r, k)
          BY <2>3, <2>7, <3>1, <5>1 DEF Remembered
        <5>3. QED
          BY <1>5, <2>3, <3>2, <4>1, <5>1, <5>2, HoldsStays DEF Knows
      <4>4. QED
        BY <4>2, <4>3
    <3>3. Knows(r)'
      BY <2>3, <3>2 DEF Knows
    <3>4. QED
      BY <1>3, <1>4, <2>3, <2>4, <2>5, <3>3, QuietSafe
  <2>8. QED
    BY <2>6, <2>7
<1>8. QED
  BY <1>6, <1>7

\* What the step at hand is followed by.
LEMMA NextIs ==
  ASSUME Shaped, NEW r \in Requests, req[r].todo # <<>>, NEW h, h = req[r].todo[1],
         req'[r].todo = Tail(req[r].todo)
  PROVE  /\ h[1] = "write" => Drops(r, <<KeyOf(h[3]), h[2]>>)'
         /\ h[1] = "insertRole" => Drops(r, RolesKey(h[2]))'
<1>1. PICK q : q = req[r].todo
  OBVIOUS
<1>2. Program(q) /\ Adjacent(q) /\ q # <<>> /\ h = q[1]
  BY <1>1 DEF Shaped, Fit
<1>3. /\ 1 \in DOMAIN q /\ \A i \in DOMAIN Tail(q) : i + 1 \in DOMAIN q /\ Tail(q)[i] = q[i + 1]
      /\ Len(q) \in Nat \ {0} /\ Len(Tail(q)) = Len(q) - 1
      /\ DOMAIN q = 1..Len(q) /\ DOMAIN Tail(q) = 1..Len(Tail(q))
  BY <1>2, ProgramTail
<1>4. ASSUME 1 + 1 \in DOMAIN q PROVE Tail(q) # <<>> /\ Tail(q)[1] = q[1 + 1]
  <2>1. 1 \in DOMAIN Tail(q)
    BY <1>3, <1>4
  <2>2. Tail(q)[1] = q[1 + 1]
    BY <1>3, <2>1
  <2>3. Tail(q) # <<>>
    <3>1. PICK p : p = Tail(q)
      OBVIOUS
    <3>2. 1 \in DOMAIN p
      BY <2>1, <3>1
    <3>3. p # <<>>
      BY <3>2
    <3>4. QED
      BY <3>1, <3>3
  <2>4. QED
    BY <2>2, <2>3
<1>5. ASSUME NEW d, 1 + 1 \in DOMAIN q, q[1 + 1] = <<"delete", d>> PROVE Drops(r, d)'
  <2>1. Tail(q) # <<>> /\ Tail(q)[1] = <<"delete", d>>
    BY <1>4, <1>5
  <2>2. req'[r].todo # <<>> /\ req'[r].todo[1] = <<"delete", d>>
    BY <1>1, <2>1
  <2>3. QED
    BY <2>2 DEF Drops
<1>6. ASSUME h[1] = "write" PROVE Drops(r, <<KeyOf(h[3]), h[2]>>)'
  <2>1. PICK d : d = <<KeyOf(h[3]), h[2]>>
    OBVIOUS
  <2>2. 1 + 1 \in DOMAIN q /\ q[1 + 1] = <<"delete", d>>
    BY <1>2, <1>3, <1>6, <2>1 DEF Adjacent
  <2>3. Drops(r, d)'
    BY <1>5, <2>2
  <2>4. QED
    BY <2>1, <2>3
<1>7. ASSUME h[1] = "insertRole" PROVE Drops(r, RolesKey(h[2]))'
  <2>1. PICK d : d = RolesKey(h[2])
    OBVIOUS
  <2>2. 1 + 1 \in DOMAIN q /\ q[1 + 1] = <<"delete", d>>
    BY <1>2, <1>3, <1>7, <2>1 DEF Adjacent
  <2>3. Drops(r, d)'
    BY <1>5, <2>2
  <2>4. QED
    BY <2>1, <2>3
<1>8. QED
  BY <1>6, <1>7

LEMMA SetSafe ==
  ASSUME AccountsTypes, Safe, NEW r \in Requests, CacheSet(r), UNCHANGED tables
  PROVE  Safe'
<1>1. PICK h, c : h = req[r].todo[1] /\ c = h[2]
  OBVIOUS
<1>2. /\ req[r].todo # <<>> /\ h[1] = "set" /\ Continue(r)
      /\ cache' = With(cache, c, req[r].got[c[1]])
  BY <1>1 DEF CacheSet, At, Arg, Got
<1>3. UNCHANGED <<user, roles, tokens>>
  BY DEF tables
<1>4. Shaped /\ Proper /\ Knows(r) /\ Known /\ Chains /\ TelegramUnique
  BY DEF AccountsTypes, Shaped, Safe, Known
<1>5. StepOK(h) /\ Minds(h, req[r].about)
  BY <1>1, <1>2, <1>4, AtHand
<1>6. c \in Copies /\ c[2] \in req[r].about
  BY <1>1, <1>2, <1>5 DEF StepOK, Minds, Reads
<1>7. ASSUME NEW k, k # c, k \in DOMAIN cache' PROVE k \in DOMAIN cache /\ cache'[k] = cache[k]
  BY <1>2, <1>7 DEF With
<1>8. CASE c \notin UsersKeys
  <2>1. \A k \in UsersKeys : k \in DOMAIN cache' => k \in DOMAIN cache /\ cache'[k] = cache[k]
    BY <1>7, <1>8
  <2>2. QED
    BY <1>1, <1>2, <1>3, <2>1, DoneSafe
<1>9. CASE c \in UsersKeys
  <2>1. PICK got : got = req[r].got
    OBVIOUS
  <2>2. Goes(r, Tail(req[r].todo), got)
    BY <1>2, <2>1 DEF Continue
  <2>3. /\ Elsewhere(r) /\ contended' = contended /\ req'[r].todo = Tail(req[r].todo)
        /\ req'[r] # Idle => req'[r].got = got
    BY <1>2, <1>4, <2>2, Continues DEF Went
  <2>4. Issuing(r)
    BY <1>2, <1>4, <2>3, DoneIssues
  <2>5. ~At(r, "revoke") /\ \A k : ~Drops(r, k)
    BY <1>1, <1>2 DEF At, Drops
  <2>6. Registered' = Registered
    BY <1>3 DEF Registered
  <2>7. ASSUME NEW k \in UsersKeys PROVE Current(k)' = Current(k) /\ k \in Facts /\ k[1] \notin {"free", "dropped", "absent"}
    <3>1. Profile(k[2])' = Profile(k[2])
      BY <1>3 DEF Profile
    <3>2. k[1] \in {"profile", "status", "roles"}
      BY DEF UsersKeys
    <3>3. QED
      BY <1>3, <3>1, <3>2, CurrentIs DEF Facts
  <2>8. ASSUME NEW k \in Facts PROVE Undisturbed(k) \/ (k = <<"dropped", c[2]>> /\ c = ProfileKey(c[2]))
    <3>1. CASE k[1] = "dropped" /\ c = ProfileKey(k[2])
      BY <3>1, FactKinds DEF ProfileKey
    <3>2. CASE ~(k[1] = "dropped" /\ c = ProfileKey(k[2]))
      <4>1. k[1] = "dropped" => (ProfileKey(k[2]) \in DOMAIN cache' => ProfileKey(k[2]) \in DOMAIN cache)
        BY <1>7, <3>2
      <4>2. QED
        BY <1>3, <2>6, <2>7, <4>1 DEF Undisturbed
    <3>3. QED
      BY <3>1, <3>2
  <2>9. \A k \in Facts : Undisturbed(k) \/ k[2] \in contended' \cup req[r].about
    BY <1>6, <2>8
  <2>10. ASSUME NEW k \in UsersKeys, k \in DOMAIN cache'
         PROVE  \/ k[2] \in contended'
                \/ Undisturbed(k) /\ k \in DOMAIN cache /\ cache'[k] = cache[k] /\ ~Drops(r, k)
                \/ cache'[k] = Current(k)' /\ (k[1] # "roles" => k[2] \in Registered')
    <3>1. CASE k = c
      <4>1. Needs(req[r].todo, k)
        BY <1>1, <1>2, <1>4, <3>1, NeedsHead DEF Uses, Shaped, Fit
      <4>2. k[2] \in contended \/ Holds(r, k)
        BY <1>4, <2>7, <4>1 DEF Knows
      <4>3. CASE Holds(r, k)
        <5>1. req[r].got[k[1]] = Current(k) /\ (k[1] # "roles" => k[2] \in Registered)
          BY <4>3, FactKinds, <2>7 DEF Holds
        <5>2. cache'[k] = req[r].got[k[1]]
          BY <1>2, <3>1 DEF With
        <5>3. QED
          BY <2>6, <2>7, <5>1, <5>2
      <4>4. QED
        BY <2>3, <4>2, <4>3
    <3>2. CASE k # c
      <4>1. Undisturbed(k)
        <5>1. k # <<"dropped", c[2]>>
          BY <2>7
        <5>2. QED
          BY <2>7, <2>8, <5>1
      <4>2. QED
        BY <1>7, <2>5, <2>10, <3>2, <4>1
    <3>3. QED
      BY <3>1, <3>2
  <2>11. Knows(r)'
    <3>1. CASE req'[r] = Idle
      <4>1. req'[r].todo = <<>>
        BY <3>1 DEF Idle
      <4>2. QED
        BY <4>1, DoneKnows
    <3>2. CASE req'[r] # Idle
      <4>1. \A k \in Facts : Remembered(r, k)
        BY <2>1, <2>3, <3>2 DEF Remembered
      <4>2. ASSUME NEW k \in Facts, ~Breaks(h, k) PROVE Undisturbed(k)
        <5>1. ~(k = <<"dropped", c[2]>> /\ c = ProfileKey(c[2]))
          BY <1>1, <1>2, <4>2 DEF Breaks, ProfileKey
        <5>2. QED
          BY <2>8, <5>1
      <4>3. \A k \in Facts : ~Gives(h, k)
        BY <1>2 DEF Gives
      <4>4. QED
        BY <1>1, <1>2, <1>4, <2>3, <4>1, <4>2, <4>3, TailKnows
    <3>3. QED
      BY <3>1, <3>2
  <2>12. TelegramUnique'
    BY <1>3, <1>4, <2>3, <2>6 DEF TelegramUnique
  <2>13. contended \subseteq contended'
    BY <2>3
  <2>14. Known'
    BY <1>4, <2>3, <2>9, <2>10, <2>11, <2>12, <2>13, StepKnown
  <2>15. Chains'
    BY <1>3, <1>4, <2>3, <2>4, <2>5, <2>13, ChainsStay
  <2>16. QED
    BY <2>14, <2>15 DEF Safe
<1>10. QED
  BY <1>8, <1>9

LEMMA DeleteSafe ==
  ASSUME AccountsTypes, Safe, NEW r \in Requests, CacheDelete(r), UNCHANGED tables
  PROVE  Safe'
<1>1. PICK h, c : h = req[r].todo[1] /\ c = h[2]
  OBVIOUS
<1>2. /\ req[r].todo # <<>> /\ h[1] = "delete" /\ Continue(r) /\ cache' = Without(cache, {c})
  BY <1>1 DEF CacheDelete, At, Arg
<1>3. UNCHANGED <<user, roles, tokens>>
  BY DEF tables
<1>4. Shaped /\ Proper /\ Knows(r)
  BY DEF AccountsTypes, Shaped, Safe, Known
<1>5. PICK got : got = req[r].got
  OBVIOUS
<1>6. Goes(r, Tail(req[r].todo), got)
  BY <1>2, <1>5 DEF Continue
<1>7. /\ Elsewhere(r) /\ contended' = contended /\ req'[r].todo = Tail(req[r].todo)
      /\ req'[r] # Idle => req'[r].got = got
  BY <1>2, <1>4, <1>6, Continues DEF Went
<1>8. Issuing(r)
  BY <1>2, <1>4, <1>7, DoneIssues
<1>9. \A k : k \in DOMAIN cache' => k \in DOMAIN cache /\ cache'[k] = cache[k] /\ k # c
  BY <1>2 DEF Without
<1>10. \A k : Drops(r, k) => k = c
  BY <1>1 DEF Drops
<1>11. \A k \in Facts : Undisturbed(k)
  BY <1>3, <1>9, QuietUndisturbed
<1>12. Knows(r)'
  <2>1. CASE req'[r] = Idle
    <3>1. req'[r].todo = <<>>
      BY <2>1 DEF Idle
    <3>2. QED
      BY <3>1, DoneKnows
  <2>2. CASE req'[r] # Idle
    <3>1. \A k \in Facts : Remembered(r, k)
      BY <1>5, <1>7, <2>2 DEF Remembered
    <3>2. ASSUME NEW k \in Facts, Gives(h, k) PROVE Holds(r, k)'
      <4>1. c = ProfileKey(c[2]) /\ k = <<"dropped", c[2]>>
        BY <1>1, <1>2, <3>2 DEF Gives
      <4>2. k[1] = "dropped" /\ k[2] = c[2]
        BY <4>1
      <4>3. ProfileKey(k[2]) \notin DOMAIN cache'
        BY <1>9, <4>1, <4>2
      <4>4. QED
        BY <4>2, <4>3 DEF Holds, ProfileKey
    <3>3. contended \subseteq contended'
      BY <1>7
    <3>4. QED
      BY <1>1, <1>2, <1>4, <1>7, <1>11, <3>1, <3>2, <3>3, TailKnows
  <2>3. QED
    BY <2>1, <2>2
<1>13. /\ ~At(r, "revoke") /\ contended \subseteq contended'
       /\ \A k \in UsersKeys : k \in DOMAIN cache' => k \in DOMAIN cache /\ cache'[k] = cache[k] /\ ~Drops(r, k)
  BY <1>1, <1>2, <1>7, <1>9, <1>10 DEF At
<1>14. QED
  BY <1>3, <1>7, <1>8, <1>12, <1>13, QuietSafe

\* What a new row of the user u leaves as it was.
Spared(k, u, row) ==
  \/ k[1] # "free" /\ k[2] # u
  \/ k[1] \in {"dropped", "roles"}
  \/ k[1] = "free" /\ (row.tg # k[2] \/ (u \in Registered /\ user[u].tg = row.tg))
  \/ k[1] = "profile" /\ u \in Registered /\ \A c \in Columns \ {"online"} : row[c] = user[u][c]
  \/ k[1] = "status" /\ u \in Registered /\ row.online = user[u].online

LEMMA RowUndisturbed ==
  ASSUME Tables, NEW u \in Users, NEW row \in UserRow, user' = [user EXCEPT ![u] = row],
         UNCHANGED <<roles, cache>>
  PROVE  /\ Registered' = Registered \cup {u} /\ user'[u] = row
         /\ \A v \in Users : v # u => user'[v] = user[v]
         /\ \A k \in Facts : Spared(k, u, row) => Undisturbed(k)
<1>1. user'[u] = row /\ \A v \in Users : v # u => user'[v] = user[v]
  BY DEF Tables
<1>2. row # NoRow
  BY AccountsAssumption
<1>3. Registered' = Registered \cup {u}
  BY <1>1, <1>2 DEF Registered
<1>4. ASSUME NEW v, v \in Users, v # u PROVE Profile(v)' = Profile(v)
  BY <1>1, <1>4 DEF Profile
<1>5. ASSUME \A c \in Columns \ {"online"} : row[c] = user[u][c] PROVE Profile(u)' = Profile(u)
  BY <1>1, <1>5 DEF Profile
<1>6. ASSUME NEW k \in Facts,
             \/ k[1] # "free" /\ k[2] # u
             \/ k[1] \in {"dropped", "roles"}
             \/ k[1] = "free" /\ (row.tg # k[2] \/ (u \in Registered /\ user[u].tg = row.tg))
             \/ k[1] = "profile" /\ u \in Registered /\ \A c \in Columns \ {"online"} : row[c] = user[u][c]
             \/ k[1] = "status" /\ u \in Registered /\ row.online = user[u].online
      PROVE  Undisturbed(k)
  <2>1. CASE k \in UsersKeys
    <3>1. k[1] \in {"profile", "status", "roles"} /\ k[2] \in Users
      BY <2>1, FactKinds
    <3>2. Current(k)' = Current(k)
      <4>1. CASE k[1] = "profile"
        <5>1. Profile(k[2])' = Profile(k[2])
          <6>1. CASE k[2] = u
            <7>1. Profile(u)' = Profile(u)
              BY <1>5, <1>6, <4>1, <6>1
            <7>2. PICK v : v = k[2]
              OBVIOUS
            <7>3. QED
              BY <6>1, <7>1, <7>2
          <6>2. CASE k[2] # u
            BY <1>4, <3>1, <6>2
          <6>3. QED
            BY <6>1, <6>2
        <5>2. QED
          BY <2>1, <4>1, <5>1, CurrentIs
      <4>2. CASE k[1] = "status"
        <5>1. user'[k[2]].online = user[k[2]].online
          BY <1>1, <1>6, <3>1, <4>2
        <5>2. QED
          BY <2>1, <4>2, <5>1, CurrentIs
      <4>3. CASE k[1] = "roles"
        BY <2>1, <4>3, CurrentIs
      <4>4. QED
        BY <3>1, <4>1, <4>2, <4>3
    <3>3. QED
      BY <1>3, <3>1, <3>2 DEF Undisturbed
  <2>2. CASE k \notin UsersKeys
    <3>1. k[1] \notin {"profile", "status", "roles"}
      BY <2>2, FactKinds
    <3>2. k[1] = "free" => \A v \in Registered' :
            user'[v].tg = k[2] => v \in contended' \/ (v \in Registered /\ user[v].tg = k[2])
      BY <1>1, <1>3, <1>6, <3>1 DEF Registered
    <3>3. k[1] = "absent" => (k[2] \in Registered' => k[2] \in Registered)
      BY <1>3, <1>6, <3>1
    <3>4. QED
      BY <2>2, <3>2, <3>3 DEF Undisturbed
  <2>3. QED
    BY <2>1, <2>2
<1>7. QED
  BY <1>1, <1>3, <1>6 DEF Spared

\* Nobody else has the Telegram account of the row, or the row had it before.
LEMMA RowTelegram ==
  ASSUME Tables, NEW u \in Users, NEW row \in UserRow, user' = [user EXCEPT ![u] = row],
         TelegramUnique, contended \subseteq contended',
         \/ row.tg = NoTg \/ u \in contended \/ row.tg \in contended
         \/ u \in Registered /\ user[u].tg = row.tg
         \/ \A v \in Registered : user[v].tg = row.tg => v \in contended
  PROVE  TelegramUnique'
<1>1. user'[u] = row /\ \A v \in Users : v # u => user'[v] = user[v]
  BY DEF Tables
<1>2. \A v \in Registered' : v = u \/ (v \in Registered /\ v # u /\ user'[v] = user[v])
  BY <1>1 DEF Registered
<1>3. ASSUME NEW v \in Registered, v # u, user[v].tg = row.tg, row.tg # NoTg
      PROVE  {u, v, row.tg} \cap contended # {}
  <2>1. CASE u \in Registered /\ user[u].tg = row.tg
    BY <1>3, <2>1 DEF TelegramUnique
  <2>2. QED
    BY <1>3, <2>1
<1>4. ASSUME NEW v \in Registered', NEW w \in Registered', v # w, user'[v].tg = user'[w].tg, user'[v].tg # NoTg
      PROVE  {v, w, user'[v].tg} \cap contended' # {}
  <2>1. CASE v = u
    <3>1. w \in Registered /\ w # u /\ user'[w] = user[w] /\ user[w].tg = row.tg /\ row.tg # NoTg
      BY <1>1, <1>2, <1>4, <2>1
    <3>2. {u, w, row.tg} \cap contended # {}
      BY <1>3, <3>1
    <3>3. QED
      BY <1>1, <2>1, <3>2
  <2>2. CASE w = u
    <3>1. v \in Registered /\ v # u /\ user'[v] = user[v] /\ user[v].tg = row.tg /\ row.tg # NoTg
      BY <1>1, <1>2, <1>4, <2>2
    <3>2. {u, v, row.tg} \cap contended # {}
      BY <1>3, <3>1
    <3>3. QED
      BY <2>2, <3>1, <3>2
  <2>3. CASE v # u /\ w # u
    <3>1. v \in Registered /\ user'[v] = user[v] /\ w \in Registered /\ user'[w] = user[w]
      BY <1>2, <2>3
    <3>2. {v, w, user[v].tg} \cap contended # {}
      BY <1>4, <3>1 DEF TelegramUnique
    <3>3. QED
      BY <3>1, <3>2
  <2>4. QED
    BY <2>1, <2>2, <2>3
<1>5. QED
  BY <1>4 DEF TelegramUnique

\* A step that writes a row, and ends what the request knew.
LEMMA WritesSafe ==
  ASSUME AccountsTypes, Safe, NEW r \in Requests, req[r].todo # <<>>, NEW h, h = req[r].todo[1],
         h[1] \in Writes, Continue(r), UNCHANGED <<cache, tokens>>,
         \A k \in Facts : Undisturbed(k) \/ k[2] \in contended \cup req[r].about,
         req'[r].todo = Tail(req[r].todo) =>
           \A k \in UsersKeys : k \in DOMAIN cache => k[2] \in contended \/ Undisturbed(k) \/ Drops(r, k)',
         contended \subseteq contended' => TelegramUnique'
  PROVE  Safe'
<1>1. Shaped /\ Proper /\ Known /\ Chains
  BY DEF AccountsTypes, Shaped, Safe
<1>2. PICK got : got = req[r].got
  OBVIOUS
<1>3. Goes(r, Tail(req[r].todo), got)
  BY <1>2 DEF Continue
<1>4. Elsewhere(r) /\ contended' = contended /\ req'[r].todo = Tail(req[r].todo)
  BY <1>1, <1>3, Continues DEF Went
<1>5. Issuing(r)
  BY <1>1, <1>4, DoneIssues
<1>6. ~At(r, "revoke") /\ \A k : ~Drops(r, k)
  BY DEF At, Drops, Writes
<1>7. Knows(r)'
  <2>1. Whole(Tail(req[r].todo), req[r].about)
    BY <1>1, AtHand
  <2>2. QED
    BY <1>4, <2>1 DEF Knows, Whole, Closed
<1>8. contended \subseteq contended' /\ \A k \in Facts : Undisturbed(k) \/ k[2] \in contended' \cup req[r].about
  BY <1>4
<1>9. \A k \in UsersKeys : k \in DOMAIN cache' =>
        \/ k[2] \in contended'
        \/ Undisturbed(k) /\ k \in DOMAIN cache /\ cache'[k] = cache[k] /\ ~Drops(r, k)
        \/ Drops(r, k)'
  BY <1>4, <1>6
<1>10. Known'
  BY <1>1, <1>4, <1>7, <1>8, <1>9, StepKnown
<1>11. Chains'
  BY <1>1, <1>4, <1>5, <1>6, <1>8, ChainsStay
<1>12. QED
  BY <1>10, <1>11 DEF Safe

\* What a request knows when it saves a user: what the row holds, but for the columns of its patch.
LEMMA SaveKnows ==
  ASSUME AccountsTypes, Known, NEW r \in Requests, At(r, "save"),
         NEW u, u = Arg(r, 1), NEW patch, patch = Arg(r, 2), NEW row, row = Merged(r, patch)
  PROVE  /\ u \in Users /\ u \in req[r].about /\ row \in UserRow /\ "online" \notin DOMAIN patch
         /\ u \notin contended =>
              /\ u \in Registered /\ ProfileKey(u) \notin DOMAIN cache
              /\ \A c \in Columns : c \in DOMAIN patch \/ row[c] = user[u][c]
         /\ "tg" \in DOMAIN patch => row.tg = patch.tg
         /\ "tg" \in DOMAIN patch /\ patch.tg # NoTg =>
              /\ patch.tg \in req[r].about
              /\ patch.tg \in contended \/ \A v \in Registered : user[v].tg = patch.tg => v \in contended
<1>1. PICK h : h = req[r].todo[1]
  OBVIOUS
<1>2. /\ req[r].todo # <<>> /\ h[1] = "save" /\ u = h[2] /\ patch = h[3]
      /\ Shaped /\ Knows(r) /\ Program(req[r].todo)
  BY <1>1 DEF At, Arg, AccountsTypes, Known, Shaped, Fit
<1>3. u \in Users /\ u \in req[r].about /\ row \in UserRow
  BY <1>2, MergedRow
<1>4. StepOK(h) /\ Minds(h, req[r].about)
  BY <1>1, <1>2, AtHand
<1>5. PatchOK(patch, Saved)
  BY <1>2, <1>4 DEF StepOK
<1>6. "online" \notin DOMAIN patch
  BY <1>5 DEF PatchOK, Saved
<1>7. ASSUME NEW k \in Facts, Uses(h, k) PROVE k[2] \in contended \/ Holds(r, k)
  BY <1>1, <1>2, <1>7, NeedsHead DEF Knows
<1>8. ASSUME u \notin contended
      PROVE  /\ u \in Registered /\ ProfileKey(u) \notin DOMAIN cache
             /\ req[r].got["profile"] = Profile(u) /\ req[r].got["status"] = user[u].online
  <2>1. PICK k1, k2, k3 : k1 = ProfileKey(u) /\ k2 = StatusKey(u) /\ k3 = <<"dropped", u>>
    OBVIOUS
  <2>2. Uses(h, k1) /\ Uses(h, k2) /\ Uses(h, k3)
    BY <1>2, <2>1 DEF Uses
  <2>3. /\ k1 \in UsersKeys /\ k1[1] = "profile" /\ k1[2] = u
        /\ k2 \in UsersKeys /\ k2[1] = "status" /\ k2[2] = u
    BY <1>3, <2>1, KeyOfUser
  <2>4. k3[1] = "dropped" /\ k3[2] = u /\ k3 \in Facts
    BY <1>3, <2>1 DEF Facts
  <2>5. Holds(r, k1) /\ Holds(r, k2) /\ Holds(r, k3)
    BY <1>7, <1>8, <2>2, <2>3, <2>4 DEF Facts
  <2>6. Current(k1) = Profile(u) /\ Current(k2) = user[u].online
    BY <2>3, CurrentIs
  <2>7. req[r].got["profile"] = Profile(u) /\ u \in Registered
    BY <2>3, <2>5, <2>6 DEF Holds
  <2>8. req[r].got["status"] = user[u].online
    BY <2>3, <2>5, <2>6 DEF Holds
  <2>9. ProfileKey(u) \notin DOMAIN cache
    BY <2>4, <2>5 DEF Holds
  <2>10. QED
    BY <2>7, <2>8, <2>9
<1>9. ASSUME u \notin contended, NEW c \in Columns, c \notin DOMAIN patch PROVE row[c] = user[u][c]
  <2>1. row[c] = IF c = "online" THEN req[r].got["status"] ELSE req[r].got["profile"][c]
    BY <1>9 DEF Merged, Got
  <2>2. CASE c = "online"
    BY <1>8, <1>9, <2>1, <2>2
  <2>3. CASE c # "online"
    <3>1. Profile(u)[c] = user[u][c]
      BY <1>9, <2>3 DEF Profile
    <3>2. QED
      BY <1>8, <1>9, <2>1, <2>3, <3>1
  <2>4. QED
    BY <2>2, <2>3
<1>10. "tg" \in DOMAIN patch => row.tg = patch.tg
  <2>1. "tg" \in Columns
    BY DEF Columns
  <2>2. "tg" \in DOMAIN patch => row["tg"] = patch["tg"]
    BY <2>1 DEF Merged
  <2>3. QED
    BY <2>2
<1>11. ASSUME "tg" \in DOMAIN patch, patch.tg # NoTg
       PROVE  /\ patch.tg \in req[r].about
              /\ patch.tg \in contended \/ \A v \in Registered : user[v].tg = patch.tg => v \in contended
  <2>1. patch.tg \in req[r].about
    BY <1>2, <1>4, <1>11 DEF Minds
  <2>2. patch.tg \in Telegrams \ {NoTg}
    BY <1>5, <1>11 DEF PatchOK, Typed, ColumnType
  <2>3. PICK k : k = <<"free", patch.tg>>
    OBVIOUS
  <2>4. k \in Facts /\ k[1] = "free" /\ k[2] = patch.tg
    BY <2>2, <2>3 DEF Facts
  <2>5. Uses(h, k)
    BY <1>2, <1>11, <2>3 DEF Uses
  <2>6. k[2] \in contended \/ Holds(r, k)
    BY <1>7, <2>4, <2>5
  <2>7. QED
    BY <2>1, <2>4, <2>6 DEF Holds
<1>12. QED
  BY <1>3, <1>6, <1>8, <1>9, <1>10, <1>11

LEMMA SaveSafe ==
  ASSUME AccountsTypes, Safe, NEW r \in Requests, SaveUser(r),
         UNCHANGED <<spent, tokens, jwts, linkTokens, reviews>>
  PROVE  Safe'
<1>1. PICK h, u, patch, row : /\ h = req[r].todo[1] /\ u = Arg(r, 1) /\ patch = Arg(r, 2)
                              /\ row = Merged(r, patch)
  OBVIOUS
<1>2. /\ At(r, "save") /\ req[r].todo # <<>> /\ h[1] = "save" /\ UNCHANGED <<cache, roles>>
      /\ \/ Throw(r) /\ UNCHANGED user
         \/ Continue(r) /\ user' = [user EXCEPT ![u] = row]
  BY <1>1 DEF SaveUser, At
<1>3. CASE Throw(r) /\ UNCHANGED user
  BY <1>1, <1>2, <1>3, ThrowSafe
<1>4. CASE Continue(r) /\ user' = [user EXCEPT ![u] = row]
  <2>1. Tables /\ Known /\ TelegramUnique
    BY DEF AccountsTypes, Safe, Known
  <2>2. /\ u \in Users /\ u \in req[r].about /\ row \in UserRow /\ "online" \notin DOMAIN patch
        /\ u \notin contended =>
             /\ u \in Registered /\ ProfileKey(u) \notin DOMAIN cache
             /\ \A c \in Columns : c \in DOMAIN patch \/ row[c] = user[u][c]
        /\ "tg" \in DOMAIN patch => row.tg = patch.tg
        /\ "tg" \in DOMAIN patch /\ patch.tg # NoTg =>
             /\ patch.tg \in req[r].about
             /\ patch.tg \in contended \/ \A v \in Registered : user[v].tg = patch.tg => v \in contended
    BY <1>1, <1>2, <2>1, SaveKnows
  <2>3. u \notin contended /\ "tg" \notin DOMAIN patch => u \in Registered /\ user[u].tg = row.tg
    <3>1. "tg" \in Columns
      BY DEF Columns
    <3>2. u \notin contended /\ "tg" \notin DOMAIN patch => row["tg"] = user[u]["tg"]
      BY <2>2, <3>1
    <3>3. QED
      BY <2>2, <3>2
  <2>4. \A k \in Facts :
          Spared(k, u, row) => Undisturbed(k)
    <3>1. Tables /\ u \in Users /\ row \in UserRow /\ user' = [user EXCEPT ![u] = row] /\ UNCHANGED <<roles, cache>>
      BY <1>2, <1>4, <2>1, <2>2
    <3>2. QED
      BY <3>1, RowUndisturbed
  <2>5. ASSUME NEW k \in Facts, k[2] \notin contended, k[2] \notin req[r].about PROVE Undisturbed(k)
    <3>1. CASE k[1] # "free"
      BY <2>2, <2>4, <2>5, <3>1 DEF Spared
    <3>2. CASE k[1] = "free" /\ row.tg = k[2]
      <4>1. k[2] # NoTg
        BY <3>2, FactKinds
      <4>2. "tg" \notin DOMAIN patch
        BY <2>2, <2>5, <3>2, <4>1
      <4>3. CASE u \in contended
        <5>1. \A v \in Users : v # u => user'[v] = user[v]
          BY <1>2, <1>4, <2>1, <2>2, RowUndisturbed
        <5>2. contended \subseteq contended'
          BY <1>4 DEF Continue, Goes
        <5>3. k \notin UsersKeys
          BY <3>2, FactKinds
        <5>4. ASSUME NEW v \in Registered', user'[v].tg = k[2]
              PROVE  v \in contended' \/ (v \in Registered /\ user[v].tg = k[2])
          BY <4>3, <5>1, <5>2, <5>4 DEF Registered
        <5>5. QED
          BY <3>2, <5>3, <5>4 DEF Undisturbed
      <4>4. CASE u \notin contended
        BY <2>3, <2>4, <3>2, <4>2, <4>4 DEF Spared
      <4>5. QED
        BY <4>3, <4>4
    <3>3. CASE k[1] = "free" /\ row.tg # k[2]
      BY <2>4, <3>3 DEF Spared
    <3>4. QED
      BY <3>1, <3>2, <3>3
  <2>6. ASSUME NEW k \in UsersKeys, k \in DOMAIN cache, k[2] \notin contended PROVE Undisturbed(k)
    <3>1. k[1] \in {"profile", "status", "roles"} /\ k \in Facts /\ k = <<k[1], k[2]>>
      BY DEF Facts, UsersKeys
    <3>2. CASE k[2] # u
      BY <2>4, <3>1, <3>2 DEF Spared
    <3>3. CASE k[2] = u
      <4>1. u \notin contended
        BY <2>6, <3>3
      <4>2. k[1] # "profile"
        BY <2>2, <2>6, <3>1, <3>3, <4>1 DEF ProfileKey
      <4>3. row.online = user[u].online
        <5>1. "online" \in Columns
          BY DEF Columns
        <5>2. row["online"] = user[u]["online"]
          BY <2>2, <4>1, <5>1
        <5>3. QED
          BY <5>2
      <4>4. QED
        BY <2>2, <2>4, <3>1, <3>3, <4>1, <4>2, <4>3 DEF Spared
    <3>4. QED
      BY <3>2, <3>3
  <2>7. contended \subseteq contended' => TelegramUnique'
    <3>1. \/ row.tg = NoTg \/ u \in contended \/ row.tg \in contended
          \/ u \in Registered /\ user[u].tg = row.tg
          \/ \A v \in Registered : user[v].tg = row.tg => v \in contended
      BY <2>2, <2>3
    <3>2. QED
      BY <1>4, <2>1, <2>2, <3>1, RowTelegram
  <2>8. h[1] \in Writes /\ \A k \in Facts : Undisturbed(k) \/ k[2] \in contended \cup req[r].about
    BY <1>2, <2>5 DEF Writes
  <2>9. \A k \in UsersKeys : k \in DOMAIN cache => k[2] \in contended \/ Undisturbed(k) \/ Drops(r, k)'
    BY <2>6
  <2>10. UNCHANGED <<cache, tokens>>
    BY <1>2
  <2>11. QED
    BY <1>1, <1>2, <1>4, <2>7, <2>8, <2>9, <2>10, WritesSafe
<1>5. QED
  BY <1>2, <1>3, <1>4

LEMMA WriteSafe ==
  ASSUME AccountsTypes, Safe, NEW r \in Requests, WriteColumns(r),
         UNCHANGED <<spent, tokens, jwts, linkTokens, reviews>>
  PROVE  Safe'
<1>1. PICK h, u, patch : h = req[r].todo[1] /\ u = h[2] /\ patch = h[3]
  OBVIOUS
<1>2. /\ req[r].todo # <<>> /\ h[1] = "write" /\ Shaped /\ Tables /\ Known /\ TelegramUnique
      /\ UNCHANGED <<cache, roles>> /\ Continue(r)
      /\ user' = IF user[u] = NoRow THEN user
                 ELSE [user EXCEPT ![u] = [c \in Columns |->
                         IF c \in DOMAIN patch THEN patch[c] ELSE user[u][c]]]
  BY <1>1 DEF WriteColumns, At, Arg, AccountsTypes, Safe, Known
<1>3. StepOK(h) /\ Minds(h, req[r].about)
  BY <1>1, <1>2, AtHand
<1>4. /\ u \in Users /\ u \in req[r].about
      /\ \E b \in BOOLEAN : patch \in {[online |-> b], [banned |-> b], [verified |-> b]}
  BY <1>1, <1>2, <1>3 DEF StepOK, OfUser, Minds
<1>5. CASE user[u] = NoRow
  <2>1. UNCHANGED <<user, roles, tokens>>
    BY <1>2, <1>5
  <2>2. QED
    BY <1>1, <1>2, <2>1, DoneSafe
<1>6. CASE user[u] # NoRow
  <2>1. u \in Registered /\ user[u] \in UserRow
    BY <1>2, <1>4, <1>6 DEF Registered, Tables
  <2>2. PICK row : row = [c \in Columns |-> IF c \in DOMAIN patch THEN patch[c] ELSE user[u][c]]
    OBVIOUS
  <2>3. user' = [user EXCEPT ![u] = row]
    BY <1>2, <1>6, <2>2
  <2>4. Typed(patch, DOMAIN patch) /\ "tg" \notin DOMAIN patch
    BY <1>4 DEF Typed, ColumnType
  <2>5. row \in UserRow
    <3>1. Typed(user[u], Columns)
      BY <2>1, RowColumns
    <3>2. Typed(row, Columns)
      BY <2>2, <2>4, <3>1 DEF Typed
    <3>3. [c \in Columns |-> row[c]] \in UserRow
      BY <3>2, RowOf
    <3>4. QED
      BY <2>2, <3>3
  <2>6. row.tg = user[u].tg
    BY <2>2, <2>4 DEF Columns
  <2>7. /\ DOMAIN patch = {"online"} => \A c \in Columns \ {"online"} : row[c] = user[u][c]
        /\ DOMAIN patch # {"online"} => row.online = user[u].online
    <3>1. "online" \in Columns
      BY DEF Columns
    <3>2. DOMAIN patch # {"online"} => "online" \notin DOMAIN patch
      BY <1>4
    <3>3. QED
      BY <2>2, <3>1, <3>2
  <2>8. \A k \in Facts :
          Spared(k, u, row) => Undisturbed(k)
    <3>1. Tables /\ u \in Users /\ row \in UserRow /\ user' = [user EXCEPT ![u] = row] /\ UNCHANGED <<roles, cache>>
      BY <1>2, <1>4, <2>3, <2>5
    <3>2. QED
      BY <3>1, RowUndisturbed
  <2>9. \A k \in Facts : Undisturbed(k) \/ k[2] \in contended \cup req[r].about
    BY <1>4, <2>1, <2>6, <2>8 DEF Spared
  <2>10. ASSUME req'[r].todo = Tail(req[r].todo), NEW k \in UsersKeys, k \in DOMAIN cache
         PROVE  Undisturbed(k) \/ Drops(r, k)'
    <3>1. k[1] \in {"profile", "status", "roles"} /\ k \in Facts /\ k = <<k[1], k[2]>>
      BY DEF Facts, UsersKeys
    <3>2. CASE k[2] # u \/ k[1] = "roles"
      BY <2>8, <3>1, <3>2 DEF Spared
    <3>3. CASE k[2] = u /\ k[1] # "roles" /\ k[1] # KeyOf(patch)
      BY <2>1, <2>7, <2>8, <3>1, <3>3 DEF KeyOf, Spared
    <3>4. CASE k = <<KeyOf(patch), u>>
      <4>1. PICK d : d = <<KeyOf(h[3]), h[2]>>
        OBVIOUS
      <4>2. Drops(r, d)'
        BY <1>1, <1>2, <2>10, <4>1, NextIs
      <4>3. QED
        BY <1>1, <3>4, <4>1, <4>2
    <3>5. QED
      BY <3>1, <3>2, <3>3, <3>4
  <2>11. contended \subseteq contended' => TelegramUnique'
    BY <1>2, <1>4, <2>1, <2>3, <2>5, <2>6, RowTelegram
  <2>12. h[1] \in Writes /\ UNCHANGED <<cache, tokens>>
    BY <1>2 DEF Writes
  <2>13. req'[r].todo = Tail(req[r].todo) =>
           \A k \in UsersKeys : k \in DOMAIN cache => k[2] \in contended \/ Undisturbed(k) \/ Drops(r, k)'
    BY <2>10
  <2>14. QED
    BY <1>1, <1>2, <2>9, <2>11, <2>12, <2>13, WritesSafe
<1>7. QED
  BY <1>5, <1>6

LEMMA CreateSafe ==
  ASSUME AccountsTypes, Safe, NEW r \in Requests, CreateUser(r), UNCHANGED <<linkTokens, reviews>>
  PROVE  Safe'
<1>1. PICK h, u, row : h = req[r].todo[1] /\ u = h[2] /\ row = NewUser(h[3])
  OBVIOUS
<1>2. /\ req[r].todo # <<>> /\ h[1] = "createUser" /\ Shaped /\ Tables /\ Known /\ TelegramUnique /\ Knows(r)
      /\ CacheFresh /\ Program(req[r].todo) /\ UNCHANGED <<cache, roles, spent, tokens, jwts>>
      /\ \/ Throw(r) /\ UNCHANGED user
         \/ Continue(r) /\ user' = [user EXCEPT ![u] = row]
  BY <1>1 DEF CreateUser, At, Arg, AccountsTypes, Safe, Known, Shaped, Fit
<1>3. StepOK(h) /\ Minds(h, req[r].about)
  BY <1>1, <1>2, AtHand
<1>4. u \in Users /\ h[3] \in Phones /\ u \in req[r].about
  BY <1>1, <1>2, <1>3 DEF StepOK, OfUser, Minds
<1>5. CASE Throw(r) /\ UNCHANGED user
  BY <1>1, <1>2, <1>5, ThrowSafe
<1>6. CASE Continue(r) /\ user' = [user EXCEPT ![u] = row]
  <2>1. row \in UserRow /\ row.tg = NoTg
    BY <1>1, <1>4 DEF NewUser, UserRow
  <2>2. \A k \in Facts : Spared(k, u, row) => Undisturbed(k)
    BY <1>2, <1>4, <1>6, <2>1, RowUndisturbed
  <2>3. \A k \in Facts : Undisturbed(k) \/ k[2] \in contended \cup req[r].about
    <3>1. ASSUME NEW k \in Facts PROVE Undisturbed(k) \/ k[2] = u
      <4>1. k[1] = "free" => k[2] # NoTg
        BY FactKinds
      <4>2. QED
        BY <2>1, <2>2, <4>1 DEF Spared
    <3>2. QED
      BY <1>4, <3>1
  <2>4. u \in contended \/ u \notin Registered
    <3>1. PICK k : k = <<"absent", u>>
      OBVIOUS
    <3>2. k \in Facts /\ k[1] = "absent" /\ k[2] = u /\ Uses(h, k)
      BY <1>1, <1>2, <1>4, <3>1 DEF Facts, Uses
    <3>3. k[2] \in contended \/ Holds(r, k)
      BY <1>1, <1>2, <3>2, NeedsHead DEF Knows
    <3>4. QED
      BY <3>2, <3>3 DEF Holds
  <2>5. ASSUME NEW k \in UsersKeys, k \in DOMAIN cache, k[2] \notin contended PROVE Undisturbed(k)
    <3>1. k[1] \in {"profile", "status", "roles"} /\ k \in Facts
      BY DEF Facts, UsersKeys
    <3>2. CASE k[2] # u \/ k[1] = "roles"
      BY <2>2, <3>1, <3>2 DEF Spared
    <3>3. CASE k[2] = u /\ k[1] # "roles"
      <4>1. PICK q \in Requests : Drops(q, k)
        BY <1>2, <2>4, <2>5, <3>3 DEF CacheFresh
      <4>2. k[2] \in req[q].about /\ req[q].todo[1][1] = "delete"
        BY <1>2, <4>1, DropsMind
      <4>3. q # r
        BY <1>1, <1>2, <4>2
      <4>4. QED
        BY <1>2, <1>4, <2>5, <3>3, <4>2, <4>3, SharedContended
    <3>4. QED
      BY <3>2, <3>3
  <2>6. contended \subseteq contended' => TelegramUnique'
    BY <1>2, <1>4, <1>6, <2>1, RowTelegram
  <2>7. h[1] \in Writes /\ UNCHANGED <<cache, tokens>>
    BY <1>2 DEF Writes
  <2>8. \A k \in UsersKeys : k \in DOMAIN cache => k[2] \in contended \/ Undisturbed(k) \/ Drops(r, k)'
    BY <2>5
  <2>9. QED
    BY <1>1, <1>2, <1>6, <2>3, <2>6, <2>7, <2>8, WritesSafe
<1>7. QED
  BY <1>2, <1>5, <1>6

LEMMA InsertRoleSafe ==
  ASSUME AccountsTypes, Safe, NEW r \in Requests, InsertRole(r),
         UNCHANGED <<spent, tokens, jwts, linkTokens, reviews>>
  PROVE  Safe'
<1>1. PICK h, u, role : h = req[r].todo[1] /\ u = h[2] /\ role = h[3]
  OBVIOUS
<1>2. /\ req[r].todo # <<>> /\ h[1] = "insertRole" /\ Shaped /\ Proper /\ Tables /\ Known /\ Knows(r)
      /\ TelegramUnique /\ Chains /\ UNCHANGED <<cache, user>>
      /\ \/ Throw(r) /\ UNCHANGED roles
         \/ Continue(r) /\ roles' = [roles EXCEPT ![u] = roles[u] \cup {role}]
  BY <1>1 DEF InsertRole, At, Arg, AccountsTypes, Safe, Known, Shaped
<1>3. StepOK(h) /\ Minds(h, req[r].about)
  BY <1>1, <1>2, AtHand
<1>4. u \in Users /\ u \in req[r].about
  BY <1>1, <1>2, <1>3 DEF StepOK, OfUser, Minds
<1>5. CASE Throw(r) /\ UNCHANGED roles
  BY <1>1, <1>2, <1>5, ThrowSafe
<1>6. CASE Continue(r) /\ roles' = [roles EXCEPT ![u] = roles[u] \cup {role}]
  <2>1. PICK got : got = req[r].got
    OBVIOUS
  <2>2. Goes(r, Tail(req[r].todo), got)
    BY <1>6, <2>1 DEF Continue
  <2>3. /\ Elsewhere(r) /\ contended' = contended /\ req'[r].todo = Tail(req[r].todo)
        /\ req'[r] # Idle => req'[r].got = got
    BY <1>2, <2>2, Continues DEF Went
  <2>4. Issuing(r)
    BY <1>2, <2>3, DoneIssues
  <2>5. ~At(r, "revoke") /\ \A k : ~Drops(r, k)
    BY <1>1, <1>2 DEF At, Drops
  <2>6. Registered' = Registered /\ contended \subseteq contended'
    BY <1>2, <2>3 DEF Registered
  <2>7. ASSUME NEW k \in Facts PROVE Undisturbed(k) \/ (k[1] = "roles" /\ k[2] = u)
    <3>1. CASE k \in UsersKeys /\ ~(k[1] = "roles" /\ k[2] = u)
      <4>1. Profile(k[2])' = Profile(k[2])
        BY <1>2 DEF Profile
      <4>2. k[1] = "roles" => roles'[k[2]] = roles[k[2]]
        BY <1>2, <1>4, <1>6, <3>1, FactKinds DEF Tables
      <4>3. k[1] \in {"profile", "status", "roles"}
        BY <3>1, FactKinds
      <4>4. Current(k)' = Current(k)
        BY <1>2, <3>1, <4>1, <4>2, <4>3, CurrentIs
      <4>5. QED
        BY <2>6, <4>3, <4>4 DEF Undisturbed
    <3>2. CASE k \notin UsersKeys
      BY <1>2, <2>6, <3>2 DEF Undisturbed
    <3>3. QED
      BY <3>1, <3>2
  <2>8. \A k \in Facts : Undisturbed(k) \/ k[2] \in contended' \cup req[r].about
    BY <1>4, <2>7
  <2>9. ASSUME NEW k \in UsersKeys, k \in DOMAIN cache'
        PROVE  \/ Undisturbed(k) /\ k \in DOMAIN cache /\ cache'[k] = cache[k] /\ ~Drops(r, k)
               \/ Drops(r, k)'
    <3>1. k \in Facts /\ k = <<k[1], k[2]>>
      BY DEF Facts, UsersKeys
    <3>2. CASE k[1] = "roles" /\ k[2] = u
      <4>1. PICK d : d = RolesKey(u)
        OBVIOUS
      <4>2. Drops(r, d)'
        BY <1>1, <1>2, <2>3, <4>1, NextIs
      <4>3. k = d
        BY <3>1, <3>2, <4>1 DEF RolesKey
      <4>4. QED
        BY <4>2, <4>3
    <3>3. CASE Undisturbed(k)
      BY <1>2, <2>5, <2>9, <3>3
    <3>4. QED
      BY <2>7, <3>1, <3>2, <3>3
  <2>10. Knows(r)'
    <3>1. CASE req'[r] = Idle
      <4>1. req'[r].todo = <<>>
        BY <3>1 DEF Idle
      <4>2. QED
        BY <4>1, DoneKnows
    <3>2. CASE req'[r] # Idle
      <4>1. \A k \in Facts : Remembered(r, k)
        BY <2>1, <2>3, <3>2 DEF Remembered
      <4>2. \A k \in Facts : ~Gives(h, k) /\ (~Breaks(h, k) => Undisturbed(k))
        BY <1>2, <2>7 DEF Gives, Breaks
      <4>3. QED
        BY <1>1, <1>2, <2>3, <2>6, <4>1, <4>2, TailKnows
    <3>3. QED
      BY <3>1, <3>2
  <2>11. TelegramUnique'
    BY <1>2, <2>3, <2>6 DEF TelegramUnique
  <2>12. Known'
    BY <1>2, <2>3, <2>6, <2>8, <2>9, <2>10, <2>11, StepKnown
  <2>13. Chains'
    BY <1>2, <2>3, <2>4, <2>5, <2>6, ChainsStay
  <2>14. QED
    BY <2>12, <2>13 DEF Safe
<1>7. QED
  BY <1>2, <1>5, <1>6

\* What becomes of the tokens is no fact.
LEMMA TokensSafe ==
  ASSUME AccountsTypes, Safe, NEW r \in Requests, Revoke(r) \/ SaveToken(r)
  PROVE  Safe'
<1>1. Shaped /\ Proper /\ Known /\ Knows(r) /\ Chains /\ TelegramUnique
  BY DEF AccountsTypes, Shaped, Safe, Known
<1>2. Chains'
  BY <1>1, RevokeChains, SaveTokenChains
<1>3. PICK h, got : h = req[r].todo[1] /\ got = req[r].got
  OBVIOUS
<1>4. req[r].todo # <<>> /\ h[1] \in {"revoke", "saveToken"}
  <2>1. At(r, "revoke") \/ At(r, "saveToken")
    BY Zenon DEF Revoke, SaveToken
  <2>2. QED
    BY <1>3, <2>1 DEF At
<1>5. Continue(r) /\ UNCHANGED <<cache, user, roles>>
  BY Zenon DEF Revoke, SaveToken
<1>6. Goes(r, Tail(req[r].todo), got)
  BY <1>3, <1>5 DEF Continue
<1>7. /\ Elsewhere(r) /\ contended' = contended /\ req'[r].todo = Tail(req[r].todo)
      /\ req'[r] # Idle => req'[r].got = got
  BY <1>1, <1>4, <1>6, Continues DEF Went
<1>8. \A k : ~Drops(r, k)
  BY <1>3, <1>4 DEF Drops
<1>9. \A k \in Facts : Undisturbed(k)
  BY <1>5, QuietUndisturbed
<1>10. Knows(r)'
  <2>1. CASE req'[r] = Idle
    <3>1. req'[r].todo = <<>>
      BY <2>1 DEF Idle
    <3>2. QED
      BY <3>1, DoneKnows
  <2>2. CASE req'[r] # Idle
    <3>1. \A k \in Facts : Remembered(r, k)
      BY <1>3, <1>7, <2>2 DEF Remembered
    <3>2. (\A k \in Facts : ~Gives(h, k)) /\ contended \subseteq contended'
      BY <1>4, <1>7 DEF Gives
    <3>3. QED
      BY <1>1, <1>3, <1>4, <1>7, <1>9, <3>1, <3>2, TailKnows
  <2>3. QED
    BY <2>1, <2>2
<1>11. TelegramUnique'
  BY <1>1, <1>5, <1>7 DEF TelegramUnique, Registered
<1>12. \A k \in UsersKeys : k \in DOMAIN cache' =>
         Undisturbed(k) /\ k \in DOMAIN cache /\ cache'[k] = cache[k] /\ ~Drops(r, k)
  BY <1>5, <1>8, <1>9 DEF Facts
<1>13. contended \subseteq contended'
  BY <1>7
<1>14. Known'
  BY <1>1, <1>7, <1>9, <1>10, <1>11, <1>12, <1>13, StepKnown
<1>15. QED
  BY <1>2, <1>14 DEF Safe

\* The codes and the tokens of links are no facts.
LEMMA InsertsSafe ==
  ASSUME AccountsTypes, Safe, NEW r \in Requests,
         \/ MakeCodes(r) /\ UNCHANGED <<tokens, jwts, linkTokens, reviews>>
         \/ InsertToken(r) /\ UNCHANGED <<spent, tokens, jwts, reviews>>
  PROVE  Safe'
<1>1. Continue(r) /\ UNCHANGED <<cache, user, roles, tokens>>
  BY Zenon DEF MakeCodes, InsertToken
<1>2. req[r].todo # <<>> /\ req[r].todo[1][1] \in {"makeCodes", "insertToken"}
  <2>1. At(r, "makeCodes") \/ At(r, "insertToken")
    BY Zenon DEF MakeCodes, InsertToken
  <2>2. QED
    BY <2>1 DEF At
<1>3. QED
  BY <1>1, <1>2, DoneSafe

\* A request that arrives relies on a user being absent, who is.
LEMMA ArriveSafe ==
  ASSUME AccountsTypes, Safe, NEW r \in Requests, Arrive(r)
  PROVE  Safe'
<1>1. Arrival(r) /\ UNCHANGED cache /\ UNCHANGED <<user, roles, tokens>>
  BY Arrives DEF AccountsTypes, tables
<1>2. PICK op, about, program :
        /\ Begin(r, op, about, program) /\ Fit(program, about)
        /\ \A x \in Steps(program) : x[1] = "saveToken" => x[3] = 0
        /\ \A k \in Facts : Needs(program, k) => \E u \in about \cap (Users \ Registered) :
                                                   k = <<"absent", u>> /\ Quiet(u)
  BY <1>1, Zenon DEF Arrival
<1>3. Start(r, op, about, program) /\ Program(program) /\ Proper
  BY <1>2 DEF Begin, Fit, AccountsTypes, Shaped
<1>4. /\ Elsewhere(r) /\ req[r] = Idle /\ Left(r)' = Steps(program)
      /\ req'[r] = [op |-> op, about |-> about, todo |-> program, got |-> <<>>]
      /\ contended' = contended \cup (about \cap Others(r))
  BY <1>3, Starts
<1>5. req[r].todo = <<>> /\ req'[r].todo = program /\ contended \subseteq contended'
  BY <1>4 DEF Idle
<1>6. Issuing(r)
  BY <1>2, <1>4 DEF Issuing, Chained
<1>7. ~At(r, "revoke") /\ \A k : ~Drops(r, k)
  BY <1>5 DEF At, Drops
<1>8. ASSUME NEW k \in Facts, Needs(program, k) PROVE Holds(r, k)'
  <2>1. PICK u \in about \cap (Users \ Registered) : k = <<"absent", u>>
    BY <1>2, <1>8
  <2>2. k[1] = "absent" /\ k[2] = u /\ u \notin Registered
    BY <2>1
  <2>3. Registered' = Registered
    BY <1>1 DEF Registered
  <2>4. QED
    BY <2>2, <2>3 DEF Holds
<1>9. Knows(r)'
  BY <1>5, <1>8 DEF Knows
<1>10. QED
  BY <1>1, <1>4, <1>5, <1>6, <1>7, <1>9, QuietSafe

\* What a request that fails was about is contended from then on.
LEMMA FaultSafe ==
  ASSUME AccountsTypes, Safe, NEW r \in Requests, UsersFault(r),
         UNCHANGED <<spent, tokens, jwts, linkTokens, reviews>>
  PROVE  Safe'
<1>1. Fault(r) /\ UNCHANGED <<cache, user, roles>> /\ Proper /\ Shaped
  BY DEF UsersFault, AccountsTypes, Shaped
<1>2. /\ Elsewhere(r) /\ req'[r].todo = <<>> /\ Left(r)' = {}
      /\ contended' = contended \cup req[r].about
  BY <1>1, Faults
<1>3. Knows(r)' /\ Issuing(r)
  BY <1>2, DoneKnows DEF Issuing
<1>4. \A k \in UsersKeys : ~Drops(r, k) \/ k[2] \in contended'
  BY <1>1, <1>2, DropsMind
<1>5. contended \subseteq contended'
  BY <1>2
<1>6. QED
  BY <1>1, <1>2, <1>3, <1>4, <1>5, QuietSafe

\* A key runs out, or nothing happens.
LEMMA ForgetSafe ==
  ASSUME AccountsTypes, Safe, UNCHANGED handlerVars, UNCHANGED <<user, roles, tokens>>,
         \A k : k \in DOMAIN cache' => k \in DOMAIN cache /\ cache'[k] = cache[k]
  PROVE  Safe'
<1>1. UNCHANGED <<req, contended>>
  BY DEF handlerVars
<1>2. Chains'
  BY <1>1 DEF Safe, Chains, OneTokenPerLogin, MayIssue, Live, Revokes, At, Arg, Left
<1>3. Registered' = Registered /\ TelegramUnique'
  BY <1>1 DEF Safe, Known, TelegramUnique, Registered
<1>4. \A k \in Facts : Undisturbed(k)
  BY QuietUndisturbed
<1>5. ASSUME NEW r \in Requests PROVE Knows(r)'
  <2>1. Knows(r)
    BY DEF Safe, Known
  <2>2. ASSUME NEW k \in Facts, Needs(req'[r].todo, k), k[2] \notin contended' PROVE Holds(r, k)'
    <3>1. Holds(r, k)
      BY <1>1, <2>1, <2>2 DEF Knows
    <3>2. Remembered(r, k) /\ contended \subseteq contended'
      BY <1>1 DEF Remembered
    <3>3. QED
      BY <1>4, <3>1, <3>2, HoldsStays
  <2>3. QED
    BY <2>2 DEF Knows
<1>6. CacheFresh'
  <2>1. ASSUME NEW k \in UsersKeys, k \in DOMAIN cache', k[2] \notin contended'
        PROVE  (cache'[k] = Current(k)' /\ (k[1] # "roles" => k[2] \in Registered')) \/ \E r \in Requests : Drops(r, k)'
    <3>1. Current(k)' = Current(k)
      BY <1>4 DEF Undisturbed, Facts
    <3>2. \/ cache[k] = Current(k) /\ (k[1] # "roles" => k[2] \in Registered)
          \/ \E r \in Requests : Drops(r, k)
      BY <1>1, <2>1 DEF Safe, Known, CacheFresh
    <3>3. CASE \E r \in Requests : Drops(r, k)
      BY <1>1, <3>3 DEF Drops
    <3>4. QED
      BY <1>3, <2>1, <3>1, <3>2, <3>3
  <2>2. QED
    BY <2>1 DEF CacheFresh
<1>7. QED
  BY <1>2, <1>3, <1>5, <1>6 DEF Safe, Known

LEMMA InitSafe == ASSUME Init PROVE Safe
<1>1. contended = {} /\ cache = <<>> /\ user = mix.tables.users /\ tokens = <<>> /\ mix \in Mixes /\ HandlersInit
  BY DEF Init, HandlersInit, UsersInit, RedisInit, SessionsInit
<1>2. PICK t : t = mix.tables
  OBVIOUS
<1>3. Consistent(t) /\ user = t.users
  BY <1>1, <1>2, AccountsAssumption
<1>4. TelegramUnique
  BY <1>3 DEF Consistent, TelegramUnique, Registered
<1>5. CacheFresh
  BY <1>1 DEF CacheFresh
<1>6. \A r \in Requests : req[r].todo = <<>> /\ Left(r) = {}
  <2>1. \A r \in Requests : req[r] = Idle /\ Left(r) = {}
    BY <1>1, NoneYet
  <2>2. Idle.todo = <<>>
    BY DEF Idle
  <2>3. QED
    BY <2>1, <2>2
<1>7. \A r \in Requests : Knows(r)
  BY <1>6, NeedsNothing DEF Knows
<1>8. Chains
  BY <1>1, <1>6 DEF Chains, OneTokenPerLogin
<1>9. QED
  BY <1>4, <1>5, <1>7, <1>8 DEF Safe, Known

LEMMA ProgressSafe ==
  ASSUME AccountsTypes, Safe, NEW r \in Requests, Progress(r)
  PROVE  Safe'
<1>1. CASE UsersSteps(r) /\ UNCHANGED <<spent, tokens, jwts, linkTokens, reviews>>
  <2>1. CASE RedisSteps(r) /\ UNCHANGED <<user, roles>>
    <3>1. UNCHANGED tables
      BY <1>1, <2>1 DEF tables
    <3>2. QED
      BY <2>1, <3>1, GetSafe, SetSafe, CachePutSafe, PeekSafe, DeleteSafe, ScanSafe DEF RedisSteps
  <2>2. CASE SelectProfile(r) \/ SelectStatus(r) \/ SelectRoles(r)
    <3>1. UNCHANGED cache /\ UNCHANGED tables
      BY <1>1, <2>2 DEF SelectProfile, SelectStatus, SelectRoles, tables
    <3>2. QED
      BY <2>2, <3>1, SelectSafe
  <2>3. CASE Exists(r) \/ Unique(r) \/ NotBanned(r) \/ Show(r) \/ HasRoles(r)
    <3>1. UNCHANGED cache /\ UNCHANGED tables
      BY <1>1, <2>3 DEF Exists, Unique, NotBanned, Show, HasRoles, tables
    <3>2. QED
      BY <2>3, <3>1, RequireSafe, UniqueSafe
  <2>4. CASE SaveUser(r) \/ WriteColumns(r) \/ InsertRole(r)
    BY <1>1, <2>4, SaveSafe, WriteSafe, InsertRoleSafe
  <2>5. QED
    BY <1>1, <2>1, <2>2, <2>3, <2>4 DEF UsersSteps
<1>2. CASE TwoFactorSteps(r) /\ UNCHANGED <<tokens, jwts, linkTokens, reviews>>
  <2>1. CASE TwoFaIs(r) \/ VerifyTemp(r)
    <3>1. UNCHANGED cache /\ UNCHANGED tables
      BY <1>2, <2>1 DEF TwoFaIs, VerifyTemp, tables
    <3>2. QED
      BY <2>1, <3>1, RequireSafe
  <2>2. QED
    BY <1>2, <2>1, InsertsSafe, CallsSafe DEF TwoFactorSteps
<1>3. CASE SessionsSteps(r) /\ UNCHANGED <<linkTokens, reviews>>
  <2>1. CASE MatchDigits(r)
    <3>1. UNCHANGED cache /\ UNCHANGED tables
      BY <1>3, <2>1 DEF MatchDigits, tables
    <3>2. QED
      BY <2>1, <3>1, RequireSafe
  <2>2. QED
    BY <1>3, <2>1, CallsSafe, CreateSafe, TokensSafe DEF SessionsSteps
<1>4. CASE TelegramSteps(r) /\ UNCHANGED <<spent, tokens, jwts, reviews>>
  BY <1>4, InsertsSafe, CallsSafe DEF TelegramSteps
<1>5. CASE ReviewsSteps(r) /\ UNCHANGED <<spent, tokens, jwts, linkTokens>>
  <2>1. CASE SelectPage(r) \/ MayReview(r)
    <3>1. UNCHANGED cache /\ UNCHANGED tables
      BY <1>5, <2>1 DEF SelectPage, MayReview, tables
    <3>2. QED
      BY <2>1, <3>1, SelectSafe, RequireSafe
  <2>2. QED
    BY <1>5, <2>1, CallsSafe DEF ReviewsSteps
<1>6. QED
  BY <1>1, <1>2, <1>3, <1>4, <1>5 DEF Progress

\* What every request relies on is so, and every key of a user is fresh or about to be deleted, but for
\* subjects that were contended; no request issues a second token of a login.
THEOREM AccountsKnown == Spec => [](AccountsTypes /\ Safe)
<1>1. Init => Safe
  BY InitSafe
<1>2. ASSUME AccountsTypes, Safe, [Next]_vars PROVE Safe'
  <2>1. CASE \E r \in Requests : Arrive(r) \/ Progress(r)
    BY <1>2, <2>1, ArriveSafe, ProgressSafe
  <2>2. CASE \E r \in Requests : UsersFault(r) /\ UNCHANGED <<spent, tokens, jwts, linkTokens, reviews>>
    BY <1>2, <2>2, FaultSafe
  <2>3. CASE Forget
    <3>1. UNCHANGED handlerVars /\ UNCHANGED <<user, roles, tokens>> /\ \E S : cache' = Without(cache, S)
      BY <2>3 DEF Forget, UsersExpire, Expire
    <3>2. \A k : k \in DOMAIN cache' => k \in DOMAIN cache /\ cache'[k] = cache[k]
      BY <3>1 DEF Without
    <3>3. QED
      BY <1>2, <3>1, <3>2, ForgetSafe
  <2>4. CASE UNCHANGED vars
    <3>1. UNCHANGED handlerVars /\ UNCHANGED <<user, roles, tokens>> /\ cache' = cache
      BY <2>4 DEF vars, handlerVars
    <3>2. QED
      BY <1>2, <3>1, ForgetSafe
  <2>5. QED
    BY <1>2, <2>1, <2>2, <2>3, <2>4 DEF Next
<1>3. QED
  BY <1>1, <1>2, AccountsTyped, PTL DEF Spec

\* One refresh token at most is valid in a chain of refreshes, unless requests about the login overlapped.
THEOREM OneToken == Spec => []OneTokenPerLogin
<1>1. Safe => OneTokenPerLogin
  BY DEF Safe, Chains
<1>2. QED
  BY <1>1, AccountsKnown, PTL

\* A Telegram account is linked to one user at most, unless requests about them overlapped or failed.
THEOREM OneTelegram == Spec => []TelegramUnique
<1>1. Safe => TelegramUnique
  BY DEF Safe, Known
<1>2. QED
  BY <1>1, AccountsKnown, PTL

\* What is cached of a user who has settled is what the tables hold.
THEOREM FreshUsers == Spec => []UsersFresh
<1>1. ASSUME AccountsTypes, Safe PROVE UsersFresh
  <2>1. ASSUME NEW u \in Registered, Settled(u), NEW k \in UsersKeys, k[2] = u, k \in DOMAIN cache
        PROVE  cache[k] = Current(k)
    <3>1. u \notin contended /\ Quiet(u)
      BY <2>1 DEF Settled
    <3>2. ASSUME NEW r \in Requests, Drops(r, k) PROVE FALSE
      BY <1>1, <2>1, <3>1, <3>2, DropsMind DEF AccountsTypes, Quiet
    <3>3. QED
      BY <1>1, <2>1, <3>1, <3>2 DEF Safe, Known, CacheFresh
  <2>2. ASSUME NEW u \in Registered, Settled(u)
        PROVE  /\ Agrees(ProfileKey(u), Profile(u)) /\ Agrees(StatusKey(u), user[u].online)
               /\ Agrees(RolesKey(u), roles[u])
    <3>1. PICK k1, k2, k3 : k1 = ProfileKey(u) /\ k2 = StatusKey(u) /\ k3 = RolesKey(u)
      OBVIOUS
    <3>2. /\ k1 \in UsersKeys /\ k1[1] = "profile" /\ k1[2] = u
          /\ k2 \in UsersKeys /\ k2[1] = "status" /\ k2[2] = u
          /\ k3 \in UsersKeys /\ k3[1] = "roles" /\ k3[2] = u
      BY <3>1, KeyOfUser DEF Registered
    <3>3. Current(k1) = Profile(u) /\ Current(k2) = user[u].online /\ Current(k3) = roles[u]
      BY <3>2, CurrentIs
    <3>4. QED
      BY <2>1, <2>2, <3>1, <3>2, <3>3 DEF Agrees
  <2>3. QED
    BY <2>2 DEF UsersFresh
<1>2. QED
  BY <1>1, AccountsKnown, PTL

-----------------------------------------------------------------------------
(* What no step does *)

\* The label of the step at hand is that of the action.
LEMMA Labels ==
  ASSUME NEW r \in Requests, Progress(r)
  PROVE  /\ req[r].todo # <<>>
         /\ At(r, "notBanned") => NotBanned(r)
         /\ At(r, "save") => SaveUser(r)
         /\ At(r, "write") => WriteColumns(r)
         /\ At(r, "createUser") => CreateUser(r)
         /\ UNCHANGED user \/ SaveUser(r) \/ WriteColumns(r) \/ CreateUser(r)
<1>1. CASE RedisSteps(r) /\ UNCHANGED <<user, roles>>
  BY <1>1 DEF RedisSteps, CacheGet, CacheSet, CachePut, CachePeek, CacheDelete, CacheScan, CacheUnlink, At
<1>2. CASE SelectProfile(r) \/ SelectStatus(r) \/ SelectRoles(r) \/ Exists(r) \/ Unique(r)
  BY <1>2 DEF SelectProfile, SelectStatus, SelectRoles, Exists, Unique, At
<1>3. CASE Show(r) \/ HasRoles(r) \/ TwoFaIs(r) \/ VerifyTemp(r) \/ MakeCodes(r) \/ MatchCode(r)
  BY <1>3 DEF Show, HasRoles, TwoFaIs, VerifyTemp, MakeCodes, MatchCode, At
<1>4. CASE MatchDigits(r) \/ FindByPhone(r) \/ FindRefresh(r) \/ Revoke(r) \/ SaveToken(r)
  BY <1>4 DEF MatchDigits, FindByPhone, FindRefresh, Revoke, SaveToken, At
<1>5. CASE InsertToken(r) \/ FindByTelegramId(r) \/ FindToken(r) \/ UseToken(r)
  BY <1>5 DEF InsertToken, FindByTelegramId, FindToken, UseToken, At
<1>6. CASE SelectPage(r) \/ MayReview(r) \/ InsertReview(r) \/ Rate(r)
  BY <1>6 DEF SelectPage, MayReview, InsertReview, Rate, At
<1>7. CASE NotBanned(r)
  BY <1>7 DEF NotBanned, At
<1>8. CASE InsertRole(r)
  BY <1>8 DEF InsertRole, At
<1>9. CASE SaveUser(r)
  BY <1>9 DEF SaveUser, At
<1>10. CASE WriteColumns(r)
  BY <1>10 DEF WriteColumns, At
<1>11. CASE CreateUser(r)
  BY <1>11 DEF CreateUser, At
<1>12. QED
  BY <1>1, <1>2, <1>3, <1>4, <1>5, <1>6, <1>7, <1>8, <1>9, <1>10, <1>11
     DEF Progress, UsersSteps, TwoFactorSteps, SessionsSteps, TelegramSteps, ReviewsSteps

LEMMA GoesElsewhere ==
  ASSUME Proper, NEW r \in Requests, NEW x, req' = [req EXCEPT ![r] = x]
  PROVE  Elsewhere(r)
<1>1. req = [q \in Requests |-> req[q]]
  BY DEF Proper
<1>2. QED
  BY <1>1 DEF Elsewhere

\* A step is of one request.
LEMMA ProgressElsewhere ==
  ASSUME Proper, NEW r \in Requests, Progress(r)
  PROVE  Elsewhere(r)
<1>1. \A todo, got : Goes(r, todo, got) => Elsewhere(r)
  BY GoesElsewhere DEF Goes
<1>2. \A subjects, more : DoAbout(r, subjects, more) => Elsewhere(r)
  BY GoesElsewhere DEF DoAbout
<1>3. /\ Continue(r) \/ Throw(r) => Elsewhere(r)
      /\ \A k, v : Read(r, k, v) => Elsewhere(r)
      /\ \A more : Do(r, more) => Elsewhere(r)
      /\ \A condition : Require(r, condition) => Elsewhere(r)
  BY <1>1 DEF Continue, Throw, Read, Do, Require
<1>4. CASE RedisSteps(r)
  BY <1>1, <1>3, <1>4 DEF RedisSteps, CacheGet, CacheSet, CachePut, CachePeek, CacheDelete, CacheScan, CacheUnlink
<1>5. CASE SelectProfile(r) \/ SelectStatus(r) \/ SelectRoles(r) \/ Exists(r) \/ Unique(r)
  BY <1>3, <1>5 DEF SelectProfile, SelectStatus, SelectRoles, Exists, Unique
<1>6. CASE SaveUser(r) \/ WriteColumns(r) \/ InsertRole(r) \/ NotBanned(r) \/ Show(r) \/ HasRoles(r)
  BY <1>3, <1>6 DEF SaveUser, WriteColumns, InsertRole, NotBanned, Show, HasRoles
<1>7. CASE TwoFaIs(r) \/ VerifyTemp(r) \/ MakeCodes(r) \/ MatchCode(r)
  BY <1>1, <1>3, <1>7 DEF TwoFaIs, VerifyTemp, MakeCodes, MatchCode
<1>8. CASE MatchDigits(r) \/ FindByPhone(r) \/ CreateUser(r) \/ FindRefresh(r) \/ Revoke(r) \/ SaveToken(r)
  BY <1>2, <1>3, <1>8 DEF MatchDigits, FindByPhone, CreateUser, FindRefresh, Revoke, SaveToken
<1>9. CASE InsertToken(r) \/ FindByTelegramId(r) \/ FindToken(r) \/ UseToken(r)
  BY <1>2, <1>3, <1>9 DEF InsertToken, FindByTelegramId, FindToken, UseToken
<1>10. CASE SelectPage(r) \/ MayReview(r) \/ InsertReview(r) \/ Rate(r)
  BY <1>3, <1>10 DEF SelectPage, MayReview, InsertReview, Rate
<1>11. QED
  BY <1>4, <1>5, <1>6, <1>7, <1>8, <1>9, <1>10
     DEF Progress, UsersSteps, TwoFactorSteps, SessionsSteps, TelegramSteps, ReviewsSteps

\* What the guards and the public profile let pass.
LEMMA PassesNotBanned ==
  ASSUME AccountsTypes, Known, NEW r \in Requests, NotBanned(r), Arg(r, 1) \notin contended,
         req'[r] # Idle
  PROVE  ~user[Arg(r, 1)].banned
<1>1. PICK h, k : h = req[r].todo[1] /\ k = ProfileKey(h[2])
  OBVIOUS
<1>2. /\ req[r].todo # <<>> /\ h[1] = "notBanned" /\ Arg(r, 1) = h[2] /\ Shaped /\ Proper /\ Knows(r)
      /\ Program(req[r].todo)
  BY <1>1 DEF NotBanned, At, Arg, AccountsTypes, Known, Shaped, Fit
<1>3. StepOK(h)
  BY <1>1, <1>2, AtHand
<1>4. h[2] \in Users
  BY <1>2, <1>3 DEF StepOK, OfUser
<1>5. k \in UsersKeys /\ k \in Facts /\ k[1] = "profile" /\ k[2] = h[2]
  BY <1>1, <1>4, KeyOfUser DEF Facts
<1>6. Holds(r, k)
  BY <1>1, <1>2, <1>5, NeedsHead DEF Knows, Uses
<1>7. req[r].got["profile"] = Profile(h[2])
  BY <1>5, <1>6, CurrentIs DEF Holds
<1>8. ~Throw(r)
  BY <1>2, Throws DEF Thrown
<1>9. ~req[r].got["profile"].banned
  BY <1>8 DEF NotBanned, Require, Got
<1>10. Profile(h[2])["banned"] = user[h[2]]["banned"]
  BY DEF Profile, Columns
<1>11. QED
  BY <1>2, <1>7, <1>9, <1>10

\* A ban that is complete keeps the user out.
THEOREM BannedOut == Spec => BannedStaysOut
<1>1. ASSUME AccountsTypes, Safe, [Next]_vars, NEW r \in Requests, At(r, "notBanned"),
             Arg(r, 1) \notin contended, req'[r] # req[r], req'[r] # Idle
      PROVE  ~user[Arg(r, 1)].banned
  <2>1. Proper /\ Known /\ req[r] # Idle
    BY <1>1 DEF AccountsTypes, Shaped, Safe, At, Idle
  <2>2. ASSUME NEW q \in Requests, Elsewhere(q) PROVE q = r
    BY <1>1, <2>2 DEF Elsewhere
  <2>3. CASE \E q \in Requests : Arrive(q)
    <3>1. PICK q \in Requests : Arrive(q)
      BY <2>3
    <3>2. Arrival(q)
      BY <1>1, <3>1, Arrives DEF AccountsTypes
    <3>3. PICK op, about, program : Begin(q, op, about, program) /\ Fit(program, about)
      BY <3>2, Zenon DEF Arrival
    <3>4. Elsewhere(q) /\ req[q] = Idle
      BY <2>1, <3>3, Starts DEF Begin, Fit
    <3>5. QED
      BY <2>1, <2>2, <3>4
  <2>4. CASE \E q \in Requests : Progress(q)
    <3>1. PICK q \in Requests : Progress(q)
      BY <2>4
    <3>2. q = r
      BY <2>1, <2>2, <3>1, ProgressElsewhere
    <3>3. NotBanned(r)
      BY <1>1, <3>1, <3>2, Labels
    <3>4. QED
      BY <1>1, <2>1, <3>3, PassesNotBanned
  <2>5. CASE \E q \in Requests : UsersFault(q)
    <3>1. PICK q \in Requests : Fault(q)
      BY <2>5 DEF UsersFault
    <3>2. Elsewhere(q) /\ req'[q] = Idle
      BY <2>1, <3>1, Faults
    <3>3. QED
      BY <1>1, <2>2, <3>2
  <2>6. CASE Forget \/ UNCHANGED vars
    <3>1. UNCHANGED req
      BY <2>6 DEF Forget, UsersExpire, Expire, handlerVars, vars
    <3>2. QED
      BY <1>1, <3>1
  <2>7. QED
    BY <1>1, <2>3, <2>4, <2>5, <2>6 DEF Next
<1>2. AccountsTypes /\ Safe /\ [Next]_vars =>
        [\A r \in Requests :
           At(r, "notBanned") /\ Arg(r, 1) \notin contended /\ req'[r] # req[r] /\ req'[r] # Idle
             => ~user[Arg(r, 1)].banned]_usersVars
  BY <1>1
<1>3. QED
  BY <1>2, AccountsKnown, PTL DEF Spec, BannedStaysOut

\* No step writes a column of a user that its method does not name.
THEOREM NamedColumns == Spec => OnlyItsColumns
<1>1. ASSUME AccountsTypes, Safe, [Next]_vars, NEW u \in Registered, u \notin contended, NEW c \in Columns,
             user'[u][c] # user[u][c]
      PROVE  \E r \in Requests : c \in Written(r, u)
  <2>1. Tables /\ Known /\ Shaped /\ u \in Users
    BY <1>1 DEF AccountsTypes, Safe, Registered
  <2>2. UNCHANGED user \/ \E r \in Requests : Progress(r)
    <3>1. ASSUME NEW r \in Requests, Arrive(r) PROVE UNCHANGED user
      BY <2>1, <3>1, Arrives DEF tables
    <3>2. QED
      BY <1>1, <3>1 DEF Next, UsersFault, Forget, UsersExpire, vars
  <2>3. PICK r \in Requests : Progress(r)
    BY <1>1, <2>2
  <2>4. CASE SaveUser(r)
    <3>1. PICK v, patch, row : v = Arg(r, 1) /\ patch = Arg(r, 2) /\ row = Merged(r, patch)
      OBVIOUS
    <3>2. At(r, "save") /\ (UNCHANGED user \/ user' = [user EXCEPT ![v] = row])
      BY <2>4, <3>1 DEF SaveUser
    <3>3. /\ v \in Users
          /\ v \notin contended => \A d \in Columns : d \in DOMAIN patch \/ row[d] = user[v][d]
      BY <1>1, <2>1, <3>1, <3>2, SaveKnows
    <3>4. v = u /\ user'[u] = row
      BY <1>1, <2>1, <3>2 DEF Tables
    <3>5. c \in DOMAIN patch
      BY <1>1, <3>3, <3>4
    <3>6. QED
      BY <3>1, <3>2, <3>4, <3>5 DEF Written
  <2>5. CASE WriteColumns(r)
    <3>1. PICK v, patch, row : /\ v = Arg(r, 1) /\ patch = Arg(r, 2)
                               /\ row = [d \in Columns |-> IF d \in DOMAIN patch THEN patch[d] ELSE user[v][d]]
      OBVIOUS
    <3>2. At(r, "write") /\ (UNCHANGED user \/ user' = [user EXCEPT ![v] = row])
      BY <2>5, <3>1 DEF WriteColumns
    <3>3. v = u /\ user'[u] = row
      BY <1>1, <2>1, <3>2 DEF Tables
    <3>4. c \in DOMAIN patch
      BY <1>1, <3>1, <3>3
    <3>5. QED
      BY <3>1, <3>2, <3>3, <3>4 DEF Written
  <2>6. CASE CreateUser(r)
    <3>1. PICK h, v : h = req[r].todo[1] /\ v = h[2]
      OBVIOUS
    <3>2. /\ req[r].todo # <<>> /\ h[1] = "createUser" /\ Knows(r) /\ Program(req[r].todo)
          /\ UNCHANGED user \/ \E row : user' = [user EXCEPT ![v] = row]
      <4>1. At(r, "createUser") /\ Arg(r, 1) = v
        BY <2>6, <3>1 DEF CreateUser, Arg
      <4>2. UNCHANGED user \/ user' = [user EXCEPT ![Arg(r, 1)] = NewUser(Arg(r, 2))]
        BY <2>6, Zenon DEF CreateUser
      <4>3. PICK row : row = NewUser(Arg(r, 2))
        OBVIOUS
      <4>4. UNCHANGED user \/ user' = [user EXCEPT ![v] = row]
        BY <4>1, <4>2, <4>3
      <4>5. Knows(r) /\ Program(req[r].todo)
        BY <2>1 DEF Known, Shaped, Fit
      <4>6. QED
        BY <3>1, <4>1, <4>4, <4>5 DEF At
    <3>3. v = u
      BY <1>1, <2>1, <3>2 DEF Tables
    <3>4. PICK k : k = <<"absent", u>>
      OBVIOUS
    <3>5. k \in Facts /\ k[1] = "absent" /\ k[2] = u /\ Uses(h, k)
      BY <2>1, <3>1, <3>2, <3>3, <3>4 DEF Facts, Uses
    <3>6. Holds(r, k)
      BY <1>1, <3>1, <3>2, <3>5, NeedsHead DEF Knows
    <3>7. QED
      BY <1>1, <3>5, <3>6 DEF Holds
  <2>7. QED
    BY <1>1, <2>3, <2>4, <2>5, <2>6, Labels
<1>2. AccountsTypes /\ Safe /\ [Next]_vars =>
        [\A u \in Registered : u \notin contended =>
           \A c \in Columns : user'[u][c] # user[u][c] => \E r \in Requests : c \in Written(r, u)]_usersVars
  BY <1>1
<1>3. QED
  BY <1>2, AccountsKnown, PTL DEF Spec, OnlyItsColumns
=============================================================================
