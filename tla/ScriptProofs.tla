---------------------------- MODULE ScriptProofs ----------------------------
(***************************************************************************)
(* What the programs of Accounts keep that must not be told from the labels *)
(* of their steps alone: whoever is through with a registration has both    *)
(* roles, and recovery codes, the switch of two-factor authentication and   *)
(* the proposed secret belong together.  Such a program is followed step by *)
(* step.                                                                     *)
(***************************************************************************)
EXTENDS AccountsProofs

-----------------------------------------------------------------------------
(* Scripts.  A program that must not be told from its labels alone is followed step by step. *)

\* The program q begins with, or is, what is left of a script after n steps.
Begun(q, script, n) ==
  /\ n \in 0..Len(script) - 1 /\ Len(q) >= Len(script) - n
  /\ \A i \in 1..Len(script) - n : q[i] = script[n + i]
Rest(q, script, n) == Begun(q, script, n) /\ Len(q) = Len(script) - n

-----------------------------------------------------------------------------
(* Scripts go on *)

LEMMA BegunStep ==
  ASSUME NEW q, Program(q), NEW script, Len(script) \in Nat, NEW n, Begun(q, script, n)
  PROVE  /\ q # <<>> /\ q[1] = script[n + 1] /\ 1 \in DOMAIN q
         /\ n + 1 < Len(script) => Begun(Tail(q), script, n + 1)
         /\ Rest(q, script, n) =>
              IF n + 1 < Len(script) THEN Rest(Tail(q), script, n + 1) ELSE Tail(q) = <<>>
<1>1. n \in 0..Len(script) - 1 /\ Len(q) >= Len(script) - n /\ \A i \in 1..Len(script) - n : q[i] = script[n + i]
  BY DEF Begun
<1>2. Len(q) \in Nat /\ Len(q) >= 1 /\ q # <<>>
  <2>1. Len(q) \in Nat
    BY DEF Program
  <2>2. Len(<<>>) = 0
    OBVIOUS
  <2>3. QED
    BY <1>1, <2>1, <2>2
<1>3. /\ DOMAIN q = 1..Len(q) /\ Len(Tail(q)) = Len(q) - 1 /\ DOMAIN Tail(q) = 1..Len(Tail(q))
      /\ \A i \in DOMAIN Tail(q) : Tail(q)[i] = q[i + 1]
  BY <1>2, ProgramTail
<1>4. q[1] = script[n + 1] /\ 1 \in DOMAIN q
  BY <1>1, <1>2, <1>3
<1>5. ASSUME n + 1 < Len(script) PROVE Begun(Tail(q), script, n + 1)
  <2>1. ASSUME NEW i \in 1..Len(script) - (n + 1) PROVE Tail(q)[i] = script[n + 1 + i]
    <3>1. i \in DOMAIN Tail(q) /\ i + 1 \in 1..Len(script) - n
      BY <1>1, <1>2, <1>3, <2>1
    <3>2. Tail(q)[i] = q[i + 1]
      BY <1>3, <3>1
    <3>3. q[i + 1] = script[n + (i + 1)]
      BY <1>1, <3>1
    <3>4. n + (i + 1) = n + 1 + i
      BY <1>1, <3>1
    <3>5. QED
      BY <3>2, <3>3, <3>4
  <2>2. n + 1 \in 0..Len(script) - 1
    BY <1>1, <1>5
  <2>3. Len(Tail(q)) >= Len(script) - (n + 1)
    BY <1>1, <1>2, <1>3
  <2>4. QED
    BY <2>1, <2>2, <2>3 DEF Begun
<1>6. ASSUME Rest(q, script, n), n + 1 < Len(script) PROVE Rest(Tail(q), script, n + 1)
  BY <1>1, <1>2, <1>3, <1>5, <1>6 DEF Rest
<1>7. ASSUME Rest(q, script, n), ~(n + 1 < Len(script)) PROVE Tail(q) = <<>>
  <2>1. Len(Tail(q)) = 0
    BY <1>1, <1>2, <1>3, <1>7 DEF Rest
  <2>2. Tail(q) \in Seq(Steps(Tail(q)))
    BY <1>2, ProgramTail DEF Program
  <2>3. QED
    BY <2>1, <2>2, EmptySeq
<1>8. QED
  BY <1>2, <1>4, <1>5, <1>6, <1>7

\* A hit in the cache skips three steps.
LEMMA SkipOf ==
  ASSUME NEW q, Program(q), 3 \in DOMAIN q, NEW z, z = SubSeq(q, 4, Len(q))
  PROVE  /\ Program(z) /\ Len(q) \in Nat /\ Len(z) = Len(q) - 3 /\ DOMAIN z = 1..Len(z)
         /\ \A i \in DOMAIN z : i + 3 \in DOMAIN q /\ z[i] = q[i + 3]
         /\ Steps(z) \subseteq Steps(q)
<1>1. Len(q) \in Nat /\ DOMAIN q = 1..Len(q) /\ Len(q) >= 3 /\ q \in Seq(Steps(q))
  BY DEF Program
<1>2. PICK n, S : n = Len(q) /\ S = Steps(q)
  OBVIOUS
<1>3. \A i \in 4..n : q[i] \in S
  BY <1>1, <1>2 DEF Steps
<1>4. z \in Seq(S) /\ Len(z) = (IF 4 <= n THEN n - 4 + 1 ELSE 0) /\ \A i \in 1..n - 4 + 1 : z[i] = q[4 + i - 1]
  BY <1>1, <1>2, <1>3, SubSeqProperties
<1>5. Len(z) = Len(q) - 3 /\ DOMAIN z = 1..Len(z)
  BY <1>1, <1>2, <1>4
<1>6. \A i \in DOMAIN z : i + 3 \in DOMAIN q /\ z[i] = q[i + 3]
  <2>1. ASSUME NEW i \in DOMAIN z PROVE i + 3 \in DOMAIN q /\ z[i] = q[i + 3]
    <3>1. i \in 1..n - 4 + 1 /\ 4 + i - 1 = i + 3 /\ i + 3 \in DOMAIN q
      BY <1>1, <1>2, <1>5, <2>1
    <3>2. z[i] = q[4 + i - 1]
      BY <1>4, <3>1
    <3>3. QED
      BY <3>1, <3>2
  <2>2. QED
    BY <2>1
<1>7. Steps(z) \subseteq Steps(q)
  BY <1>6 DEF Steps
<1>8. Program(z)
  <2>1. PICK T : T = Steps(z)
    OBVIOUS
  <2>2. \A i \in DOMAIN z : z[i] \in T
    BY <2>1 DEF Steps
  <2>3. z \in Seq(S)
    BY <1>4
  <2>4. z = [i \in DOMAIN z |-> z[i]]
    BY <2>3
  <2>5. z \in Seq(T)
    <3>1. PICK f : f = z
      OBVIOUS
    <3>2. f = [i \in DOMAIN z |-> f[i]] /\ \A i \in DOMAIN z : f[i] \in T
      BY <2>2, <2>4, <3>1
    <3>3. f \in Seq(T)
      BY <2>3, <3>2, RowsChange
    <3>4. QED
      BY <3>1, <3>3
  <2>6. QED
    BY <2>1, <2>5 DEF Program
<1>9. QED
  BY <1>1, <1>5, <1>6, <1>7, <1>8

LEMMA BegunSkip ==
  ASSUME NEW q, Program(q), NEW script, Len(script) \in Nat, NEW n, Begun(q, script, n),
         n + 3 <= Len(script), NEW z, z = SubSeq(q, 4, Len(q))
  PROVE  /\ 3 \in DOMAIN q /\ Program(z) /\ Len(z) = Len(q) - 3
         /\ n + 3 < Len(script) => Begun(z, script, n + 3)
         /\ Rest(q, script, n) => IF n + 3 < Len(script) THEN Rest(z, script, n + 3) ELSE z = <<>>
<1>1. n \in 0..Len(script) - 1 /\ Len(q) >= Len(script) - n /\ \A i \in 1..Len(script) - n : q[i] = script[n + i]
  BY DEF Begun
<1>2. Len(q) \in Nat /\ DOMAIN q = 1..Len(q)
  BY DEF Program
<1>3. 3 \in DOMAIN q
  BY <1>1, <1>2
<1>4. /\ Program(z) /\ Len(z) = Len(q) - 3 /\ DOMAIN z = 1..Len(z)
      /\ \A i \in DOMAIN z : i + 3 \in DOMAIN q /\ z[i] = q[i + 3]
  BY <1>3, SkipOf
<1>5. ASSUME n + 3 < Len(script) PROVE Begun(z, script, n + 3)
  <2>1. ASSUME NEW i \in 1..Len(script) - (n + 3) PROVE z[i] = script[n + 3 + i]
    <3>1. i \in DOMAIN z /\ i + 3 \in 1..Len(script) - n
      BY <1>1, <1>2, <1>4, <2>1
    <3>2. z[i] = q[i + 3]
      BY <1>4, <3>1
    <3>3. q[i + 3] = script[n + (i + 3)]
      BY <1>1, <3>1
    <3>4. n + (i + 3) = n + 3 + i
      BY <1>1, <3>1
    <3>5. QED
      BY <3>2, <3>3, <3>4
  <2>2. QED
    BY <1>1, <1>2, <1>4, <1>5, <2>1 DEF Begun
<1>6. ASSUME Rest(q, script, n), n + 3 < Len(script) PROVE Rest(z, script, n + 3)
  BY <1>1, <1>2, <1>4, <1>5, <1>6 DEF Rest
<1>7. ASSUME Rest(q, script, n), ~(n + 3 < Len(script)) PROVE z = <<>>
  <2>1. Len(z) = 0
    BY <1>1, <1>2, <1>4, <1>7 DEF Rest
  <2>2. z \in Seq(Steps(z))
    BY <1>4 DEF Program
  <2>3. QED
    BY <2>1, <2>2, EmptySeq
<1>8. QED
  BY <1>3, <1>4, <1>5, <1>6, <1>7

-----------------------------------------------------------------------------
(* The steps of the scripts *)

\* z is p followed by q.
Joined(z, p, q) ==
  /\ Program(z) /\ Len(p) \in Nat /\ Len(q) \in Nat /\ Len(z) = Len(p) + Len(q)
  /\ \A i \in 1..Len(p) : z[i] = p[i]
  /\ \A i \in 1..Len(q), j \in Nat : j = Len(p) + i => z[j] = q[i]

LEMMA JoinIs ==
  ASSUME NEW p, NEW q, Program(p), Program(q), NEW z, z = p \o q
  PROVE  Joined(z, p, q)
<1>1. /\ Program(z) /\ Len(p) \in Nat /\ Len(q) \in Nat /\ Len(z) = Len(p) + Len(q)
      /\ \A i \in 1..Len(p) + Len(q) : z[i] = IF i <= Len(p) THEN p[i] ELSE q[i - Len(p)]
  BY ProgramJoin
<1>2. ASSUME NEW i \in 1..Len(p) PROVE z[i] = p[i]
  BY <1>1, <1>2
<1>3. ASSUME NEW i \in 1..Len(q), NEW j \in Nat, j = Len(p) + i PROVE z[j] = q[i]
  <2>1. j \in 1..Len(p) + Len(q) /\ ~(j <= Len(p)) /\ j - Len(p) = i
    BY <1>1, <1>3
  <2>2. z[j] = q[j - Len(p)]
    BY <1>1, <2>1
  <2>3. QED
    BY <2>1, <2>2
<1>4. QED
  BY <1>1, <1>2, <1>3 DEF Joined

LEMMA GetOrSetIs ==
  ASSUME NEW k, NEW s, s = GetOrSet(k)
  PROVE  /\ Program(s) /\ Len(s) = 3
         /\ s[1] = <<"get", k>> /\ s[2] = <<"select", k>> /\ s[3] = <<"set", k>>
<1>1. Program(s)
  BY ProgramOf3 DEF GetOrSet
<1>2. QED
  BY <1>1 DEF GetOrSet

LEMMA AddRoleIs ==
  ASSUME NEW u, NEW role, NEW s, s = AddRole(u, role)
  PROVE  /\ Program(s) /\ Len(s) = 5
         /\ s[1] = <<"get", RolesKey(u)>> /\ s[2] = <<"select", RolesKey(u)>>
         /\ s[3] = <<"set", RolesKey(u)>> /\ s[4] = <<"insertRole", u, role>>
         /\ s[5] = <<"delete", RolesKey(u)>>
<1>1. PICK a, b : a = GetOrSet(RolesKey(u)) /\ b = <<<<"insertRole", u, role>>, <<"delete", RolesKey(u)>>>>
  OBVIOUS
<1>2. Program(a) /\ Program(b)
  BY <1>1, GetOrSetIs, ProgramOf2
<1>3. /\ Len(a) = 3
      /\ a[1] = <<"get", RolesKey(u)>> /\ a[2] = <<"select", RolesKey(u)>>
      /\ a[3] = <<"set", RolesKey(u)>>
  BY <1>1, GetOrSetIs
<1>4. Len(b) = 2 /\ b[1] = <<"insertRole", u, role>> /\ b[2] = <<"delete", RolesKey(u)>>
  BY <1>1
<1>5. Joined(s, a, b)
  BY <1>1, <1>2, JoinIs DEF AddRole, GetUserRoles
<1>6. QED
  BY <1>3, <1>4, <1>5 DEF Joined

LEMMA RegistrationIs ==
  ASSUME NEW u, NEW p, NEW s, s = CompleteRegistration(u, p)
  PROVE  /\ Program(s) /\ Len(s) = 15
         /\ s[1] = <<"createUser", u, p>> /\ s[2] = <<"get", RolesKey(u)>>
         /\ s[3] = <<"select", RolesKey(u)>> /\ s[4] = <<"set", RolesKey(u)>>
         /\ s[5] = <<"insertRole", u, "RENTER">> /\ s[6] = <<"delete", RolesKey(u)>>
         /\ s[7] = <<"get", RolesKey(u)>> /\ s[8] = <<"select", RolesKey(u)>>
         /\ s[9] = <<"set", RolesKey(u)>> /\ s[10] = <<"insertRole", u, "LANDLORD">>
         /\ s[11] = <<"delete", RolesKey(u)>> /\ s[12] = <<"get", RolesKey(u)>>
         /\ s[13] = <<"select", RolesKey(u)>> /\ s[14] = <<"set", RolesKey(u)>>
         /\ s[15] = <<"saveToken", u, 0>>
<1>1. PICK a, b, c, d, e : /\ a = <<<<"createUser", u, p>>>> /\ b = AddRole(u, "RENTER")
                           /\ c = AddRole(u, "LANDLORD") /\ d = GetOrSet(RolesKey(u))
                           /\ e = <<<<"saveToken", u, 0>>>>
  OBVIOUS
<1>2. Program(a) /\ Program(b) /\ Program(c) /\ Program(d) /\ Program(e)
  BY <1>1, AddRoleIs, GetOrSetIs, ProgramOf1
<1>3. Len(a) = 1 /\ a[1] = <<"createUser", u, p>> /\ Len(e) = 1 /\ e[1] = <<"saveToken", u, 0>>
  BY <1>1
<1>4. /\ Len(b) = 5
      /\ b[1] = <<"get", RolesKey(u)>> /\ b[2] = <<"select", RolesKey(u)>>
      /\ b[3] = <<"set", RolesKey(u)>> /\ b[4] = <<"insertRole", u, "RENTER">>
      /\ b[5] = <<"delete", RolesKey(u)>>
  BY <1>1, AddRoleIs
<1>5. /\ Len(c) = 5
      /\ c[1] = <<"get", RolesKey(u)>> /\ c[2] = <<"select", RolesKey(u)>>
      /\ c[3] = <<"set", RolesKey(u)>> /\ c[4] = <<"insertRole", u, "LANDLORD">>
      /\ c[5] = <<"delete", RolesKey(u)>>
  BY <1>1, AddRoleIs
<1>6. /\ Len(d) = 3
      /\ d[1] = <<"get", RolesKey(u)>> /\ d[2] = <<"select", RolesKey(u)>>
      /\ d[3] = <<"set", RolesKey(u)>>
  BY <1>1, GetOrSetIs
<1>7. PICK ab, abc, de : ab = a \o b /\ abc = ab \o c /\ de = d \o e
  OBVIOUS
<1>8. Joined(ab, a, b) /\ Joined(de, d, e)
  BY <1>2, <1>7, JoinIs
<1>9. Program(ab) /\ Program(de)
  BY <1>8 DEF Joined
<1>19. Joined(abc, ab, c)
  BY <1>2, <1>7, <1>9, JoinIs
<1>20. Program(abc)
  BY <1>19 DEF Joined
<1>10. Joined(s, abc, de)
  <2>1. s = abc \o de
    BY <1>1, <1>7 DEF CompleteRegistration, IssueTokens, GetUserRoles
  <2>2. QED
    BY <1>9, <1>20, <2>1, JoinIs
<1>11. /\ Len(ab) = 6 /\ ab[1] = a[1] /\ ab[2] = b[1] /\ ab[3] = b[2] /\ ab[4] = b[3] /\ ab[5] = b[4]
       /\ ab[6] = b[5]
  BY <1>3, <1>4, <1>8 DEF Joined
<1>12. /\ Len(de) = 4 /\ de[1] = d[1] /\ de[2] = d[2] /\ de[3] = d[3] /\ de[4] = e[1]
  BY <1>3, <1>6, <1>8 DEF Joined
<1>13. /\ Len(abc) = 11 /\ \A i \in 1..6 : abc[i] = ab[i]
       /\ abc[7] = c[1] /\ abc[8] = c[2] /\ abc[9] = c[3] /\ abc[10] = c[4] /\ abc[11] = c[5]
  BY <1>5, <1>19, <1>11 DEF Joined
<1>14. /\ Program(s) /\ Len(s) = 15 /\ \A i \in 1..11 : s[i] = abc[i]
       /\ s[12] = de[1] /\ s[13] = de[2] /\ s[14] = de[3] /\ s[15] = de[4]
  BY <1>10, <1>12, <1>13 DEF Joined
<1>15. /\ s[1] = <<"createUser", u, p>> /\ s[2] = <<"get", RolesKey(u)>>
       /\ s[3] = <<"select", RolesKey(u)>> /\ s[4] = <<"set", RolesKey(u)>>
       /\ s[5] = <<"insertRole", u, "RENTER">> /\ s[6] = <<"delete", RolesKey(u)>>
  BY <1>3, <1>4, <1>11, <1>13, <1>14
<1>16. /\ s[7] = <<"get", RolesKey(u)>> /\ s[8] = <<"select", RolesKey(u)>>
       /\ s[9] = <<"set", RolesKey(u)>> /\ s[10] = <<"insertRole", u, "LANDLORD">>
       /\ s[11] = <<"delete", RolesKey(u)>>
  BY <1>5, <1>13, <1>14
<1>17. /\ s[12] = <<"get", RolesKey(u)>> /\ s[13] = <<"select", RolesKey(u)>>
       /\ s[14] = <<"set", RolesKey(u)>> /\ s[15] = <<"saveToken", u, 0>>
  BY <1>3, <1>6, <1>12, <1>14
<1>18. QED
  BY <1>14, <1>15, <1>16, <1>17

-----------------------------------------------------------------------------
(* What settles.  Only a few programs write the roles, the codes or the ratings of a user, or cache pages of
   reviews; the steps of all others leave them alone. *)

Cleared == [twoFa |-> FALSE, codes |-> {}]
RolePlain(x) == x[1] \notin {"createUser", "insertRole"}
CodePlain(x) ==
  /\ x[1] \notin {"makeCodes", "matchCode"}
  /\ x[1] = "put" => x[2][1] = "flash-call"
  /\ x[1] = "delete" => x[2][1] # "2fa:temp"
  /\ x[1] = "save" => DOMAIN x[3] \cap {"twoFa", "codes"} = {} \/ x[3] = Cleared
PagePlain(x) ==
  /\ x[1] \notin {"mayReview", "insertReview", "rate", "scan", "unlink"}
  /\ x[1] \in Reads => x[2] \in UsersKeys
  /\ x[1] = "save" => DOMAIN x[3] \cap {"asLandlord", "asRenter"} = {}
Bland(x) == RolePlain(x) /\ CodePlain(x) /\ PagePlain(x)

LEMMA GetOrSetSteps ==
  ASSUME NEW k
  PROVE  /\ Program(GetOrSet(k)) /\ Steps(GetOrSet(k)) = {<<"get", k>>, <<"select", k>>, <<"set", k>>}
         /\ k \in UsersKeys => \A x \in Steps(GetOrSet(k)) : Bland(x)
<1>1. Program(GetOrSet(k)) /\ Steps(GetOrSet(k)) = {<<"get", k>>, <<"select", k>>, <<"set", k>>}
  BY ProgramOf3 DEF GetOrSet
<1>2. QED
  BY <1>1 DEF Bland, RolePlain, CodePlain, PagePlain

LEMMA FindByIdSteps ==
  ASSUME NEW u \in Users
  PROVE  Program(FindById(u)) /\ \A x \in Steps(FindById(u)) : Bland(x)
<1>1. PICK a, b : a = GetOrSet(ProfileKey(u)) /\ b = GetOrSet(StatusKey(u))
  OBVIOUS
<1>2. Program(a) /\ Program(b) /\ \A x \in Steps(a) \cup Steps(b) : Bland(x)
  BY <1>1, GetOrSetSteps, KeyOfUser
<1>3. FindById(u) = a \o b
  BY <1>1 DEF FindById
<1>4. QED
  BY <1>2, <1>3, ProgramJoin

LEMMA UpdateSteps ==
  ASSUME NEW u \in Users, NEW patch
  PROVE  /\ Program(Update(u, patch))
         /\ \A x \in Steps(Update(u, patch)) : Bland(x) \/ x = <<"save", u, patch>>
<1>1. PICK a, b, c : /\ a = IF LookedFor(patch) # {} THEN <<<<"unique", patch>>>> ELSE <<>>
                     /\ b = FindById(u) /\ c = <<<<"delete", ProfileKey(u)>>, <<"save", u, patch>>>>
  OBVIOUS
<1>2. Program(a) /\ \A x \in Steps(a) : Bland(x)
  <2>1. Program(a) /\ \A x \in Steps(a) : x = <<"unique", patch>>
    BY <1>1, NoProgram, ProgramOf1
  <2>2. QED
    BY <2>1 DEF Bland, RolePlain, CodePlain, PagePlain, Reads
<1>3. Program(b) /\ \A x \in Steps(b) : Bland(x)
  BY <1>1, FindByIdSteps
<1>4. Program(c) /\ \A x \in Steps(c) : Bland(x) \/ x = <<"save", u, patch>>
  <2>1. Program(c) /\ Steps(c) = {<<"delete", ProfileKey(u)>>, <<"save", u, patch>>}
    BY <1>1, ProgramOf2
  <2>2. Bland(<<"delete", ProfileKey(u)>>)
    BY DEF Bland, RolePlain, CodePlain, PagePlain, Reads, ProfileKey
  <2>3. QED
    BY <2>1, <2>2
<1>5. Update(u, patch) = a \o b \o c
  BY <1>1 DEF Update
<1>6. Program(a \o b) /\ Steps(a \o b) = Steps(a) \cup Steps(b)
  BY <1>2, <1>3, ProgramJoin
<1>7. Program(a \o b \o c) /\ Steps(a \o b \o c) = Steps(a \o b) \cup Steps(c)
  BY <1>4, <1>6, ProgramJoin
<1>8. QED
  BY <1>2, <1>3, <1>4, <1>5, <1>6, <1>7

\* What is saved under these columns.
LEMMA SaveBland ==
  ASSUME NEW u, NEW patch
  PROVE  /\ DOMAIN patch \cap {"twoFa", "codes", "asLandlord", "asRenter"} = {} => Bland(<<"save", u, patch>>)
         /\ RolePlain(<<"save", u, patch>>)
         /\ DOMAIN patch \cap {"asLandlord", "asRenter"} = {} => PagePlain(<<"save", u, patch>>)
         /\ DOMAIN patch \cap {"twoFa", "codes"} = {} => CodePlain(<<"save", u, patch>>)
         /\ patch = Cleared => Bland(<<"save", u, patch>>)
<1>1. patch = Cleared => DOMAIN patch \cap {"asLandlord", "asRenter"} = {}
  BY DEF Cleared
<1>2. QED
  BY <1>1 DEF Bland, RolePlain, CodePlain, PagePlain, Reads

LEMMA IssueSteps ==
  ASSUME NEW u \in Users, NEW chain
  PROVE  Program(IssueTokens(u, chain)) /\ \A x \in Steps(IssueTokens(u, chain)) : Bland(x)
<1>1. PICK a, b : a = GetOrSet(RolesKey(u)) /\ b = <<<<"saveToken", u, chain>>>>
  OBVIOUS
<1>2. Program(a) /\ \A x \in Steps(a) : Bland(x)
  BY <1>1, GetOrSetSteps, KeyOfUser
<1>3. Program(b) /\ \A x \in Steps(b) : Bland(x)
  <2>1. Program(b) /\ Steps(b) = {<<"saveToken", u, chain>>}
    BY <1>1, ProgramOf1
  <2>2. QED
    BY <2>1 DEF Bland, RolePlain, CodePlain, PagePlain, Reads
<1>4. IssueTokens(u, chain) = a \o b
  BY <1>1 DEF IssueTokens, GetUserRoles
<1>5. QED
  BY <1>2, <1>3, <1>4, ProgramJoin

LEMMA RelinkSteps ==
  ASSUME NEW u \in Users, NEW t, NEW old \in Users \cup {NoRow}
  PROVE  Program(Relink(u, t, old)) /\ \A x \in Steps(Relink(u, t, old)) : Bland(x)
<1>1. ASSUME NEW v \in Users, NEW s
      PROVE  Program(Update(v, [tg |-> s])) /\ \A x \in Steps(Update(v, [tg |-> s])) : Bland(x)
  <2>1. PICK patch : patch = [tg |-> s]
    OBVIOUS
  <2>2. DOMAIN patch \cap {"twoFa", "codes", "asLandlord", "asRenter"} = {}
    BY <2>1
  <2>3. QED
    BY <2>1, <2>2, UpdateSteps, SaveBland
<1>2. Program(<<>>) /\ Steps(<<>>) = {}
  BY NoProgram
<1>3. PICK a, b : a = (IF old = NoRow THEN <<>> ELSE Unlink(old)) /\ b = Link(u, t)
  OBVIOUS
<1>4. Program(a) /\ \A x \in Steps(a) : Bland(x)
  BY <1>1, <1>2, <1>3 DEF Unlink
<1>5. Program(b) /\ \A x \in Steps(b) : Bland(x)
  BY <1>1, <1>3 DEF Link
<1>6. Program(a \o b) /\ Steps(a \o b) = Steps(a) \cup Steps(b)
  BY <1>4, <1>5, ProgramJoin
<1>7. Relink(u, t, old) = IF old = u THEN <<>> ELSE a \o b
  BY <1>3 DEF Relink
<1>8. QED
  BY <1>2, <1>4, <1>5, <1>6, <1>7

LEMMA PublishSteps ==
  ASSUME NEW b, NEW by
  PROVE  /\ Program(Publish(b, by))
         /\ \A x \in Steps(Publish(b, by)) : RolePlain(x) /\ CodePlain(x)
<1>1. PICK a, c : a = <<"scan", UserPages(Target(b, by))>> /\ c = <<"scan", {ListingPage(b.landlord)}>>
  OBVIOUS
<1>2. Publish(b, by) = <<a>> \o (IF by = b.renter THEN <<c>> ELSE <<>>)
  BY <1>1 DEF Publish
<1>3. PICK d : d = IF by = b.renter THEN <<c>> ELSE <<>>
  OBVIOUS
<1>4. Program(d) /\ Steps(d) \subseteq {c} /\ Program(<<a>>) /\ Steps(<<a>>) = {a}
  BY <1>3, ProgramOf1, NoProgram
<1>5. Program(<<a>> \o d) /\ Steps(<<a>> \o d) \subseteq {a, c}
  BY <1>4, ProgramJoin
<1>6. \A x \in {a, c} : RolePlain(x) /\ CodePlain(x)
  BY <1>1 DEF RolePlain, CodePlain
<1>7. QED
  BY <1>2, <1>3, <1>5, <1>6

\* The step x is left by a request that takes a step: it was left before, or is one that the step brings.
Brings(r, x) ==
  \/ x \in Left(r) \/ Bland(x)
  \/ At(r, "matchCode") /\ RolePlain(x) /\ PagePlain(x)
  \/ (At(r, "insertReview") \/ At(r, "rate") \/ At(r, "scan")) /\ RolePlain(x) /\ CodePlain(x)

LEMMA GoesBring ==
  ASSUME Proper, NEW r \in Requests, req[r].todo # <<>>,
         \/ Continue(r) \/ Throw(r) \/ (\E k, v : Read(r, k, v))
         \/ \E got : Goes(r, Tail(req[r].todo), got)
  PROVE  Left(r)' \subseteq Left(r)
<1>1. CASE Throw(r)
  BY <1>1, Throws
<1>2. CASE \E got : Goes(r, Tail(req[r].todo), got)
  BY <1>2, Continues
<1>3. QED
  BY <1>1, <1>2 DEF Continue, Read

LEMMA DoBrings ==
  ASSUME Proper, NEW r \in Requests, req[r].todo # <<>>, NEW more, Program(more),
         Do(r, more) \/ (\E got : Goes(r, more \o Tail(req[r].todo), got)) \/ \E subjects : DoAbout(r, subjects, more)
  PROVE  Left(r)' = Steps(more) \cup Steps(Tail(req[r].todo)) /\ Left(r)' \subseteq Steps(more) \cup Left(r)
<1>1. CASE \E got : Goes(r, more \o Tail(req[r].todo), got)
  <2>1. PICK got : Goes(r, more \o Tail(req[r].todo), got)
    BY <1>1
  <2>2. /\ Left(r)' = Steps(more) \cup Steps(Tail(req[r].todo))
        /\ Left(r) = {req[r].todo[1]} \cup Steps(Tail(req[r].todo))
    BY <2>1, Does
  <2>3. QED
    BY <2>2
<1>2. CASE \E subjects : DoAbout(r, subjects, more)
  <2>1. PICK todo : todo = more \o Tail(req[r].todo)
    OBVIOUS
  <2>2. Program(Tail(req[r].todo)) /\ Left(r) = {req[r].todo[1]} \cup Steps(Tail(req[r].todo))
    BY ProgramTail DEF Proper, Left
  <2>3. Program(todo) /\ Steps(todo) = Steps(more) \cup Steps(Tail(req[r].todo))
    BY <2>1, <2>2, ProgramJoin
  <2>4. req'[r].todo = todo
    <3>1. PICK subjects : req' = [req EXCEPT ![r] = IF todo = <<>> THEN Idle
                                 ELSE [@ EXCEPT !.todo = todo, !.about = req[r].about \cup subjects]]
      BY <1>2, <2>1 DEF DoAbout
    <3>2. req'[r] = IF todo = <<>> THEN Idle
                    ELSE [req[r] EXCEPT !.todo = todo, !.about = req[r].about \cup subjects]
      BY <3>1 DEF Proper
    <3>3. req[r] = [op |-> req[r].op, about |-> req[r].about, todo |-> req[r].todo, got |-> req[r].got]
      BY DEF Proper
    <3>4. CASE todo = <<>>
      BY <3>2, <3>4 DEF Idle
    <3>5. CASE todo # <<>>
      BY <3>2, <3>3, <3>5
    <3>6. QED
      BY <3>4, <3>5
  <2>5. QED
    BY <2>2, <2>3, <2>4 DEF Left
<1>3. QED
  BY <1>1, <1>2 DEF Do

LEMMA UsersBring ==
  ASSUME AccountsTypes, NEW r \in Requests, UsersSteps(r), NEW x \in Left(r)'
  PROVE  Brings(r, x)
<1>0. Proper
  BY DEF AccountsTypes, Shaped
<1>1. CASE CacheGet(r)
  <2>1. /\ req[r].todo # <<>> /\ req[r].todo[1][1] = "get"
        /\ Continue(r) \/ \E got : Goes(r, SubSeq(req[r].todo, 4, Len(req[r].todo)), got)
    BY <1>1, Zenon DEF CacheGet, At
  <2>2. CASE Continue(r)
    BY <1>0, <2>1, <2>2, GoesBring DEF Brings
  <2>3. CASE \E got : Goes(r, SubSeq(req[r].todo, 4, Len(req[r].todo)), got)
    <3>1. PICK q, z, got : q = req[r].todo /\ z = SubSeq(q, 4, Len(q)) /\ Goes(r, z, got)
      BY <2>3
    <3>2. Program(q) /\ Adjacent(q) /\ q # <<>> /\ q[1][1] = "get" /\ 1 \in DOMAIN q
      BY <2>1, <3>1, ProgramTail DEF AccountsTypes, Shaped, Fit
    <3>3. 3 \in DOMAIN q
      <4>1. 1 + 2 \in DOMAIN q
        BY <3>2 DEF Adjacent
      <4>2. QED
        BY <4>1
    <3>4. Program(z) /\ Steps(z) \subseteq Steps(q)
      BY <3>1, <3>2, <3>3, SkipOf
    <3>5. req'[r].todo = z
      BY <1>0, <3>1, <3>4, GoesOn
    <3>6. QED
      BY <3>1, <3>4, <3>5 DEF Brings, Left
  <2>4. QED
    BY <2>1, <2>2, <2>3
<1>2. CASE CacheSet(r) \/ CachePut(r) \/ CachePeek(r) \/ CacheDelete(r) \/ CacheUnlink(r)
  <2>1. /\ req[r].todo # <<>>
        /\ Continue(r) \/ (\E k, v : Read(r, k, v)) \/ \E got : Goes(r, Tail(req[r].todo), got)
    BY <1>2, Zenon DEF CacheSet, CachePut, CachePeek, CacheDelete, CacheUnlink, At
  <2>2. QED
    BY <1>0, <2>1, GoesBring DEF Brings
<1>3. CASE CacheScan(r)
  <2>1. PICK found : /\ At(r, "scan")
                     /\ Do(r, IF found = {} THEN <<>> ELSE <<<<"unlink", found>>>>)
    BY <1>3 DEF CacheScan
  <2>2. PICK more : more = IF found = {} THEN <<>> ELSE <<<<"unlink", found>>>>
    OBVIOUS
  <2>3. Program(more) /\ Steps(more) \subseteq {<<"unlink", found>>}
    BY <2>2, NoProgram, ProgramOf1
  <2>4. RolePlain(<<"unlink", found>>) /\ CodePlain(<<"unlink", found>>)
    BY DEF RolePlain, CodePlain
  <2>5. Left(r)' \subseteq Steps(more) \cup Left(r)
    BY <1>0, <2>1, <2>2, <2>3, DoBrings DEF At
  <2>6. QED
    BY <2>1, <2>3, <2>4, <2>5 DEF Brings
<1>4. CASE SelectProfile(r) \/ SelectStatus(r) \/ SelectRoles(r)
  <2>1. req[r].todo # <<>> /\ (Throw(r) \/ \E k, v : Read(r, k, v))
    BY <1>4, Zenon DEF SelectProfile, SelectStatus, SelectRoles, At
  <2>2. QED
    BY <1>0, <2>1, GoesBring DEF Brings
<1>5. CASE Exists(r) \/ Unique(r) \/ NotBanned(r) \/ HasRoles(r)
  <2>1. req[r].todo # <<>> /\ \E condition : Require(r, condition)
    BY <1>5, Zenon DEF Exists, Unique, NotBanned, HasRoles, At
  <2>2. QED
    BY <1>0, <2>1, GoesBring DEF Brings, Require
<1>6. CASE SaveUser(r) \/ WriteColumns(r) \/ InsertRole(r) \/ Show(r)
  <2>1. req[r].todo # <<>> /\ (Continue(r) \/ Throw(r))
    BY <1>6, Zenon DEF SaveUser, WriteColumns, InsertRole, Show, At
  <2>2. QED
    BY <1>0, <2>1, GoesBring DEF Brings
<1>7. QED
  BY <1>1, <1>2, <1>3, <1>4, <1>5, <1>6 DEF UsersSteps, RedisSteps

LEMMA TwoFactorBring ==
  ASSUME AccountsTypes, NEW r \in Requests, TwoFactorSteps(r), NEW x \in Left(r)'
  PROVE  Brings(r, x)
<1>0. Proper
  BY DEF AccountsTypes, Shaped
<1>1. CASE TwoFaIs(r) \/ VerifyTemp(r)
  <2>1. req[r].todo # <<>> /\ \E condition : Require(r, condition)
    BY <1>1, Zenon DEF TwoFaIs, VerifyTemp, At
  <2>2. QED
    BY <1>0, <2>1, GoesBring DEF Brings, Require
<1>2. CASE MakeCodes(r)
  <2>1. req[r].todo # <<>> /\ Continue(r)
    BY <1>2 DEF MakeCodes, At
  <2>2. QED
    BY <1>0, <2>1, GoesBring DEF Brings
<1>3. CASE MatchCode(r)
  <2>1. PICK u, K : /\ u = Arg(r, 1) /\ At(r, "matchCode")
                    /\ Throw(r) \/ \E got : Goes(r, Update(u, [codes |-> K]) \o Tail(req[r].todo), got)
    BY <1>3 DEF MatchCode
  <2>2. req[r].todo # <<>>
    BY <2>1 DEF At
  <2>3. CASE Throw(r)
    BY <1>0, <2>2, <2>3, GoesBring DEF Brings
  <2>4. CASE \E got : Goes(r, Update(u, [codes |-> K]) \o Tail(req[r].todo), got)
    <3>1. PICK patch, more, h : patch = [codes |-> K] /\ more = Update(u, patch) /\ h = req[r].todo[1]
      OBVIOUS
    <3>2. u = h[2] /\ h[1] = "matchCode"
      BY <2>1, <3>1 DEF At, Arg
    <3>3. u \in Users
      BY <2>2, <3>1, <3>2, AtHand DEF AccountsTypes, StepOK, OfUser
    <3>4. Program(more) /\ \A y \in Steps(more) : Bland(y) \/ y = <<"save", u, patch>>
      BY <3>1, <3>3, UpdateSteps
    <3>5. DOMAIN patch \cap {"asLandlord", "asRenter"} = {}
      BY <3>1
    <3>6. RolePlain(<<"save", u, patch>>) /\ PagePlain(<<"save", u, patch>>)
      BY <3>5, SaveBland
    <3>7. Left(r)' \subseteq Steps(more) \cup Left(r)
      BY <1>0, <2>2, <2>4, <3>1, <3>4, DoBrings
    <3>8. QED
      BY <2>1, <3>4, <3>6, <3>7 DEF Brings
  <2>5. QED
    BY <2>1, <2>3, <2>4
<1>4. QED
  BY <1>1, <1>2, <1>3 DEF TwoFactorSteps

LEMMA SessionsBring ==
  ASSUME AccountsTypes, NEW r \in Requests, SessionsSteps(r), NEW x \in Left(r)'
  PROVE  Brings(r, x)
<1>0. Proper /\ Shaped /\ Tables
  BY DEF AccountsTypes, Shaped
<1>1. CASE MatchDigits(r)
  <2>1. req[r].todo # <<>> /\ \E condition : Require(r, condition)
    BY <1>1, Zenon DEF MatchDigits, At
  <2>2. QED
    BY <1>0, <2>1, GoesBring DEF Brings, Require
<1>2. CASE CreateUser(r) \/ Revoke(r) \/ SaveToken(r)
  <2>1. req[r].todo # <<>> /\ (Continue(r) \/ Throw(r))
    BY <1>2, Zenon DEF CreateUser, Revoke, SaveToken, At
  <2>2. QED
    BY <1>0, <2>1, GoesBring DEF Brings
<1>3. CASE FindByPhone(r)
  <2>1. /\ req[r].todo # <<>>
        /\ Continue(r) \/ Throw(r) \/ \E u \in Users : DoAbout(r, {u}, IssueTokens(u, 0))
    BY <1>3, Zenon DEF FindByPhone, At, Owner, Registered
  <2>2. CASE Continue(r) \/ Throw(r)
    BY <1>0, <2>1, <2>2, GoesBring DEF Brings
  <2>3. CASE \E u \in Users : DoAbout(r, {u}, IssueTokens(u, 0))
    <3>1. PICK u \in Users : DoAbout(r, {u}, IssueTokens(u, 0))
      BY <2>3
    <3>2. PICK more : more = IssueTokens(u, 0)
      OBVIOUS
    <3>3. Program(more) /\ \A y \in Steps(more) : Bland(y)
      BY <3>2, IssueSteps
    <3>4. Left(r)' \subseteq Steps(more) \cup Left(r)
      BY <1>0, <2>1, <3>1, <3>2, <3>3, DoBrings
    <3>5. QED
      BY <3>3, <3>4 DEF Brings
  <2>4. QED
    BY <2>1, <2>2, <2>3
<1>4. CASE FindRefresh(r)
  <2>1. PICK i, t : i = Arg(r, 1) /\ t = tokens[i]
    OBVIOUS
  <2>2. PICK a, b : /\ a = <<<<"revoke", i>>>>
                    /\ b = IF Arg(r, 2) = "refresh" THEN IssueTokens(t.user, t.login) ELSE <<>>
    OBVIOUS
  <2>3. At(r, "findRefresh") /\ (Throw(r) \/ Do(r, a \o b)) /\ req[r].todo # <<>>
    BY <1>4, <2>1, <2>2 DEF FindRefresh, At
  <2>4. t.user \in Users
    <3>1. PICK h : h = req[r].todo[1]
      OBVIOUS
    <3>2. h[1] = "findRefresh" /\ i = h[2]
      BY <2>1, <2>3, <3>1 DEF At, Arg
    <3>3. i \in DOMAIN tokens
      BY <1>0, <2>3, <3>1, <3>2, AtHand DEF StepOK
    <3>4. tokens[i] \in [user: Users, login: Nat \ {0}, revoked: BOOLEAN]
      <4>1. \A T : tokens \in Seq(T) => tokens[i] \in T
        BY <3>3
      <4>2. tokens \in Seq([user: Users, login: Nat \ {0}, revoked: BOOLEAN])
        BY <1>0 DEF Tables
      <4>3. QED
        BY <4>1, <4>2
    <3>5. QED
      BY <2>1, <3>4
  <2>5. Program(b) /\ \A y \in Steps(b) : Bland(y)
    BY <2>2, <2>4, IssueSteps, NoProgram
  <2>6. Program(a) /\ \A y \in Steps(a) : Bland(y)
    <3>1. Program(a) /\ Steps(a) = {<<"revoke", i>>}
      BY <2>2, ProgramOf1
    <3>2. QED
      BY <3>1 DEF Bland, RolePlain, CodePlain, PagePlain, Reads
  <2>7. PICK more : more = a \o b
    OBVIOUS
  <2>8. Program(more) /\ \A y \in Steps(more) : Bland(y)
    BY <2>5, <2>6, <2>7, ProgramJoin
  <2>9. Left(r)' \subseteq Steps(more) \cup Left(r)
    <3>1. CASE Throw(r)
      BY <1>0, <2>3, <3>1, GoesBring
    <3>2. CASE Do(r, more)
      BY <1>0, <2>3, <2>8, <3>2, DoBrings
    <3>3. QED
      BY <2>3, <2>7, <3>1, <3>2
  <2>10. QED
    BY <2>8, <2>9 DEF Brings
<1>5. QED
  BY <1>1, <1>2, <1>3, <1>4 DEF SessionsSteps

LEMMA TelegramBring ==
  ASSUME AccountsTypes, NEW r \in Requests, TelegramSteps(r), NEW x \in Left(r)'
  PROVE  Brings(r, x)
<1>0. Proper /\ Shaped /\ Tables
  BY DEF AccountsTypes, Shaped
<1>1. CASE InsertToken(r)
  <2>1. req[r].todo # <<>> /\ Continue(r)
    BY <1>1 DEF InsertToken, At
  <2>2. QED
    BY <1>0, <2>1, GoesBring DEF Brings
<1>2. ASSUME NEW more, Program(more), \A y \in Steps(more) : Bland(y), req[r].todo # <<>>,
             Do(r, more) \/ \E subjects : DoAbout(r, subjects, more)
      PROVE  Brings(r, x)
  <2>1. Left(r)' \subseteq Steps(more) \cup Left(r)
    BY <1>0, <1>2, DoBrings
  <2>2. QED
    BY <1>2, <2>1 DEF Brings
<1>3. ASSUME NEW a, NEW more, more = <<a>>, a[1] \in {"findToken", "useToken"}
      PROVE  Program(more) /\ \A y \in Steps(more) : Bland(y)
  <2>1. Program(more) /\ Steps(more) = {a}
    BY <1>3, ProgramOf1
  <2>2. QED
    BY <1>3, <2>1 DEF Bland, RolePlain, CodePlain, PagePlain, Reads
<1>4. CASE FindByTelegramId(r)
  <2>1. /\ req[r].todo # <<>>
        /\ Continue(r) \/ \E subjects, t, k, old : DoAbout(r, subjects, <<<<"findToken", t, k, old>>>>)
    BY <1>4, Zenon DEF FindByTelegramId, At
  <2>2. CASE Continue(r)
    BY <1>0, <2>1, <2>2, GoesBring DEF Brings
  <2>3. CASE \E subjects, t, k, old : DoAbout(r, subjects, <<<<"findToken", t, k, old>>>>)
    <3>1. PICK subjects, t, k, old : DoAbout(r, subjects, <<<<"findToken", t, k, old>>>>)
      BY <2>3
    <3>2. PICK a, more : a = <<"findToken", t, k, old>> /\ more = <<a>>
      OBVIOUS
    <3>3. Program(more) /\ \A y \in Steps(more) : Bland(y)
      BY <1>3, <3>2
    <3>4. QED
      BY <1>2, <2>1, <3>1, <3>2, <3>3
  <2>4. QED
    BY <2>1, <2>2, <2>3
<1>5. CASE FindToken(r)
  <2>1. /\ req[r].todo # <<>>
        /\ Throw(r) \/ \E subjects, t, k, old : DoAbout(r, subjects, <<<<"useToken", t, k, old>>>>)
    BY <1>5, Zenon DEF FindToken, At
  <2>2. CASE Throw(r)
    BY <1>0, <2>1, <2>2, GoesBring DEF Brings
  <2>3. CASE \E subjects, t, k, old : DoAbout(r, subjects, <<<<"useToken", t, k, old>>>>)
    <3>1. PICK subjects, t, k, old : DoAbout(r, subjects, <<<<"useToken", t, k, old>>>>)
      BY <2>3
    <3>2. PICK a, more : a = <<"useToken", t, k, old>> /\ more = <<a>>
      OBVIOUS
    <3>3. Program(more) /\ \A y \in Steps(more) : Bland(y)
      BY <1>3, <3>2
    <3>4. QED
      BY <1>2, <2>1, <3>1, <3>2, <3>3
  <2>4. QED
    BY <2>1, <2>2, <2>3
<1>6. CASE UseToken(r)
  <2>1. PICK h, u, t, old : /\ h = req[r].todo[1] /\ t = h[2] /\ u = linkTokens[h[3]].user /\ old = h[4]
    OBVIOUS
  <2>2. h[1] = "useToken" /\ req[r].todo # <<>> /\ Do(r, Relink(u, t, old))
    BY <1>6, <2>1 DEF UseToken, At, Arg
  <2>3. h[3] \in DOMAIN linkTokens /\ old \in Users \cup {NoRow}
    BY <1>0, <2>1, <2>2, AtHand DEF StepOK
  <2>4. u \in Users
    <3>1. linkTokens[h[3]] \in [user: Users, used: BOOLEAN]
      <4>1. \A T : linkTokens \in Seq(T) => linkTokens[h[3]] \in T
        BY <2>3
      <4>2. linkTokens \in Seq([user: Users, used: BOOLEAN])
        BY <1>0 DEF Tables
      <4>3. QED
        BY <4>1, <4>2
    <3>2. QED
      BY <2>1, <3>1
  <2>5. Program(Relink(u, t, old)) /\ \A y \in Steps(Relink(u, t, old)) : Bland(y)
    BY <2>3, <2>4, RelinkSteps
  <2>6. QED
    BY <1>2, <2>2, <2>5
<1>7. QED
  BY <1>1, <1>4, <1>5, <1>6 DEF TelegramSteps

LEMMA ReviewsBring ==
  ASSUME AccountsTypes, NEW r \in Requests, ReviewsSteps(r), NEW x \in Left(r)'
  PROVE  Brings(r, x)
<1>0. Proper /\ Shaped /\ Tables
  BY DEF AccountsTypes, Shaped
<1>1. CASE SelectPage(r) \/ MayReview(r)
  <2>1. req[r].todo # <<>> /\ ((\E k, v : Read(r, k, v)) \/ \E condition : Require(r, condition))
    BY <1>1, Zenon DEF SelectPage, MayReview, At
  <2>2. QED
    BY <1>0, <2>1, GoesBring DEF Brings, Require
<1>2. CASE InsertReview(r)
  <2>1. PICK b, by, a, c : /\ b = Arg(r, 1) /\ by = Arg(r, 2)
                           /\ a = <<"rate", Target(b, by), Role(b, by)>> /\ c = Publish(b, by)
    OBVIOUS
  <2>2. At(r, "insertReview") /\ req[r].todo # <<>> /\ Do(r, <<a>> \o c)
    BY <1>2, <2>1 DEF InsertReview, At
  <2>3. Program(c) /\ \A y \in Steps(c) : RolePlain(y) /\ CodePlain(y)
    BY <2>1, PublishSteps
  <2>4. RolePlain(a) /\ CodePlain(a)
    BY <2>1 DEF RolePlain, CodePlain
  <2>5. PICK more : more = <<a>> \o c
    OBVIOUS
  <2>6. Program(more) /\ \A y \in Steps(more) : RolePlain(y) /\ CodePlain(y)
    BY <2>3, <2>4, <2>5, ProgramJoin, ProgramOf1
  <2>7. Left(r)' \subseteq Steps(more) \cup Left(r)
    BY <1>0, <2>2, <2>5, <2>6, DoBrings
  <2>8. QED
    BY <2>2, <2>6, <2>7 DEF Brings
<1>3. CASE Rate(r)
  <2>1. PICK h, u, rating, patch :
          /\ h = req[r].todo[1] /\ u = h[2] /\ rating = RatingOf(u, h[3])
          /\ patch = IF h[3] = "LANDLORD" THEN [asLandlord |-> rating] ELSE [asRenter |-> rating]
    OBVIOUS
  <2>2. /\ At(r, "rate") /\ req[r].todo # <<>> /\ h[1] = "rate"
        /\ Do(r, IF rating[2] = 0 THEN <<>> ELSE Update(u, patch))
    BY <1>3, <2>1 DEF Rate, At, Arg
  <2>3. u \in Users
    BY <1>0, <2>1, <2>2, AtHand DEF StepOK, OfUser
  <2>4. DOMAIN patch \cap {"twoFa", "codes"} = {}
    BY <2>1
  <2>5. RolePlain(<<"save", u, patch>>) /\ CodePlain(<<"save", u, patch>>)
    BY <2>4, SaveBland
  <2>6. PICK more : more = IF rating[2] = 0 THEN <<>> ELSE Update(u, patch)
    OBVIOUS
  <2>7. Program(more) /\ \A y \in Steps(more) : RolePlain(y) /\ CodePlain(y)
    <3>1. \A y \in Steps(Update(u, patch)) : RolePlain(y) /\ CodePlain(y)
      BY <2>3, <2>5, UpdateSteps DEF Bland
    <3>2. QED
      BY <2>3, <2>6, <3>1, UpdateSteps, NoProgram
  <2>8. Left(r)' \subseteq Steps(more) \cup Left(r)
    BY <1>0, <2>2, <2>6, <2>7, DoBrings
  <2>9. QED
    BY <2>2, <2>7, <2>8 DEF Brings
<1>4. QED
  BY <1>1, <1>2, <1>3 DEF ReviewsSteps

LEMMA ProgressBrings ==
  ASSUME AccountsTypes, NEW r \in Requests, Progress(r), NEW x \in Left(r)'
  PROVE  Brings(r, x)
BY UsersBring, TwoFactorBring, SessionsBring, TelegramBring, ReviewsBring DEF Progress

-----------------------------------------------------------------------------
(* The requests that arrive, by what they touch *)

Pages(u) == UserPages(u) \cup {ListingPage(u)}

\* A program of which each step is so.
AllOf(q, P, Q) == Program(q) /\ \A x \in Steps(q) : (P => PagePlain(x)) /\ (Q => CodePlain(x)) /\ RolePlain(x)

LEMMA AllJoin ==
  ASSUME NEW P, NEW Q, NEW p, NEW q, AllOf(p, P, Q), AllOf(q, P, Q)
  PROVE  AllOf(p \o q, P, Q)
<1>1. Program(p \o q) /\ Steps(p \o q) = Steps(p) \cup Steps(q)
  BY ProgramJoin DEF AllOf
<1>2. QED
  BY <1>1 DEF AllOf

LEMMA AllBland ==
  ASSUME NEW P, NEW Q, NEW q, Program(q), \A x \in Steps(q) : Bland(x)
  PROVE  AllOf(q, P, Q)
BY DEF AllOf, Bland

LEMMA AllIsBland ==
  ASSUME NEW q, AllOf(q, TRUE, TRUE)
  PROVE  Program(q) /\ \A x \in Steps(q) : Bland(x)
BY DEF AllOf, Bland

\* Steps that read or write nothing but their arguments.
Checks == {"exists", "write", "notBanned", "show", "hasRoles", "twoFaIs", "peek", "verifyTemp", "matchDigits",
           "findByPhone", "findRefresh", "insertToken", "findByTelegramId", "saveToken", "revoke"}
LEMMA ChecksBland ==
  ASSUME NEW x, x[1] \in Checks \/ (x[1] = "delete" /\ x[2][1] # "2fa:temp") \/ (x[1] = "put" /\ x[2][1] = "flash-call")
  PROVE  Bland(x)
BY DEF Checks, Bland, RolePlain, CodePlain, PagePlain, Reads

LEMMA OneIs ==
  ASSUME NEW P, NEW Q, NEW x, Bland(x)
  PROVE  AllOf(<<x>>, P, Q)
<1>1. Program(<<x>>) /\ Steps(<<x>>) = {x}
  BY ProgramOf1
<1>2. QED
  BY <1>1, AllBland

LEMMA TwoAre ==
  ASSUME NEW P, NEW Q, NEW x, NEW y, Bland(x), Bland(y)
  PROVE  AllOf(<<x, y>>, P, Q)
<1>1. Program(<<x, y>>) /\ Steps(<<x, y>>) = {x, y}
  BY ProgramOf2
<1>2. QED
  BY <1>1, AllBland

\* update of columns that are neither codes nor ratings, or cleared.
LEMMA UpdateAll ==
  ASSUME NEW u \in Users, NEW patch, NEW P \in BOOLEAN, NEW Q \in BOOLEAN,
         P => DOMAIN patch \cap {"asLandlord", "asRenter"} = {},
         Q => DOMAIN patch \cap {"twoFa", "codes"} = {} \/ patch = Cleared
  PROVE  AllOf(Update(u, patch), P, Q)
<1>1. RolePlain(<<"save", u, patch>>) /\ (P => PagePlain(<<"save", u, patch>>)) /\ (Q => CodePlain(<<"save", u, patch>>))
  BY SaveBland DEF Bland
<1>2. QED
  BY <1>1, UpdateSteps DEF AllOf, Bland

LEMMA ReadsAll ==
  ASSUME NEW u \in Users, NEW P, NEW Q
  PROVE  AllOf(FindById(u), P, Q) /\ AllOf(GetUserRoles(u), P, Q) /\ \A c : AllOf(IssueTokens(u, c), P, Q)
<1>1. AllOf(FindById(u), P, Q)
  BY FindByIdSteps, AllBland
<1>2. AllOf(GetUserRoles(u), P, Q)
  <2>1. PICK k : k = RolesKey(u)
    OBVIOUS
  <2>2. Program(GetOrSet(k)) /\ \A x \in Steps(GetOrSet(k)) : Bland(x)
    BY <2>1, GetOrSetSteps, KeyOfUser
  <2>3. QED
    BY <2>1, <2>2, AllBland DEF GetUserRoles
<1>3. ASSUME NEW c PROVE AllOf(IssueTokens(u, c), P, Q)
  BY IssueSteps, AllBland
<1>4. QED
  BY <1>1, <1>2, <1>3

LEMMA UsersAll ==
  ASSUME NEW u \in Users
  PROVE  /\ AllOf(Validate(u) \o FindById(u), TRUE, TRUE)
         /\ AllOf(FindOne(u), TRUE, TRUE)
         /\ \A p : AllOf(Update(u, [phone |-> p]), TRUE, TRUE)
         /\ \A b : AllOf(UpdateBanStatus(u, b), TRUE, TRUE)
         /\ \A b : AllOf(UpdateVerifiedStatus(u, b), TRUE, TRUE)
         /\ \A b : AllOf(UpdateOnlineStatus(u, b), TRUE, TRUE)
<1>1. PICK a, b, c, d : a = FindById(u) /\ b = GetUserRoles(u) /\ c = <<"notBanned", u>> /\ d = <<"hasRoles", u>>
  OBVIOUS
<1>2. /\ AllOf(a, TRUE, TRUE) /\ AllOf(b, TRUE, TRUE) /\ AllOf(<<c>>, TRUE, TRUE) /\ AllOf(<<d>>, TRUE, TRUE)
  BY <1>1, ReadsAll, OneIs, ChecksBland DEF Checks
<1>3. AllOf(a \o <<c>>, TRUE, TRUE)
  BY <1>2, AllJoin
<1>4. AllOf(a \o <<c>> \o b, TRUE, TRUE)
  BY <1>2, <1>3, AllJoin
<1>5. AllOf(a \o <<c>> \o b \o <<d>>, TRUE, TRUE)
  BY <1>2, <1>4, AllJoin
<1>6. AllOf(a \o <<c>> \o b \o <<d>> \o a, TRUE, TRUE)
  BY <1>2, <1>5, AllJoin
<1>7. ASSUME NEW p PROVE AllOf(Update(u, [phone |-> p]), TRUE, TRUE)
  <2>1. PICK patch : patch = [phone |-> p]
    OBVIOUS
  <2>2. DOMAIN patch \cap {"asLandlord", "asRenter", "twoFa", "codes"} = {}
    BY <2>1
  <2>3. AllOf(Update(u, patch), TRUE, TRUE)
    BY <2>2, UpdateAll
  <2>4. QED
    BY <2>1, <2>3
<1>8. ASSUME NEW x, NEW y, NEW z, x[1] \in Checks, y[1] \in Checks, z[1] = "delete", z[2][1] # "2fa:temp"
      PROVE  AllOf(<<x, y, z>>, TRUE, TRUE) /\ AllOf(<<y, z>>, TRUE, TRUE)
  <2>1. Bland(x) /\ Bland(y) /\ Bland(z)
    BY <1>8, ChecksBland
  <2>2. Program(<<x, y, z>>) /\ Steps(<<x, y, z>>) = {x, y, z}
    BY ProgramOf3
  <2>3. QED
    BY <2>1, <2>2, TwoAre, AllBland
<1>9. ASSUME NEW v
      PROVE  /\ AllOf(UpdateBanStatus(u, v), TRUE, TRUE) /\ AllOf(UpdateVerifiedStatus(u, v), TRUE, TRUE)
             /\ AllOf(UpdateOnlineStatus(u, v), TRUE, TRUE)
  <2>1. PICK x, y1, y2, y3, z1, z2 :
          /\ x = <<"exists", u>> /\ y1 = <<"write", u, [banned |-> v]>> /\ y2 = <<"write", u, [verified |-> v]>>
          /\ y3 = <<"write", u, [online |-> v]>> /\ z1 = <<"delete", ProfileKey(u)>> /\ z2 = <<"delete", StatusKey(u)>>
    OBVIOUS
  <2>2. /\ x[1] \in Checks /\ y1[1] \in Checks /\ y2[1] \in Checks /\ y3[1] \in Checks
        /\ z1[1] = "delete" /\ z1[2][1] # "2fa:temp" /\ z2[1] = "delete" /\ z2[2][1] # "2fa:temp"
    BY <2>1 DEF Checks, ProfileKey, StatusKey
  <2>3. AllOf(<<x, y1, z1>>, TRUE, TRUE) /\ AllOf(<<x, y2, z1>>, TRUE, TRUE) /\ AllOf(<<y3, z2>>, TRUE, TRUE)
    BY <1>8, <2>2
  <2>4. QED
    BY <2>1, <2>3 DEF UpdateBanStatus, UpdateVerifiedStatus, UpdateOnlineStatus
<1>10. AllOf(FindOne(u), TRUE, TRUE)
  <2>1. PICK s : s = <<"show", u>>
    OBVIOUS
  <2>2. AllOf(<<s>>, TRUE, TRUE)
    BY <2>1, OneIs, ChecksBland DEF Checks
  <2>3. AllOf((a \o <<c>>) \o <<s>>, TRUE, TRUE)
    BY <1>3, <2>2, AllJoin
  <2>4. QED
    BY <1>1, <2>1, <2>3 DEF FindOne
<1>11. QED
  BY <1>1, <1>6, <1>7, <1>9, <1>10 DEF Validate

LEMMA TwoFactorAll ==
  ASSUME NEW u \in Users
  PROVE  /\ AllOf(DisableTwoFactor(u), TRUE, TRUE) /\ AllOf(DisableWithTotp(u), TRUE, TRUE)
         /\ AllOf(VerifyTotp(u), TRUE, TRUE)
         /\ AllOf(GenerateSecret(u), TRUE, FALSE) /\ AllOf(EnableTwoFactor(u), TRUE, FALSE)
         /\ \A c : AllOf(DisableWithRecovery(u, c), TRUE, FALSE) /\ AllOf(VerifyRecovery(u, c), TRUE, FALSE)
<1>1. PICK a, yes, no, clear, patch :
        /\ a = FindById(u) /\ yes = <<"twoFaIs", u, TRUE>> /\ no = <<"twoFaIs", u, FALSE>>
        /\ patch = [twoFa |-> FALSE, codes |-> {}] /\ clear = Update(u, patch)
  OBVIOUS
<1>2. ASSUME NEW Q \in BOOLEAN
      PROVE  AllOf(a, TRUE, Q) /\ AllOf(<<yes>>, TRUE, Q) /\ AllOf(<<no>>, TRUE, Q) /\ AllOf(clear, TRUE, Q)
  <2>1. AllOf(a, TRUE, Q) /\ AllOf(<<yes>>, TRUE, Q) /\ AllOf(<<no>>, TRUE, Q)
    BY <1>1, ReadsAll, OneIs, ChecksBland DEF Checks
  <2>2. patch = Cleared /\ DOMAIN patch \cap {"asLandlord", "asRenter"} = {}
    BY <1>1 DEF Cleared
  <2>3. AllOf(clear, TRUE, Q)
    BY <1>1, <2>2, UpdateAll
  <2>4. QED
    BY <2>1, <2>3
<1>3. ASSUME NEW Q \in BOOLEAN PROVE AllOf(a \o <<yes>>, TRUE, Q) /\ AllOf(a \o <<no>>, TRUE, Q)
  BY <1>2, AllJoin
<1>4. AllOf(DisableTwoFactor(u), TRUE, TRUE)
  BY <1>1, <1>2, <1>3, AllJoin DEF DisableTwoFactor, ClearTwoFactor
<1>5. AllOf(DisableWithTotp(u), TRUE, TRUE)
  <2>1. AllOf((a \o <<yes>>) \o (a \o <<yes>>), TRUE, TRUE)
    BY <1>3, AllJoin
  <2>2. AllOf(((a \o <<yes>>) \o (a \o <<yes>>)) \o clear, TRUE, TRUE)
    BY <1>2, <2>1, AllJoin
  <2>3. QED
    BY <1>1, <2>2 DEF DisableWithTotp, ValidateTwoFactorCode, ClearTwoFactor
<1>6. AllOf(VerifyTotp(u), TRUE, TRUE)
  <2>1. AllOf(IssueTokens(u, 0), TRUE, TRUE)
    BY ReadsAll
  <2>2. QED
    BY <1>1, <1>3, <2>1, AllJoin DEF VerifyTotp, ValidateTwoFactorCode
<1>7. ASSUME NEW x, RolePlain(x), PagePlain(x) PROVE AllOf(<<x>>, TRUE, FALSE)
  <2>1. Program(<<x>>) /\ Steps(<<x>>) = {x}
    BY ProgramOf1
  <2>2. QED
    BY <1>7, <2>1 DEF AllOf
<1>8. AllOf(GenerateSecret(u), TRUE, FALSE)
  <2>1. PICK x : x = <<"put", TempKey(u), TRUE>>
    OBVIOUS
  <2>2. RolePlain(x) /\ PagePlain(x)
    BY <2>1 DEF RolePlain, PagePlain, Reads
  <2>3. AllOf(<<no>> \o <<x>>, TRUE, FALSE)
    BY <1>2, <1>7, <2>2, AllJoin
  <2>4. AllOf(a \o (<<no>> \o <<x>>), TRUE, FALSE)
    BY <1>2, <2>3, AllJoin
  <2>5. <<no>> \o <<x>> = <<no, x>>
    BY JoinOf1
  <2>6. QED
    BY <1>1, <2>1, <2>4, <2>5 DEF GenerateSecret
<1>9. AllOf(EnableTwoFactor(u), TRUE, FALSE)
  <2>1. PICK b, c, d, e, p1, p2 :
          /\ b = <<no, <<"peek", TempKey(u)>>, <<"verifyTemp">>>> /\ p1 = [twoFa |-> TRUE] /\ p2 = [codes |-> Codes]
          /\ c = <<<<"makeCodes", u>>>> /\ d = <<<<"delete", TempKey(u)>>>> /\ e = TRUE
    OBVIOUS
  <2>2. AllOf(b, TRUE, FALSE)
    <3>1. PICK x, y : x = <<"peek", TempKey(u)>> /\ y = <<"verifyTemp">>
      OBVIOUS
    <3>2. Bland(x) /\ Bland(y) /\ Bland(no)
      BY <1>1, <3>1, ChecksBland DEF Checks
    <3>3. Program(<<no, x, y>>) /\ Steps(<<no, x, y>>) = {no, x, y}
      BY ProgramOf3
    <3>4. QED
      BY <2>1, <3>1, <3>2, <3>3, AllBland
  <2>3. AllOf(c, TRUE, FALSE) /\ AllOf(d, TRUE, FALSE)
    <3>1. PICK x, y : x = <<"makeCodes", u>> /\ y = <<"delete", TempKey(u)>>
      OBVIOUS
    <3>2. RolePlain(x) /\ PagePlain(x) /\ RolePlain(y) /\ PagePlain(y)
      BY <3>1 DEF RolePlain, PagePlain, Reads
    <3>3. QED
      BY <1>7, <2>1, <3>1, <3>2
  <2>4. AllOf(Update(u, p1), TRUE, FALSE) /\ AllOf(Update(u, p2), TRUE, FALSE)
    <3>1. DOMAIN p1 \cap {"asLandlord", "asRenter"} = {} /\ DOMAIN p2 \cap {"asLandlord", "asRenter"} = {}
      BY <2>1
    <3>2. QED
      BY <3>1, UpdateAll
  <2>5. AllOf(a \o b, TRUE, FALSE)
    BY <1>2, <2>2, AllJoin
  <2>6. AllOf(a \o b \o Update(u, p1), TRUE, FALSE)
    BY <2>4, <2>5, AllJoin
  <2>7. AllOf(a \o b \o Update(u, p1) \o c, TRUE, FALSE)
    BY <2>3, <2>6, AllJoin
  <2>8. AllOf(a \o b \o Update(u, p1) \o c \o Update(u, p2), TRUE, FALSE)
    BY <2>4, <2>7, AllJoin
  <2>9. AllOf(a \o b \o Update(u, p1) \o c \o Update(u, p2) \o d, TRUE, FALSE)
    BY <2>3, <2>8, AllJoin
  <2>10. QED
    BY <1>1, <2>1, <2>9 DEF EnableTwoFactor
<1>10. ASSUME NEW c PROVE AllOf(DisableWithRecovery(u, c), TRUE, FALSE) /\ AllOf(VerifyRecovery(u, c), TRUE, FALSE)
  <2>1. PICK x : x = <<"matchCode", u, c>>
    OBVIOUS
  <2>2. RolePlain(x) /\ PagePlain(x)
    BY <2>1 DEF RolePlain, PagePlain, Reads
  <2>3. AllOf(a \o <<x>>, TRUE, FALSE)
    BY <1>2, <1>7, <2>2, AllJoin
  <2>4. AllOf(a \o <<yes>> \o a, TRUE, FALSE)
    BY <1>2, <1>3, AllJoin
  <2>5. AllOf((a \o <<yes>> \o a) \o (a \o <<x>>), TRUE, FALSE)
    BY <2>3, <2>4, AllJoin
  <2>6. AllOf(((a \o <<yes>> \o a) \o (a \o <<x>>)) \o clear, TRUE, FALSE)
    BY <1>2, <2>5, AllJoin
  <2>7. AllOf((a \o <<x>>) \o IssueTokens(u, 0), TRUE, FALSE)
    BY <2>3, ReadsAll, AllJoin
  <2>8. QED
    BY <1>1, <2>1, <2>6, <2>7 DEF DisableWithRecovery, VerifyRecovery, ValidateRecoveryCode, ClearTwoFactor
<1>11. QED
  BY <1>4, <1>5, <1>6, <1>8, <1>9, <1>10

\* What a request arrives with.
Comes(r) ==
  \E op, about, program :
    /\ Begin(r, op, about, program) /\ Program(program)
    /\ \/ AllOf(program, TRUE, TRUE)
       \/ \E u \in Users \ Registered, p \in Phones :
            Quiet(u) /\ about = {p, u} /\ program = CompleteRegistration(u, p)
       \/ \E u \in Registered : about = {u} /\ program \in {GenerateSecret(u), EnableTwoFactor(u)}
       \/ \E u \in Registered, c \in Codes : about = {u} /\ program \in {DisableWithRecovery(u, c), VerifyRecovery(u, c)}
       \/ \E b \in Bookings, by \in Users, rating \in Ratings :
            about = {b.renter, b.landlord} /\ program = CreateReview(b, by, rating)
       \/ \E u \in Registered : \E k \in Pages(u) : about = {u} /\ program = GetOrSet(k)

LEMMA BlandComes ==
  ASSUME NEW r, NEW op, NEW about, NEW program, Begin(r, op, about, program), AllOf(program, TRUE, TRUE)
  PROVE  Comes(r)
BY DEF Comes, AllOf

LEMMA UsersComes == ASSUME NEW r, BeginUsers(r) PROVE Comes(r)
<1>1. PICK u \in Users :
        \/ Begin(r, "getMyProfile", {u}, Validate(u) \o FindById(u))
        \/ Begin(r, "findOne", {u}, FindOne(u))
        \/ \E p \in Phones : Begin(r, "update", {u, p}, Update(u, [phone |-> p]))
        \/ \E b \in BOOLEAN : Begin(r, "ban", {u}, UpdateBanStatus(u, b))
        \/ Begin(r, "verify", {u}, UpdateVerifiedStatus(u, TRUE))
        \/ \E b \in BOOLEAN : Begin(r, "online", {u}, UpdateOnlineStatus(u, b))
  BY Zenon DEF BeginUsers
<1>2. CASE Begin(r, "getMyProfile", {u}, Validate(u) \o FindById(u))
  BY <1>2, UsersAll, BlandComes
<1>3. CASE Begin(r, "findOne", {u}, FindOne(u))
  BY <1>3, UsersAll, BlandComes
<1>4. CASE \E p \in Phones : Begin(r, "update", {u, p}, Update(u, [phone |-> p]))
  BY <1>4, UsersAll, BlandComes
<1>5. CASE \E b \in BOOLEAN : Begin(r, "ban", {u}, UpdateBanStatus(u, b))
  BY <1>5, UsersAll, BlandComes
<1>6. CASE Begin(r, "verify", {u}, UpdateVerifiedStatus(u, TRUE))
  BY <1>6, UsersAll, BlandComes
<1>7. CASE \E b \in BOOLEAN : Begin(r, "online", {u}, UpdateOnlineStatus(u, b))
  BY <1>7, UsersAll, BlandComes
<1>8. QED
  BY <1>1, <1>2, <1>3, <1>4, <1>5, <1>6, <1>7

LEMMA TwoFactorComes == ASSUME NEW r, BeginTwoFactor(r) PROVE Comes(r)
<1>1. PICK u \in Registered :
        \/ Begin(r, "generate", {u}, GenerateSecret(u))
        \/ Begin(r, "enable", {u}, EnableTwoFactor(u))
        \/ Begin(r, "disable", {u}, DisableTwoFactor(u))
        \/ Begin(r, "disable", {u}, DisableWithTotp(u))
        \/ \E c \in Codes : Begin(r, "disable", {u}, DisableWithRecovery(u, c))
  BY Zenon DEF BeginTwoFactor
<1>2. u \in Users
  BY DEF Registered
<1>3. CASE Begin(r, "disable", {u}, DisableTwoFactor(u)) \/ Begin(r, "disable", {u}, DisableWithTotp(u))
  BY <1>2, <1>3, TwoFactorAll, BlandComes
<1>4. CASE \/ Begin(r, "generate", {u}, GenerateSecret(u)) \/ Begin(r, "enable", {u}, EnableTwoFactor(u))
  <2>1. PICK op, program : Begin(r, op, {u}, program) /\ program \in {GenerateSecret(u), EnableTwoFactor(u)}
    BY <1>4
  <2>2. Program(program)
    BY <1>2, <2>1, TwoFactorAll DEF AllOf
  <2>3. QED
    BY <2>1, <2>2, Zenon DEF Comes
<1>5. CASE \E c \in Codes : Begin(r, "disable", {u}, DisableWithRecovery(u, c))
  <2>1. PICK c \in Codes : Begin(r, "disable", {u}, DisableWithRecovery(u, c))
    BY <1>5
  <2>2. PICK program : program = DisableWithRecovery(u, c)
    OBVIOUS
  <2>3. Program(program) /\ Begin(r, "disable", {u}, program)
    BY <1>2, <2>1, <2>2, TwoFactorAll DEF AllOf
  <2>4. program \in {DisableWithRecovery(u, c), VerifyRecovery(u, c)}
    BY <2>2
  <2>5. QED
    BY <2>3, <2>4, Zenon DEF Comes
<1>6. QED
  BY <1>1, <1>3, <1>4, <1>5

LEMMA SessionsComes == ASSUME Tables, NEW r, BeginSessions(r) PROVE Comes(r)
<1>1. \/ \E p \in Phones :
           \/ Begin(r, "requestFlashCall", {p}, RequestFlashCall(p))
           \/ \E digits \in {"digits", "0000", "other"} :
                Begin(r, "verifyFlashCall", {p}, VerifyFlashCall(p, digits))
           \/ Begin(r, "login", {p}, LoginByPassword(p))
           \/ \E u \in Users \ Registered : Quiet(u) /\ Begin(r, "register", {p, u}, CompleteRegistration(u, p))
      \/ \E i \in DOMAIN tokens : \E op \in {"refresh", "logout"} :
           Begin(r, op, {tokens[i].user, Login(tokens[i].login)},
                 IF op = "refresh" THEN Refresh(i) ELSE Logout(i))
      \/ \E u \in Registered :
           \/ Begin(r, "verify2fa", {u}, VerifyTotp(u))
           \/ \E c \in Codes : Begin(r, "verify2fa", {u}, VerifyRecovery(u, c))
  BY Zenon DEF BeginSessions
<1>2. ASSUME NEW p \in Phones, NEW digits
      PROVE  /\ AllOf(RequestFlashCall(p), TRUE, TRUE) /\ AllOf(VerifyFlashCall(p, digits), TRUE, TRUE)
             /\ AllOf(LoginByPassword(p), TRUE, TRUE)
  <2>1. PICK x, a, b, c, d : /\ x = <<"put", FlashKey(p), "digits">> /\ a = <<"peek", FlashKey(p)>>
                             /\ b = <<"matchDigits", digits>> /\ c = <<"delete", FlashKey(p)>>
                             /\ d = <<"findByPhone", p>>
    OBVIOUS
  <2>2. Bland(x) /\ Bland(a) /\ Bland(b) /\ Bland(c) /\ Bland(d)
    <3>1. /\ x[1] = "put" /\ x[2][1] = "flash-call" /\ c[1] = "delete" /\ c[2][1] # "2fa:temp"
          /\ a[1] \in Checks /\ b[1] \in Checks /\ d[1] \in Checks
      BY <2>1 DEF FlashKey, Checks
    <3>2. QED
      BY <3>1, ChecksBland
  <2>3. AllOf(<<x>>, TRUE, TRUE) /\ AllOf(<<d>>, TRUE, TRUE) /\ AllOf(<<a, b, c, d>>, TRUE, TRUE)
    <3>1. Program(<<a, b, c, d>>) /\ Steps(<<a, b, c, d>>) = {a, b, c, d}
      BY ProgramOf4
    <3>2. QED
      BY <2>2, <3>1, OneIs, AllBland
  <2>4. QED
    BY <2>1, <2>3 DEF RequestFlashCall, VerifyFlashCall, LoginByPassword
<1>3. ASSUME NEW i PROVE AllOf(Refresh(i), TRUE, TRUE) /\ AllOf(Logout(i), TRUE, TRUE)
  <2>1. PICK a, b : a = <<"findRefresh", i, "refresh">> /\ b = <<"findRefresh", i, "logout">>
    OBVIOUS
  <2>2. Bland(a) /\ Bland(b)
    BY <2>1, ChecksBland DEF Checks
  <2>3. QED
    BY <2>1, <2>2, OneIs DEF Refresh, Logout
<1>4. CASE \E p \in Phones :
             \/ Begin(r, "requestFlashCall", {p}, RequestFlashCall(p))
             \/ \E digits \in {"digits", "0000", "other"} :
                  Begin(r, "verifyFlashCall", {p}, VerifyFlashCall(p, digits))
             \/ Begin(r, "login", {p}, LoginByPassword(p))
  <2>1. PICK p \in Phones :
             \/ Begin(r, "requestFlashCall", {p}, RequestFlashCall(p))
             \/ \E digits \in {"digits", "0000", "other"} :
                  Begin(r, "verifyFlashCall", {p}, VerifyFlashCall(p, digits))
             \/ Begin(r, "login", {p}, LoginByPassword(p))
    BY <1>4
  <2>2. QED
    BY <1>2, <2>1, BlandComes
<1>5. CASE \E p \in Phones, u \in Users \ Registered :
             Quiet(u) /\ Begin(r, "register", {p, u}, CompleteRegistration(u, p))
  <2>1. PICK p \in Phones, u \in Users \ Registered :
             Quiet(u) /\ Begin(r, "register", {p, u}, CompleteRegistration(u, p))
    BY <1>5
  <2>2. PICK op, about, program :
          op = "register" /\ about = {p, u} /\ program = CompleteRegistration(u, p)
    OBVIOUS
  <2>3. Program(program) /\ Begin(r, op, about, program)
    BY <2>1, <2>2, RegistrationIs
  <2>4. /\ Begin(r, op, about, program) /\ Program(program)
        /\ \E v \in Users \ Registered, q \in Phones :
             Quiet(v) /\ about = {q, v} /\ program = CompleteRegistration(v, q)
    BY <2>1, <2>2, <2>3
  <2>5. QED
    BY <2>4, Zenon DEF Comes
<1>6. CASE \E i \in DOMAIN tokens : \E op \in {"refresh", "logout"} :
             Begin(r, op, {tokens[i].user, Login(tokens[i].login)},
                   IF op = "refresh" THEN Refresh(i) ELSE Logout(i))
  <2>1. PICK i, op, about : Begin(r, op, about, IF op = "refresh" THEN Refresh(i) ELSE Logout(i))
    BY <1>6
  <2>2. QED
    BY <1>3, <2>1, BlandComes
<1>7. CASE \E u \in Registered : Begin(r, "verify2fa", {u}, VerifyTotp(u))
  BY <1>7, TwoFactorAll, BlandComes DEF Registered
<1>8. CASE \E u \in Registered, c \in Codes : Begin(r, "verify2fa", {u}, VerifyRecovery(u, c))
  <2>1. PICK u \in Registered, c \in Codes : Begin(r, "verify2fa", {u}, VerifyRecovery(u, c))
    BY <1>8
  <2>2. PICK program : program = VerifyRecovery(u, c)
    OBVIOUS
  <2>3. Program(program) /\ Begin(r, "verify2fa", {u}, program)
    BY <2>1, <2>2, TwoFactorAll DEF AllOf, Registered
  <2>4. program \in {DisableWithRecovery(u, c), VerifyRecovery(u, c)}
    BY <2>2
  <2>5. QED
    BY <2>3, <2>4, Zenon DEF Comes
<1>9. QED
  BY <1>1, <1>4, <1>5, <1>6, <1>7, <1>8

LEMMA TelegramComes == ASSUME NEW r, BeginTelegram(r) PROVE Comes(r)
<1>1. \/ \E u \in Registered :
           Begin(r, "link", {u}, GenerateTelegramLink(u)) \/ Begin(r, "unlink", {u}, Unlink(u))
      \/ \E t \in Telegrams, k \in 0..Len(linkTokens) : Begin(r, "start", {t}, HandleStart(t, k))
  BY Zenon DEF BeginTelegram
<1>2. ASSUME NEW u \in Users PROVE AllOf(GenerateTelegramLink(u), TRUE, TRUE) /\ AllOf(Unlink(u), TRUE, TRUE)
  <2>1. PICK a, b, patch : a = <<"exists", u>> /\ b = <<"insertToken", u>> /\ patch = [tg |-> NoTg]
    OBVIOUS
  <2>2. Bland(a) /\ Bland(b)
    BY <2>1, ChecksBland DEF Checks
  <2>3. DOMAIN patch \cap {"asLandlord", "asRenter", "twoFa", "codes"} = {}
    BY <2>1
  <2>4. AllOf(Update(u, patch), TRUE, TRUE)
    BY <2>3, UpdateAll
  <2>5. QED
    BY <2>1, <2>2, <2>4, TwoAre DEF GenerateTelegramLink, Unlink
<1>3. ASSUME NEW t, NEW k PROVE AllOf(HandleStart(t, k), TRUE, TRUE)
  <2>1. PICK a : a = <<"findByTelegramId", t, k>>
    OBVIOUS
  <2>2. Bland(a)
    BY <2>1, ChecksBland DEF Checks
  <2>3. QED
    BY <2>1, <2>2, OneIs DEF HandleStart
<1>4. QED
  BY <1>1, <1>2, <1>3, BlandComes DEF Registered

LEMMA ReviewsComes == ASSUME NEW r, BeginReviews(r) PROVE Comes(r)
<1>1. \/ \E b \in Bookings, by \in Users, rating \in Ratings :
           Begin(r, "review", {b.renter, b.landlord}, CreateReview(b, by, rating))
      \/ \E u \in Registered :
           \/ \E role \in PageRoles : Begin(r, "reviewsOfUser", {u}, GetOrSet(UserPage(u, role)))
           \/ Begin(r, "reviewsOfListing", {u}, GetOrSet(ListingPage(u)))
  BY Zenon DEF BeginReviews
<1>2. CASE \E b \in Bookings, by \in Users, rating \in Ratings :
             Begin(r, "review", {b.renter, b.landlord}, CreateReview(b, by, rating))
  <2>1. PICK b \in Bookings, by \in Users, rating \in Ratings :
             Begin(r, "review", {b.renter, b.landlord}, CreateReview(b, by, rating))
    BY <1>2
  <2>2. PICK op, about, program :
          op = "review" /\ about = {b.renter, b.landlord} /\ program = CreateReview(b, by, rating)
    OBVIOUS
  <2>3. Program(program)
    BY <2>2, ProgramOf2 DEF CreateReview
  <2>4. Begin(r, op, about, program)
    BY <2>1, <2>2
  <2>5. \E v \in Bookings, w \in Users, n \in Ratings :
          about = {v.renter, v.landlord} /\ program = CreateReview(v, w, n)
    BY <2>1, <2>2
  <2>6. QED
    BY <2>3, <2>4, <2>5, Zenon DEF Comes
<1>3. CASE \E u \in Registered :
           \/ \E role \in PageRoles : Begin(r, "reviewsOfUser", {u}, GetOrSet(UserPage(u, role)))
           \/ Begin(r, "reviewsOfListing", {u}, GetOrSet(ListingPage(u)))
  <2>1. PICK u, op, k :
          u \in Registered /\ k \in UserPages(u) \cup {ListingPage(u)} /\ Begin(r, op, {u}, GetOrSet(k))
    BY <1>3 DEF UserPages
  <2>2. PICK about, program : about = {u} /\ program = GetOrSet(k)
    OBVIOUS
  <2>3. Program(program) /\ k \in Pages(u)
    BY <2>1, <2>2, GetOrSetSteps DEF Pages
  <2>4. Begin(r, op, about, program) /\ \E v \in Registered : \E l \in Pages(v) : about = {v} /\ program = GetOrSet(l)
    BY <2>1, <2>2, <2>3
  <2>5. QED
    BY <2>3, <2>4, Zenon DEF Comes
<1>4. QED
  BY <1>1, <1>2, <1>3

LEMMA ArriveComes == ASSUME Tables, NEW r, Arrive(r) PROVE Comes(r)
BY UsersComes, TwoFactorComes, SessionsComes, TelegramComes, ReviewsComes DEF Arrive

-----------------------------------------------------------------------------
(* Registrations *)

\* No step of the request writes a role or a row of a user to come.
Roleless(r) == \A x \in Left(r) : RolePlain(x)

\* The request registers the user u, and n steps of it are done; ...
Registering(r, u, n) ==
  u \in req[r].about /\ \E p \in Phones : Rest(req[r].todo, CompleteRegistration(u, p), n)

\* ... this is what they have come to, ...
RolesAfter(n) == IF n < 5 THEN {} ELSE IF n < 10 THEN {"RENTER"} ELSE BothRoles
Onway(r, u, n) ==
  /\ n > 0 <=> u \in Registered
  /\ roles[u] = RolesAfter(n)
  /\ n \in {4, 9} => Got(r, "roles") = roles[u]

\* ... unless the user was contended.
Registers(r) == \E u \in Users, n \in 0..14 : Registering(r, u, n) /\ (u \notin contended => Onway(r, u, n))

\* A user has both roles, or is about to.
WholeUser(u) ==
  IF u \in Registered THEN roles[u] = BothRoles \/ \E r \in Requests, n \in 1..9 : Registering(r, u, n)
  ELSE roles[u] = {}

Signing == (\A r \in Requests : Roleless(r) \/ Registers(r)) /\ \A u \in Users \ contended : WholeUser(u)

\* Which step of a registration is at hand.
LEMMA RegistrationAt ==
  ASSUME AccountsTypes, NEW r \in Requests, NEW u, NEW n, Registering(r, u, n), NEW h, h = req[r].todo[1]
  PROVE  /\ n \in 0..14 /\ req[r].todo # <<>> /\ u \in req[r].about
         /\ n = 0 => h[1] = "createUser" /\ h[2] = u
         /\ n \in {1, 6, 11} => h = <<"get", RolesKey(u)>>
         /\ n \in {2, 7, 12} => h = <<"select", RolesKey(u)>>
         /\ n \in {3, 8, 13} => h = <<"set", RolesKey(u)>>
         /\ n = 4 => h = <<"insertRole", u, "RENTER">>
         /\ n = 9 => h = <<"insertRole", u, "LANDLORD">>
         /\ n \in {5, 10} => h = <<"delete", RolesKey(u)>>
         /\ n = 14 => h = <<"saveToken", u, 0>>
         /\ n < 10 => \E x \in Left(r) : x = <<"insertRole", u, "LANDLORD">>
         /\ Len(req[r].todo) = 15 - n /\ req[r].todo[15 - n] = <<"saveToken", u, 0>>
<1>1. PICK q : q = req[r].todo
  OBVIOUS
<1>2. PICK p \in Phones : u \in req[r].about /\ Rest(q, CompleteRegistration(u, p), n)
  BY <1>1 DEF Registering
<1>3. PICK s : s = CompleteRegistration(u, p)
  OBVIOUS
<1>4. Program(q)
  BY <1>1 DEF AccountsTypes, Shaped, Proper
<1>5. /\ Program(s) /\ Len(s) = 15
      /\ s[1] = <<"createUser", u, p>> /\ s[2] = <<"get", RolesKey(u)>>
      /\ s[3] = <<"select", RolesKey(u)>> /\ s[4] = <<"set", RolesKey(u)>>
      /\ s[5] = <<"insertRole", u, "RENTER">> /\ s[6] = <<"delete", RolesKey(u)>>
      /\ s[7] = <<"get", RolesKey(u)>> /\ s[8] = <<"select", RolesKey(u)>>
      /\ s[9] = <<"set", RolesKey(u)>> /\ s[10] = <<"insertRole", u, "LANDLORD">>
      /\ s[11] = <<"delete", RolesKey(u)>> /\ s[12] = <<"get", RolesKey(u)>>
      /\ s[13] = <<"select", RolesKey(u)>> /\ s[14] = <<"set", RolesKey(u)>>
      /\ s[15] = <<"saveToken", u, 0>>
  BY <1>3, RegistrationIs
<1>6. Rest(q, s, n) /\ Begun(q, s, n)
  BY <1>2, <1>3 DEF Rest
<1>7. n \in 0..14 /\ Len(q) = 15 - n /\ \A i \in 1..15 - n : q[i] = s[n + i]
  BY <1>5, <1>6 DEF Rest, Begun
<1>8. q # <<>> /\ h = s[n + 1]
  <2>1. Len(s) \in Nat
    BY <1>5
  <2>2. q # <<>> /\ q[1] = s[n + 1]
    BY <1>4, <1>6, <2>1, BegunStep
  <2>3. QED
    BY <1>1, <2>2
<1>10. /\ (n = 0 => h = s[1]) /\ (n = 4 => h = s[5]) /\ (n = 9 => h = s[10]) /\ (n = 14 => h = s[15])
       /\ (n = 1 => h = s[2]) /\ (n = 6 => h = s[7]) /\ (n = 11 => h = s[12])
       /\ (n = 2 => h = s[3]) /\ (n = 7 => h = s[8]) /\ (n = 12 => h = s[13])
       /\ (n = 3 => h = s[4]) /\ (n = 8 => h = s[9]) /\ (n = 13 => h = s[14])
       /\ (n = 5 => h = s[6]) /\ (n = 10 => h = s[11])
  BY <1>8
<1>11. n < 10 => \E x \in Left(r) : x = <<"insertRole", u, "LANDLORD">>
  <2>1. SUFFICES ASSUME n < 10 PROVE \E x \in Left(r) : x = <<"insertRole", u, "LANDLORD">>
    OBVIOUS
  <2>2. 10 - n \in 1..15 - n /\ n + (10 - n) = 10
    BY <1>7, <2>1
  <2>3. q[10 - n] = s[10]
    BY <1>7, <2>2
  <2>4. 10 - n \in DOMAIN q
    BY <1>4, <1>7, <2>2 DEF Program
  <2>5. QED
    BY <1>1, <1>5, <2>3, <2>4 DEF Left, Steps
<1>12. q[15 - n] = s[15]
  <2>1. 15 - n \in 1..15 - n /\ n + (15 - n) = 15
    BY <1>7
  <2>2. QED
    BY <1>7, <2>1
<1>13. n = 0 => h[1] = "createUser" /\ h[2] = u
  BY <1>5, <1>10
<1>14. /\ n \in {1, 6, 11} => h = <<"get", RolesKey(u)>>
       /\ n \in {2, 7, 12} => h = <<"select", RolesKey(u)>>
       /\ n \in {3, 8, 13} => h = <<"set", RolesKey(u)>>
  BY <1>5, <1>10
<1>15. /\ n = 4 => h = <<"insertRole", u, "RENTER">>
       /\ n = 9 => h = <<"insertRole", u, "LANDLORD">>
       /\ n \in {5, 10} => h = <<"delete", RolesKey(u)>>
       /\ n = 14 => h = <<"saveToken", u, 0>>
  BY <1>5, <1>10
<1>16. QED
  BY <1>1, <1>2, <1>5, <1>7, <1>8, <1>11, <1>12, <1>13, <1>14, <1>15

\* It writes the roles and the row of its user.
LEMMA RegistrationOf ==
  ASSUME AccountsTypes, NEW r \in Requests, NEW u, NEW n, Registering(r, u, n), NEW h, h = req[r].todo[1],
         h[1] \in {"createUser", "insertRole"}
  PROVE  h[2] = u
<1>1. PICK k : k = RolesKey(u)
  OBVIOUS
<1>2. /\ n \in {1, 6, 11} => h = <<"get", RolesKey(u)>>
      /\ n \in {2, 7, 12} => h = <<"select", RolesKey(u)>>
      /\ n \in {3, 8, 13} => h = <<"set", RolesKey(u)>>
      /\ n \in {5, 10} => h = <<"delete", RolesKey(u)>>
  BY RegistrationAt
<1>3. /\ n \in 0..14
      /\ n = 0 => h[2] = u
      /\ n = 4 => h = <<"insertRole", u, "RENTER">>
      /\ n = 9 => h = <<"insertRole", u, "LANDLORD">>
      /\ n = 14 => h = <<"saveToken", u, 0>>
  BY RegistrationAt
<1>4. /\ n \in {1, 6, 11} => h = <<"get", k>>
      /\ n \in {2, 7, 12} => h = <<"select", k>>
      /\ n \in {3, 8, 13} => h = <<"set", k>>
      /\ n \in {5, 10} => h = <<"delete", k>>
  BY <1>1, <1>2
<1>5. n \in {0, 4, 9}
  BY <1>3, <1>4
<1>6. QED
  BY <1>3, <1>5

\* A registration goes on, by a step or by a hit in the cache.
LEMMA RegistrationGoes ==
  ASSUME AccountsTypes, NEW r \in Requests, NEW u, NEW n, Registering(r, u, n),
         req'[r] # Idle => u \in req'[r].about
  PROVE  /\ req'[r].todo = Tail(req[r].todo) => IF n < 14 THEN Registering(r, u, n + 1)' ELSE req'[r].todo = <<>>
         /\ n \in {1, 6, 11} /\ req'[r].todo = SubSeq(req[r].todo, 4, Len(req[r].todo)) =>
              Registering(r, u, n + 3)'
<1>1. PICK q : q = req[r].todo
  OBVIOUS
<1>2. PICK p \in Phones : u \in req[r].about /\ Rest(q, CompleteRegistration(u, p), n)
  BY <1>1 DEF Registering
<1>3. PICK s : s = CompleteRegistration(u, p)
  OBVIOUS
<1>4. Program(q)
  BY <1>1 DEF AccountsTypes, Shaped, Proper
<1>5. Len(s) = 15 /\ Len(s) \in Nat
  BY <1>3, RegistrationIs
<1>6. Rest(q, s, n) /\ Begun(q, s, n) /\ n \in 0..14
  BY <1>2, <1>3, <1>5 DEF Rest, Begun
<1>7. ASSUME NEW m, Rest(req'[r].todo, s, m) PROVE Registering(r, u, m)'
  <2>1. Len(req'[r].todo) >= 1
    <3>1. m \in 0..14 /\ Len(req'[r].todo) = 15 - m
      BY <1>5, <1>7 DEF Rest, Begun
    <3>2. QED
      BY <3>1
  <2>2. req'[r].todo # <<>>
    BY <2>1
  <2>3. req'[r] # Idle
    BY <2>2 DEF Idle
  <2>4. Rest(req'[r].todo, CompleteRegistration(u, p), m)
    BY <1>3, <1>7
  <2>5. QED
    BY <2>3, <2>4 DEF Registering
<1>8. ASSUME req'[r].todo = Tail(q)
      PROVE  IF n < 14 THEN Registering(r, u, n + 1)' ELSE req'[r].todo = <<>>
  <2>1. IF n + 1 < 15 THEN Rest(Tail(q), s, n + 1) ELSE Tail(q) = <<>>
    <3>1. PICK k : k = Len(s)
      OBVIOUS
    <3>2. IF n + 1 < k THEN Rest(Tail(q), s, n + 1) ELSE Tail(q) = <<>>
      BY <1>4, <1>5, <1>6, <3>1, BegunStep
    <3>3. QED
      BY <1>5, <3>1, <3>2
  <2>2. CASE n < 14
    <3>1. Rest(req'[r].todo, s, n + 1)
      BY <1>6, <1>8, <2>1, <2>2
    <3>2. QED
      BY <1>7, <2>2, <3>1
  <2>3. CASE ~(n < 14)
    BY <1>6, <1>8, <2>1, <2>3
  <2>4. QED
    BY <2>2, <2>3
<1>9. ASSUME n \in {1, 6, 11}, req'[r].todo = SubSeq(q, 4, Len(q)) PROVE Registering(r, u, n + 3)'
  <2>1. PICK z : z = SubSeq(q, 4, Len(q))
    OBVIOUS
  <2>2. n + 3 < Len(s) /\ n + 3 <= Len(s)
    BY <1>5, <1>9
  <2>3. Rest(z, s, n + 3)
    BY <1>4, <1>5, <1>6, <2>1, <2>2, BegunSkip
  <2>4. QED
    BY <1>7, <1>9, <2>1, <2>3
<1>10. QED
  BY <1>1, <1>8, <1>9

LEMMA SameRegistration ==
  ASSUME AccountsTypes, NEW r \in Requests, NEW u, NEW n, NEW v, NEW m, Registering(r, u, n), Registering(r, v, m)
  PROVE  u = v /\ n = m
<1>1. PICK q : q = req[r].todo
  OBVIOUS
<1>2. n \in 0..14 /\ Len(q) = 15 - n /\ q[15 - n] = <<"saveToken", u, 0>>
  BY <1>1, RegistrationAt
<1>3. m \in 0..14 /\ Len(q) = 15 - m /\ q[15 - m] = <<"saveToken", v, 0>>
  BY <1>1, RegistrationAt
<1>4. n = m
  BY <1>2, <1>3
<1>5. QED
  BY <1>2, <1>3, <1>4

LEMMA RegistrationWrites ==
  ASSUME AccountsTypes, NEW r \in Requests, NEW u, NEW n, Registering(r, u, n), n < 10
  PROVE  ~Roleless(r)
<1>1. PICK x \in Left(r) : x = <<"insertRole", u, "LANDLORD">>
  BY RegistrationAt
<1>2. x[1] = "insertRole"
  BY <1>1
<1>3. QED
  BY <1>2 DEF Roleless, RolePlain

\* A step forgets no subject that was contended.
LEMMA ContendedStays ==
  ASSUME NEW r \in Requests, Progress(r)
  PROVE  contended \subseteq contended'
<1>1. \A todo, got : Goes(r, todo, got) => contended' = contended
  BY DEF Goes
<1>2. \A subjects, more : DoAbout(r, subjects, more) => contended \subseteq contended'
  BY DEF DoAbout
<1>3. /\ Continue(r) \/ Throw(r) => contended' = contended
      /\ \A k, v : Read(r, k, v) => contended' = contended
      /\ \A more : Do(r, more) => contended' = contended
      /\ \A condition : Require(r, condition) => contended' = contended
  BY <1>1 DEF Continue, Throw, Read, Do, Require
<1>4. CASE RedisSteps(r)
  BY <1>1, <1>3, <1>4 DEF RedisSteps, CacheGet, CacheSet, CachePut, CachePeek, CacheDelete, CacheScan, CacheUnlink
<1>5. CASE SelectProfile(r) \/ SelectStatus(r) \/ SelectRoles(r) \/ Exists(r) \/ Unique(r)
  BY <1>3, <1>5 DEF SelectProfile, SelectStatus, SelectRoles, Exists, Unique
<1>6. CASE SaveUser(r) \/ WriteColumns(r) \/ InsertRole(r) \/ NotBanned(r) \/ Show(r) \/ HasRoles(r)
  BY <1>3, <1>6 DEF SaveUser, WriteColumns, InsertRole, NotBanned, Show, HasRoles
<1>7. CASE TwoFaIs(r) \/ VerifyTemp(r) \/ MakeCodes(r) \/ MatchCode(r)
  BY <1>1, <1>3, <1>7 DEF TwoFaIs, VerifyTemp, MakeCodes, MatchCode
<1>8. CASE MatchDigits(r) \/ FindByPhone(r) \/ CreateUser(r) \/ FindRefresh(r) \/ Revoke(r) \/ SaveToken(r)
  BY <1>2, <1>3, <1>8 DEF MatchDigits, FindByPhone, CreateUser, FindRefresh, Revoke, SaveToken
<1>9. CASE InsertToken(r) \/ FindByTelegramId(r) \/ FindToken(r) \/ UseToken(r)
  BY <1>2, <1>3, <1>9 DEF InsertToken, FindByTelegramId, FindToken, UseToken
<1>10. CASE SelectPage(r) \/ MayReview(r) \/ InsertReview(r) \/ Rate(r)
  BY <1>3, <1>10 DEF SelectPage, MayReview, InsertReview, Rate
<1>11. QED
  BY <1>4, <1>5, <1>6, <1>7, <1>8, <1>9, <1>10
     DEF Progress, UsersSteps, TwoFactorSteps, SessionsSteps, TelegramSteps, ReviewsSteps

\* What the steps of a registration are, by their labels.
LEMMA RegistrationLabels ==
  ASSUME NEW r \in Requests, Progress(r)
  PROVE  /\ At(r, "get") => CacheGet(r)
         /\ At(r, "select") /\ Arg(r, 1)[1] = "roles" => SelectRoles(r)
         /\ At(r, "set") => CacheSet(r)
         /\ At(r, "delete") => CacheDelete(r)
         /\ At(r, "insertRole") => InsertRole(r)
         /\ At(r, "saveToken") => SaveToken(r)
         /\ UNCHANGED roles \/ InsertRole(r)
<1>1. CASE CacheGet(r) /\ UNCHANGED <<user, roles>>
  BY <1>1 DEF CacheGet, At
<1>2. CASE CacheSet(r) /\ UNCHANGED <<user, roles>>
  BY <1>2 DEF CacheSet, At
<1>3. CASE CacheDelete(r) /\ UNCHANGED <<user, roles>>
  BY <1>3 DEF CacheDelete, At
<1>4. CASE (CachePut(r) \/ CachePeek(r) \/ CacheScan(r) \/ CacheUnlink(r)) /\ UNCHANGED <<user, roles>>
  BY <1>4 DEF CachePut, CachePeek, CacheScan, CacheUnlink, At
<1>5. CASE SelectProfile(r) \/ SelectStatus(r) \/ SelectPage(r)
  BY <1>5 DEF SelectProfile, SelectStatus, SelectPage, At
<1>6. CASE SelectRoles(r)
  BY <1>6 DEF SelectRoles, At
<1>7. CASE Exists(r) \/ Unique(r) \/ SaveUser(r) \/ WriteColumns(r) \/ NotBanned(r) \/ Show(r) \/ HasRoles(r)
  BY <1>7 DEF Exists, Unique, SaveUser, WriteColumns, NotBanned, Show, HasRoles, At
<1>8. CASE TwoFaIs(r) \/ VerifyTemp(r) \/ MakeCodes(r) \/ MatchCode(r)
  BY <1>8 DEF TwoFaIs, VerifyTemp, MakeCodes, MatchCode, At
<1>9. CASE MatchDigits(r) \/ FindByPhone(r) \/ CreateUser(r) \/ FindRefresh(r) \/ Revoke(r)
  BY <1>9 DEF MatchDigits, FindByPhone, CreateUser, FindRefresh, Revoke, At
<1>10. CASE InsertToken(r) \/ FindByTelegramId(r) \/ FindToken(r) \/ UseToken(r)
  BY <1>10 DEF InsertToken, FindByTelegramId, FindToken, UseToken, At
<1>11. CASE MayReview(r) \/ InsertReview(r) \/ Rate(r)
  BY <1>11 DEF MayReview, InsertReview, Rate, At
<1>12. CASE InsertRole(r)
  BY <1>12 DEF InsertRole, At
<1>13. CASE SaveToken(r)
  BY <1>13 DEF SaveToken, At
<1>14. QED
  BY <1>1, <1>2, <1>3, <1>4, <1>5, <1>6, <1>7, <1>8, <1>9, <1>10, <1>11, <1>12, <1>13
     DEF Progress, UsersSteps, RedisSteps, TwoFactorSteps, SessionsSteps, TelegramSteps, ReviewsSteps

\* A step writes what it is about, and a registration the roles and the row of a new user.
LEMMA RowsStay ==
  ASSUME AccountsTypes, Safe, NEW r \in Requests, Progress(r), NEW u \in Users
  PROVE  /\ u \notin req[r].about => user'[u] = user[u] /\ roles'[u] = roles[u]
         /\ ~At(r, "insertRole") => UNCHANGED roles
         /\ ~At(r, "createUser") /\ u \notin contended => (u \in Registered' <=> u \in Registered)
         /\ ~At(r, "save") /\ ~At(r, "write") /\ ~At(r, "createUser") => UNCHANGED user
<1>1. PICK h, v : h = req[r].todo[1] /\ v = h[2]
  OBVIOUS
<1>2. Shaped /\ Tables /\ Known /\ req[r].todo # <<>>
  BY Labels DEF AccountsTypes, Safe
<1>3. StepOK(h) /\ Minds(h, req[r].about)
  BY <1>1, <1>2, AtHand
<1>4. h[1] \in {"save", "write", "insertRole", "createUser"} => v \in Users /\ v \in req[r].about
  BY <1>1, <1>3 DEF StepOK, OfUser, Minds
<1>5. UNCHANGED roles \/ (At(r, "insertRole") /\ \E s : roles' = [roles EXCEPT ![v] = s])
  <2>1. CASE InsertRole(r)
    BY <1>1, <2>1 DEF InsertRole, Arg
  <2>2. QED
    BY <2>1, RegistrationLabels
<1>6. \/ UNCHANGED user
      \/ At(r, "createUser") /\ \E row : user' = [user EXCEPT ![v] = row]
      \/ At(r, "save") /\ \E row \in UserRow : user' = [user EXCEPT ![v] = row] /\ (v \notin contended => v \in Registered)
      \/ At(r, "write") /\ user[v] # NoRow /\ \E row \in UserRow : user' = [user EXCEPT ![v] = row]
  <2>1. CASE CreateUser(r)
    <3>1. At(r, "createUser") /\ Arg(r, 1) = v
      BY <1>1, <2>1 DEF CreateUser, Arg
    <3>2. UNCHANGED user \/ user' = [user EXCEPT ![Arg(r, 1)] = NewUser(Arg(r, 2))]
      BY <2>1, Zenon DEF CreateUser
    <3>3. QED
      BY <3>1, <3>2
  <2>2. CASE SaveUser(r)
    <3>1. PICK patch, row : patch = Arg(r, 2) /\ row = Merged(r, patch)
      OBVIOUS
    <3>2. At(r, "save") /\ Arg(r, 1) = v /\ (UNCHANGED user \/ user' = [user EXCEPT ![v] = row])
      BY <1>1, <2>2, <3>1 DEF SaveUser, Arg
    <3>3. row \in UserRow /\ (v \notin contended => v \in Registered)
      BY <1>2, <3>1, <3>2, SaveKnows
    <3>4. QED
      BY <3>2, <3>3
  <2>3. CASE WriteColumns(r)
    <3>1. PICK patch, row : /\ patch = h[3]
                            /\ row = [c \in Columns |-> IF c \in DOMAIN patch THEN patch[c] ELSE user[v][c]]
      OBVIOUS
    <3>2. At(r, "write") /\ h[1] = "write" /\ (UNCHANGED user \/ (user[v] # NoRow /\ user' = [user EXCEPT ![v] = row]))
      <4>1. /\ At(r, "write") /\ h[1] = "write"
            /\ user' = IF user[v] = NoRow THEN user
                       ELSE [user EXCEPT ![v] = [c \in Columns |->
                               IF c \in DOMAIN h[3] THEN h[3][c] ELSE user[v][c]]]
        BY <1>1, <2>3 DEF WriteColumns, Arg, At
      <4>2. user' = IF user[v] = NoRow THEN user ELSE [user EXCEPT ![v] = row]
        BY <3>1, <4>1
      <4>3. QED
        BY <4>1, <4>2
    <3>3. ASSUME user[v] # NoRow PROVE row \in UserRow
      <4>1. v \in Users /\ \E b \in BOOLEAN : patch \in {[online |-> b], [banned |-> b], [verified |-> b]}
        BY <1>3, <1>4, <3>1, <3>2 DEF StepOK
      <4>2. Typed(patch, DOMAIN patch)
        BY <4>1 DEF Typed, ColumnType
      <4>3. user[v] \in UserRow
        BY <1>2, <3>3, <4>1 DEF Tables
      <4>4. Typed(row, Columns)
        BY <3>1, <4>2, <4>3, RowColumns DEF Typed
      <4>5. [c \in Columns |-> row[c]] \in UserRow
        BY <4>4, RowOf
      <4>6. QED
        BY <3>1, <4>5
    <3>4. QED
      BY <3>2, <3>3
  <2>4. QED
    BY <2>1, <2>2, <2>3, Labels
<1>7. NoRow \notin UserRow
  BY AccountsAssumption
<1>8. user = [w \in Users |-> user[w]] /\ roles = [w \in Users |-> roles[w]]
  BY <1>2 DEF Tables
<1>9. u \notin req[r].about => user'[u] = user[u] /\ roles'[u] = roles[u]
  <2>1. SUFFICES ASSUME u \notin req[r].about PROVE user'[u] = user[u] /\ roles'[u] = roles[u]
    OBVIOUS
  <2>2. roles'[u] = roles[u]
    BY <1>1, <1>4, <1>5, <1>8, <2>1 DEF At
  <2>3. user'[u] = user[u]
    BY <1>1, <1>4, <1>6, <1>8, <2>1 DEF At
  <2>4. QED
    BY <2>2, <2>3
<1>10. ~At(r, "createUser") /\ u \notin contended => (u \in Registered' <=> u \in Registered)
  <2>1. SUFFICES ASSUME ~At(r, "createUser"), u \notin contended PROVE user'[u] = NoRow <=> user[u] = NoRow
    BY DEF Registered
  <2>2. CASE v = u /\ ~UNCHANGED user
    <3>1. PICK row \in UserRow : user' = [user EXCEPT ![u] = row] /\ user[u] # NoRow
      BY <1>6, <2>1, <2>2 DEF Registered
    <3>2. user'[u] = row
      BY <1>8, <3>1
    <3>3. QED
      BY <1>7, <3>1, <3>2
  <2>3. CASE v # u \/ UNCHANGED user
    BY <1>6, <1>8, <2>1, <2>3
  <2>4. QED
    BY <2>2, <2>3
<1>11. QED
  BY <1>5, <1>6, <1>9, <1>10

\* A registration ends, or goes on; it fails only before the user is there, or when the user is contended.
LEMMA RegistrationStep ==
  ASSUME AccountsTypes, Safe, NEW r \in Requests, Progress(r), NEW u \in Users, NEW n, Registering(r, u, n)
  PROVE  /\ contended' = contended
         /\ \/ /\ req'[r].todo = <<>>
               /\ u \notin contended /\ Onway(r, u, n) =>
                    \/ n = 0 /\ UNCHANGED <<user, roles>>
                    \/ n = 14 /\ u \in Registered' /\ roles'[u] = BothRoles
            \/ \E m \in 1..14 : /\ n < m /\ Registering(r, u, m)'
                                /\ u \notin contended /\ Onway(r, u, n) => Onway(r, u, m)'
<1>1. PICK h : h = req[r].todo[1]
  OBVIOUS
<1>2. PICK k : k = RolesKey(u)
  OBVIOUS
<1>3. /\ n \in 0..14 /\ req[r].todo # <<>> /\ u \in req[r].about
      /\ n = 0 => h[1] = "createUser" /\ h[2] = u
      /\ n \in {1, 6, 11} => h = <<"get", k>>
      /\ n \in {2, 7, 12} => h = <<"select", k>>
      /\ n \in {3, 8, 13} => h = <<"set", k>>
      /\ n = 4 => h = <<"insertRole", u, "RENTER">>
      /\ n = 9 => h = <<"insertRole", u, "LANDLORD">>
      /\ n \in {5, 10} => h = <<"delete", k>>
      /\ n = 14 => h = <<"saveToken", u, 0>>
  <2>1. /\ n \in 0..14 /\ req[r].todo # <<>> /\ u \in req[r].about
        /\ n = 0 => h[1] = "createUser" /\ h[2] = u
        /\ n = 4 => h = <<"insertRole", u, "RENTER">>
        /\ n = 9 => h = <<"insertRole", u, "LANDLORD">>
        /\ n = 14 => h = <<"saveToken", u, 0>>
    BY <1>1, RegistrationAt
  <2>2. /\ n \in {1, 6, 11} => h = <<"get", RolesKey(u)>>
        /\ n \in {2, 7, 12} => h = <<"select", RolesKey(u)>>
        /\ n \in {3, 8, 13} => h = <<"set", RolesKey(u)>>
        /\ n \in {5, 10} => h = <<"delete", RolesKey(u)>>
    BY <1>1, RegistrationAt
  <2>3. QED
    BY <1>2, <2>1, <2>2
<1>4. Shaped /\ Proper /\ Tables /\ Knows(r) /\ CacheFresh
  BY DEF AccountsTypes, Safe, Known, Shaped
<1>5. k \in UsersKeys /\ k \in Facts /\ k[1] = "roles" /\ k[2] = u /\ Current(k) = roles[u]
  <2>1. k \in UsersKeys /\ k[1] = "roles" /\ k[2] = u
    BY <1>2, KeyOfUser
  <2>2. QED
    BY <2>1, CurrentIs DEF Facts
<1>6. ASSUME NEW got, Goes(r, Tail(req[r].todo), got)
      PROVE  /\ contended' = contended
             /\ n < 14 => Registering(r, u, n + 1)' /\ req'[r].got = got
             /\ n = 14 => req'[r].todo = <<>>
  <2>1. /\ contended' = contended /\ req'[r].todo = Tail(req[r].todo)
        /\ req'[r] # Idle => req'[r].about = req[r].about /\ req'[r].got = got
    BY <1>3, <1>4, <1>6, Continues
  <2>2. IF n < 14 THEN Registering(r, u, n + 1)' ELSE req'[r].todo = <<>>
    BY <1>3, <2>1, RegistrationGoes
  <2>3. ASSUME n < 14 PROVE req'[r] # Idle
    <3>1. u \in req'[r].about
      BY <2>2, <2>3 DEF Registering
    <3>2. QED
      BY <3>1 DEF Idle
  <2>4. QED
    BY <2>1, <2>2, <2>3
<1>7. ASSUME h[1] \notin {"insertRole", "createUser", "save", "write"} PROVE UNCHANGED <<user, roles>>
  BY <1>1, <1>7, RowsStay DEF At
<1>8. CASE n = 0
  <2>1. At(r, "createUser") /\ Arg(r, 1) = u
    BY <1>1, <1>3, <1>8 DEF At, Arg
  <2>2. CreateUser(r)
    BY <2>1, Labels
  <2>3. PICK got, row : got = req[r].got /\ row = NewUser(Arg(r, 2))
    OBVIOUS
  <2>4. \/ Throw(r) /\ UNCHANGED <<user, roles>>
        \/ Goes(r, Tail(req[r].todo), got) /\ user' = [user EXCEPT ![u] = row] /\ UNCHANGED roles
    BY <2>1, <2>2, <2>3 DEF CreateUser, Continue
  <2>5. CASE Throw(r) /\ UNCHANGED <<user, roles>>
    BY <1>4, <1>8, <2>5, Throws
  <2>6. CASE Goes(r, Tail(req[r].todo), got) /\ user' = [user EXCEPT ![u] = row] /\ UNCHANGED roles
    <3>1. contended' = contended /\ Registering(r, u, 1)'
      BY <1>6, <1>8, <2>6
    <3>2. u \in Registered'
      <4>1. user'[u] = row
        BY <1>4, <2>6 DEF Tables
      <4>2. row # NoRow
        <5>1. StepOK(h)
          BY <1>1, <1>3, <1>4, AtHand
        <5>2. Arg(r, 2) \in Phones
          BY <1>1, <1>3, <1>8, <5>1 DEF StepOK, Arg
        <5>3. row \in UserRow
          BY <2>3, <5>2 DEF NewUser, UserRow
        <5>4. QED
          BY <5>3, AccountsAssumption
      <4>3. QED
        BY <4>1, <4>2 DEF Registered
    <3>3. Onway(r, u, n) => Onway(r, u, 1)'
      BY <1>8, <2>6, <3>2 DEF Onway, RolesAfter
    <3>4. QED
      BY <1>8, <3>1, <3>3
  <2>7. QED
    BY <2>4, <2>5, <2>6
<1>9. CASE n \in {1, 6, 11}
  <2>1. h[1] = "get" /\ h[2] = k
    BY <1>3, <1>9
  <2>2. CacheGet(r) /\ Arg(r, 1) = k
    BY <1>1, <1>3, <2>1, RegistrationLabels DEF At, Arg
  <2>3. UNCHANGED <<user, roles>>
    BY <1>7, <2>1
  <2>4. PICK todo, got, old : /\ todo = SubSeq(req[r].todo, 4, Len(req[r].todo)) /\ old = req[r].got
                              /\ got = With(old, "roles", cache[k])
    OBVIOUS
  <2>5. \/ k \in DOMAIN cache /\ Goes(r, todo, got)
        \/ Goes(r, Tail(req[r].todo), old)
    BY <1>5, <2>2, <2>4 DEF CacheGet, Continue
  <2>6. CASE Goes(r, Tail(req[r].todo), old)
    <3>1. contended' = contended /\ Registering(r, u, n + 1)'
      BY <1>6, <1>9, <2>6
    <3>2. Onway(r, u, n) => Onway(r, u, n + 1)'
      BY <1>9, <2>3 DEF Onway, RolesAfter, Registered
    <3>3. n + 1 \in 1..14 /\ n < n + 1
      BY <1>9
    <3>4. QED
      BY <3>1, <3>2, <3>3
  <2>7. CASE k \in DOMAIN cache /\ Goes(r, todo, got)
    <3>1. Program(todo)
      <4>1. PICK q : q = req[r].todo
        OBVIOUS
      <4>2. 3 \in DOMAIN q /\ Program(q)
        <5>1. Len(q) = 15 - n /\ Program(q)
          BY <1>4, <4>1, RegistrationAt DEF Proper
        <5>2. 3 \in 1..Len(q)
          BY <1>9, <5>1
        <5>3. QED
          BY <5>1, <5>2 DEF Program
      <4>3. todo = SubSeq(q, 4, Len(q))
        BY <2>4, <4>1
      <4>4. QED
        BY <4>2, <4>3, SkipOf
    <3>2. /\ contended' = contended /\ req'[r].todo = todo
          /\ req'[r] = IF todo = <<>> THEN Idle
                       ELSE [op |-> req[r].op, about |-> req[r].about, todo |-> todo, got |-> got]
      BY <1>4, <2>7, <3>1, GoesOn
    <3>3. req'[r] # Idle => req'[r].about = req[r].about /\ req'[r].got = got
      BY <3>2
    <3>4. Registering(r, u, n + 3)'
      BY <1>3, <1>9, <2>4, <3>2, <3>3, RegistrationGoes
    <3>5. req'[r].got = got
      <4>1. u \in req'[r].about
        BY <3>4 DEF Registering
      <4>2. QED
        BY <3>3, <4>1 DEF Idle
    <3>6. ASSUME u \notin contended PROVE cache[k] = roles[u]
      <4>1. ASSUME NEW q \in Requests, Drops(q, k) PROVE FALSE
        <5>1. u \in req[q].about /\ req[q].todo[1][1] = "delete"
          BY <1>4, <1>5, <4>1, DropsMind
        <5>2. q # r
          BY <1>1, <2>1, <5>1
        <5>3. QED
          BY <1>3, <1>4, <3>6, <5>1, <5>2, SharedContended
      <4>2. QED
        BY <1>4, <1>5, <2>7, <3>6, <4>1 DEF CacheFresh
    <3>7. got["roles"] = cache[k]
      BY <2>4 DEF With
    <3>8. u \notin contended /\ Onway(r, u, n) => Onway(r, u, n + 3)'
      BY <1>9, <2>3, <3>5, <3>6, <3>7 DEF Onway, RolesAfter, Registered, Got
    <3>9. n + 3 \in 1..14 /\ n < n + 3
      BY <1>9
    <3>10. QED
      BY <3>2, <3>4, <3>8, <3>9
  <2>8. QED
    BY <2>5, <2>6, <2>7
<1>10. CASE n \in {2, 7, 12}
  <2>1. h[1] = "select" /\ h[2] = k
    BY <1>3, <1>10
  <2>2. SelectRoles(r)
    BY <1>1, <1>3, <1>5, <2>1, RegistrationLabels DEF At, Arg
  <2>3. UNCHANGED <<user, roles>>
    BY <1>7, <2>1
  <2>4. PICK got : Goes(r, Tail(req[r].todo), got)
    BY <2>2 DEF SelectRoles, Read
  <2>5. contended' = contended /\ Registering(r, u, n + 1)'
    BY <1>6, <1>10, <2>4
  <2>6. Onway(r, u, n) => Onway(r, u, n + 1)'
    BY <1>10, <2>3 DEF Onway, RolesAfter, Registered
  <2>7. n + 1 \in 1..14 /\ n < n + 1
    BY <1>10
  <2>8. QED
    BY <2>5, <2>6, <2>7
<1>11. CASE n \in {3, 8, 13}
  <2>1. h[1] = "set" /\ h[2] = k
    BY <1>3, <1>11
  <2>2. CacheSet(r)
    BY <1>1, <1>3, <2>1, RegistrationLabels DEF At
  <2>3. UNCHANGED <<user, roles>>
    BY <1>7, <2>1
  <2>4. PICK got : got = req[r].got
    OBVIOUS
  <2>5. Goes(r, Tail(req[r].todo), got)
    BY <2>2, <2>4 DEF CacheSet, Continue
  <2>6. contended' = contended /\ Registering(r, u, n + 1)' /\ req'[r].got = got
    BY <1>6, <1>11, <2>5
  <2>7. u \notin contended => got["roles"] = roles[u]
    <3>1. Needs(req[r].todo, k)
      <4>1. Uses(h, k) /\ Program(req[r].todo)
        BY <1>4, <2>1 DEF Uses, Proper
      <4>2. QED
        BY <1>1, <1>3, <4>1, NeedsHead
    <3>2. u \notin contended => Holds(r, k)
      BY <1>4, <1>5, <3>1 DEF Knows
    <3>3. QED
      BY <1>5, <2>4, <3>2 DEF Holds
  <2>8. u \notin contended /\ Onway(r, u, n) => Onway(r, u, n + 1)'
    BY <1>11, <2>3, <2>6, <2>7 DEF Onway, RolesAfter, Registered, Got
  <2>9. n + 1 \in 1..14 /\ n < n + 1
    BY <1>11
  <2>10. QED
    BY <2>6, <2>8, <2>9
<1>12. CASE n \in {4, 9}
  <2>1. PICK role : role = IF n = 4 THEN "RENTER" ELSE "LANDLORD"
    OBVIOUS
  <2>2. h[1] = "insertRole" /\ h[2] = u /\ h[3] = role
    BY <1>3, <1>12, <2>1
  <2>3. InsertRole(r) /\ Arg(r, 1) = u /\ Arg(r, 2) = role
    BY <1>1, <1>3, <2>2, RegistrationLabels DEF At, Arg
  <2>4. UNCHANGED user
    BY <2>3 DEF InsertRole
  <2>5. PICK got : got = req[r].got
    OBVIOUS
  <2>6. \/ role \in got["roles"] \cup roles[u] /\ Throw(r)
        \/ Goes(r, Tail(req[r].todo), got) /\ roles' = [roles EXCEPT ![u] = roles[u] \cup {role}]
    BY <2>3, <2>5 DEF InsertRole, Got, Continue
  <2>7. CASE role \in got["roles"] \cup roles[u] /\ Throw(r)
    <3>1. contended' = contended /\ req'[r].todo = <<>>
      BY <1>4, <2>7, Throws
    <3>2. ~Onway(r, u, n)
      BY <1>12, <2>1, <2>5, <2>7 DEF Onway, RolesAfter, Got
    <3>3. QED
      BY <3>1, <3>2
  <2>8. CASE Goes(r, Tail(req[r].todo), got) /\ roles' = [roles EXCEPT ![u] = roles[u] \cup {role}]
    <3>1. contended' = contended /\ Registering(r, u, n + 1)'
      BY <1>6, <1>12, <2>8
    <3>2. roles'[u] = roles[u] \cup {role}
      BY <1>4, <2>8 DEF Tables
    <3>3. Onway(r, u, n) => Onway(r, u, n + 1)'
      BY <1>12, <2>1, <2>4, <3>2 DEF Onway, RolesAfter, BothRoles, Registered
    <3>4. n + 1 \in 1..14 /\ n < n + 1
      BY <1>12
    <3>5. QED
      BY <3>1, <3>3, <3>4
  <2>9. QED
    BY <2>6, <2>7, <2>8
<1>13. CASE n \in {5, 10}
  <2>1. h[1] = "delete"
    BY <1>3, <1>13
  <2>2. CacheDelete(r)
    BY <1>1, <1>3, <2>1, RegistrationLabels DEF At
  <2>3. UNCHANGED <<user, roles>>
    BY <1>7, <2>1
  <2>4. PICK got : Goes(r, Tail(req[r].todo), got)
    BY <2>2 DEF CacheDelete, Continue
  <2>5. contended' = contended /\ Registering(r, u, n + 1)'
    BY <1>6, <1>13, <2>4
  <2>6. Onway(r, u, n) => Onway(r, u, n + 1)'
    BY <1>13, <2>3 DEF Onway, RolesAfter, Registered
  <2>7. n + 1 \in 1..14 /\ n < n + 1
    BY <1>13
  <2>8. QED
    BY <2>5, <2>6, <2>7
<1>14. CASE n = 14
  <2>1. h[1] = "saveToken"
    BY <1>3, <1>14
  <2>2. SaveToken(r)
    BY <1>1, <1>3, <2>1, RegistrationLabels DEF At
  <2>3. UNCHANGED <<user, roles>>
    BY <1>7, <2>1
  <2>4. PICK got : Goes(r, Tail(req[r].todo), got)
    BY <2>2 DEF SaveToken, Continue
  <2>5. contended' = contended /\ req'[r].todo = <<>>
    BY <1>6, <1>14, <2>4
  <2>6. Onway(r, u, n) => u \in Registered' /\ roles'[u] = BothRoles
    BY <1>14, <2>3 DEF Onway, RolesAfter, Registered
  <2>7. QED
    BY <1>14, <2>5, <2>6
<1>15. QED
  BY <1>3, <1>8, <1>9, <1>10, <1>11, <1>12, <1>13, <1>14

\* Of the other requests, and of users they are not about, nothing changes.
LEMMA OthersSign ==
  ASSUME AccountsTypes, Signing, NEW r \in Requests, NEW q \in Requests \ {r}, Elsewhere(r),
         contended \subseteq contended',
         \A u \in Users : u \notin req[r].about \cup contended' =>
           roles'[u] = roles[u] /\ (u \in Registered' <=> u \in Registered)
  PROVE  Roleless(q)' \/ Registers(q)'
<1>1. req'[q] = req[q]
  BY DEF Elsewhere
<1>2. CASE Roleless(q)
  BY <1>1, <1>2 DEF Roleless, Left
<1>3. CASE Registers(q)
  <2>1. PICK u \in Users, n \in 0..14 : Registering(q, u, n) /\ (u \notin contended => Onway(q, u, n))
    BY <1>3 DEF Registers
  <2>2. Registering(q, u, n)'
    BY <1>1, <2>1 DEF Registering
  <2>3. ASSUME u \notin contended' PROVE Onway(q, u, n)'
    <3>1. u \notin req[r].about
      <4>1. u \in req[q].about
        BY <2>1 DEF Registering
      <4>2. QED
        BY <2>3, <4>1, SharedContended DEF AccountsTypes
    <3>2. QED
      BY <1>1, <2>1, <2>3, <3>1 DEF Onway, Got
  <2>4. QED
    BY <2>1, <2>2, <2>3 DEF Registers
<1>4. QED
  BY <1>2, <1>3 DEF Signing

LEMMA OthersWhole ==
  ASSUME NEW r \in Requests, NEW u \in Users, WholeUser(u), Elsewhere(r),
         roles'[u] = roles[u], u \in Registered' <=> u \in Registered,
         \A n \in 1..9 : Registering(r, u, n) => (u \in Registered => roles'[u] = BothRoles) \/ \E m \in 1..9 : Registering(r, u, m)'
  PROVE  WholeUser(u)'
<1>1. CASE u \notin Registered \/ roles[u] = BothRoles
  BY <1>1 DEF WholeUser
<1>2. CASE u \in Registered /\ \E q \in Requests, n \in 1..9 : Registering(q, u, n)
  <2>1. PICK q \in Requests, n \in 1..9 : Registering(q, u, n)
    BY <1>2
  <2>2. CASE q = r
    BY <1>2, <2>1, <2>2 DEF WholeUser
  <2>3. CASE q # r
    <3>1. req'[q] = req[q]
      BY <2>3 DEF Elsewhere
    <3>2. Registering(q, u, n)'
      BY <2>1, <3>1 DEF Registering
    <3>3. QED
      BY <1>2, <3>2 DEF WholeUser
  <2>4. QED
    BY <2>2, <2>3
<1>3. QED
  BY <1>1, <1>2 DEF WholeUser

\* The steps of the requests.
LEMMA ProgressSigns ==
  ASSUME AccountsTypes, Safe, Signing, NEW r \in Requests, Progress(r)
  PROVE  Signing'
<1>1. Proper /\ Elsewhere(r) /\ contended \subseteq contended' /\ req[r].todo # <<>>
  BY ProgressElsewhere, ContendedStays, Labels DEF AccountsTypes, Shaped
<1>2. PICK h : h = req[r].todo[1]
  OBVIOUS
<1>3. ASSUME NEW u \in Users, u \notin req[r].about
      PROVE  roles'[u] = roles[u] /\ (u \in Registered' <=> u \in Registered)
  BY <1>3, RowsStay DEF Registered
<1>4. \A q \in Requests \ {r} : Roleless(q)' \/ Registers(q)'
  BY <1>1, <1>3, OthersSign
<1>5. CASE Roleless(r)
  <2>1. h[1] \notin {"createUser", "insertRole"}
    <3>1. h \in Left(r)
      BY <1>1, <1>2, ProgramTail DEF Proper, Left
    <3>2. QED
      BY <1>5, <3>1 DEF Roleless, RolePlain
  <2>2. Roleless(r)'
    <3>1. ASSUME NEW x \in Left(r)' PROVE RolePlain(x)
      <4>1. Brings(r, x)
        BY ProgressBrings
      <4>2. QED
        BY <1>5, <4>1 DEF Brings, Roleless, Bland
    <3>2. QED
      BY <3>1 DEF Roleless
  <2>3. ASSUME NEW u \in Users, u \notin contended' PROVE WholeUser(u)'
    <3>1. u \notin contended /\ WholeUser(u)
      BY <1>1, <2>3 DEF Signing
    <3>2. roles'[u] = roles[u] /\ (u \in Registered' <=> u \in Registered)
      BY <1>2, <2>1, <3>1, RowsStay DEF At
    <3>3. ASSUME NEW n \in 1..9, Registering(r, u, n) PROVE FALSE
      BY <1>5, <3>3, RegistrationWrites
    <3>4. QED
      BY <1>1, <3>1, <3>2, <3>3, OthersWhole
  <2>4. QED
    BY <1>4, <2>2, <2>3 DEF Signing
<1>6. CASE Registers(r)
  <2>1. PICK u \in Users, n \in 0..14 : Registering(r, u, n) /\ (u \notin contended => Onway(r, u, n))
    BY <1>6 DEF Registers
  <2>2. contended' = contended
    BY <2>1, RegistrationStep
  <2>3. ASSUME NEW v \in Users, v # u, v \notin contended' PROVE WholeUser(v)'
    <3>1. v \notin contended /\ WholeUser(v)
      BY <1>1, <2>3 DEF Signing
    <3>2. roles'[v] = roles[v] /\ (v \in Registered' <=> v \in Registered)
      <4>1. CASE v \notin req[r].about
        BY <1>3, <4>1
      <4>2. CASE v \in req[r].about
        <5>1. Tables /\ roles = [w \in Users |-> roles[w]] /\ user = [w \in Users |-> user[w]]
          BY DEF AccountsTypes, Tables
        <5>2. h[1] \in {"createUser", "insertRole"} => h[2] = u
          BY <1>2, <2>1, RegistrationOf
        <5>3. CASE h[1] = "createUser"
          <6>1. CreateUser(r) /\ Arg(r, 1) = u
            BY <1>1, <1>2, <5>2, <5>3, Labels DEF At, Arg
          <6>2. UNCHANGED user \/ user' = [user EXCEPT ![Arg(r, 1)] = NewUser(Arg(r, 2))]
            BY <6>1, Zenon DEF CreateUser
          <6>3. UNCHANGED roles
            BY <6>1 DEF CreateUser
          <6>4. user'[v] = user[v]
            BY <2>3, <5>1, <6>1, <6>2
          <6>5. QED
            BY <6>3, <6>4 DEF Registered
        <5>4. CASE h[1] = "insertRole"
          <6>1. InsertRole(r) /\ Arg(r, 1) = u
            BY <1>1, <1>2, <5>2, <5>4, RegistrationLabels DEF At, Arg
          <6>2. UNCHANGED user /\ (UNCHANGED roles \/ \E s : roles' = [roles EXCEPT ![u] = s])
            BY <6>1 DEF InsertRole
          <6>3. QED
            BY <2>3, <5>1, <6>2 DEF Registered
        <5>5. CASE h[1] \notin {"createUser", "insertRole"}
          BY <1>2, <3>1, <5>5, RowsStay DEF At
        <5>6. QED
          BY <5>3, <5>4, <5>5
      <4>3. QED
        BY <4>1, <4>2
    <3>3. ASSUME NEW m \in 1..9, Registering(r, v, m) PROVE FALSE
      BY <2>1, <2>3, <3>3, SameRegistration
    <3>4. QED
      BY <1>1, <3>1, <3>2, <3>3, OthersWhole
  <2>4. CASE req'[r].todo = <<>>
    <3>1. Roleless(r)'
      BY <2>4, NoProgram DEF Roleless, Left
    <3>2. ASSUME u \notin contended' PROVE WholeUser(u)'
      <4>1. Onway(r, u, n) /\ WholeUser(u)
        BY <2>1, <2>2, <3>2 DEF Signing
      <4>2. \/ n = 0 /\ UNCHANGED <<user, roles>>
            \/ u \in Registered' /\ roles'[u] = BothRoles
        <5>1. ASSUME NEW m \in 1..14, Registering(r, u, m)' PROVE FALSE
          <6>1. \E p \in Phones : Rest(req'[r].todo, CompleteRegistration(u, p), m)
            BY <5>1 DEF Registering
          <6>2. PICK p \in Phones : Rest(<<>>, CompleteRegistration(u, p), m)
            BY <2>4, <6>1
          <6>3. PICK s : s = CompleteRegistration(u, p)
            OBVIOUS
          <6>4. Len(s) = 15 /\ Rest(<<>>, s, m)
            BY <6>2, <6>3, RegistrationIs
          <6>5. Len(<<>>) = 15 - m /\ m \in 0..14 /\ Len(<<>>) = 0
            BY <6>4 DEF Rest, Begun
          <6>6. QED
            BY <6>5
        <5>2. QED
          BY <2>1, <2>2, <3>2, <4>1, <5>1, RegistrationStep
      <4>3. CASE n = 0 /\ UNCHANGED <<user, roles>>
        BY <4>1, <4>3 DEF WholeUser, Onway, Registered
      <4>4. CASE u \in Registered' /\ roles'[u] = BothRoles
        BY <4>4 DEF WholeUser
      <4>5. QED
        BY <4>2, <4>3, <4>4
    <3>3. QED
      BY <1>4, <2>3, <3>1, <3>2 DEF Signing
  <2>5. CASE \E m \in 1..14 : /\ n < m /\ Registering(r, u, m)'
                              /\ u \notin contended /\ Onway(r, u, n) => Onway(r, u, m)'
    <3>1. PICK m \in 1..14 : /\ n < m /\ Registering(r, u, m)'
                             /\ u \notin contended /\ Onway(r, u, n) => Onway(r, u, m)'
      BY <2>5
    <3>2. Registers(r)'
      <4>1. m \in 0..14 /\ Registering(r, u, m)' /\ (u \notin contended' => Onway(r, u, m)')
        BY <2>1, <2>2, <3>1
      <4>2. QED
        BY <4>1 DEF Registers
    <3>3. ASSUME u \notin contended' PROVE WholeUser(u)'
      <4>1. u \in Registered' /\ roles'[u] = RolesAfter(m)
        BY <2>1, <2>2, <3>1, <3>3 DEF Onway
      <4>2. CASE m < 10
        <5>1. m \in 1..9
          BY <3>1, <4>2
        <5>2. QED
          BY <3>1, <4>1, <5>1 DEF WholeUser
      <4>3. CASE ~(m < 10)
        <5>1. roles'[u] = BothRoles
          BY <3>1, <4>1, <4>3 DEF RolesAfter
        <5>2. QED
          BY <4>1, <5>1 DEF WholeUser
      <4>4. QED
        BY <4>2, <4>3
    <3>4. QED
      BY <1>4, <2>3, <3>2, <3>3 DEF Signing
  <2>6. QED
    BY <2>1, <2>4, <2>5, RegistrationStep
<1>7. QED
  BY <1>5, <1>6 DEF Signing

\* A request that arrives registers a user who is not there, or writes no role.
LEMMA ComesPlain ==
  ASSUME NEW r, Comes(r)
  PROVE  \E op, about, program :
           /\ Begin(r, op, about, program) /\ Program(program)
           /\ \/ \A x \in Steps(program) : RolePlain(x)
              \/ \E u \in Users \ Registered, p \in Phones :
                   about = {p, u} /\ program = CompleteRegistration(u, p)
<1>1. PICK op, about, program :
        /\ Begin(r, op, about, program) /\ Program(program)
        /\ \/ AllOf(program, TRUE, TRUE)
           \/ \E u \in Users \ Registered, p \in Phones :
                Quiet(u) /\ about = {p, u} /\ program = CompleteRegistration(u, p)
           \/ \E u \in Registered : about = {u} /\ program \in {GenerateSecret(u), EnableTwoFactor(u)}
           \/ \E u \in Registered, c \in Codes : about = {u} /\ program \in {DisableWithRecovery(u, c), VerifyRecovery(u, c)}
           \/ \E b \in Bookings, by \in Users, rating \in Ratings :
                about = {b.renter, b.landlord} /\ program = CreateReview(b, by, rating)
           \/ \E u \in Registered : \E k \in Pages(u) : about = {u} /\ program = GetOrSet(k)
  BY Zenon DEF Comes
<1>2. CASE AllOf(program, TRUE, TRUE)
  BY <1>1, <1>2 DEF AllOf
<1>3. CASE \E u \in Users \ Registered, p \in Phones :
             Quiet(u) /\ about = {p, u} /\ program = CompleteRegistration(u, p)
  BY <1>1, <1>3
<1>4. CASE \E u \in Registered : about = {u} /\ program \in {GenerateSecret(u), EnableTwoFactor(u)}
  BY <1>1, <1>4, TwoFactorAll DEF AllOf, Registered
<1>5. CASE \E u \in Registered, c \in Codes : about = {u} /\ program \in {DisableWithRecovery(u, c), VerifyRecovery(u, c)}
  BY <1>1, <1>5, TwoFactorAll DEF AllOf, Registered
<1>6. CASE \E b \in Bookings, by \in Users, rating \in Ratings :
             about = {b.renter, b.landlord} /\ program = CreateReview(b, by, rating)
  <2>1. PICK b, by, rating : program = CreateReview(b, by, rating)
    BY <1>6
  <2>2. PICK x, y : x = <<"mayReview", b, by>> /\ y = <<"insertReview", b, by, rating>>
    OBVIOUS
  <2>3. Steps(program) = {x, y}
    BY <2>1, <2>2, ProgramOf2 DEF CreateReview
  <2>4. RolePlain(x) /\ RolePlain(y)
    BY <2>2 DEF RolePlain
  <2>5. QED
    BY <1>1, <2>3, <2>4
<1>7. CASE \E u \in Registered : \E k \in Pages(u) : about = {u} /\ program = GetOrSet(k)
  <2>1. PICK k : program = GetOrSet(k)
    BY <1>7
  <2>2. PICK x, y, z : x = <<"get", k>> /\ y = <<"select", k>> /\ z = <<"set", k>>
    OBVIOUS
  <2>3. Steps(program) = {x, y, z}
    BY <2>1, <2>2, GetOrSetSteps
  <2>4. RolePlain(x) /\ RolePlain(y) /\ RolePlain(z)
    BY <2>2 DEF RolePlain
  <2>5. QED
    BY <1>1, <2>3, <2>4
<1>8. QED
  BY <1>1, <1>2, <1>3, <1>4, <1>5, <1>6, <1>7

LEMMA IdleRegistersNobody ==
  ASSUME NEW r, req[r].todo = <<>>, NEW u, NEW n, Registering(r, u, n)
  PROVE  FALSE
<1>1. PICK p \in Phones : Rest(<<>>, CompleteRegistration(u, p), n)
  BY DEF Registering
<1>2. PICK s : s = CompleteRegistration(u, p)
  OBVIOUS
<1>3. Len(s) = 15 /\ Rest(<<>>, s, n)
  BY <1>1, <1>2, RegistrationIs
<1>4. Len(<<>>) = 15 - n /\ n \in 0..14 /\ Len(<<>>) = 0
  BY <1>3 DEF Rest, Begun
<1>5. QED
  BY <1>4

LEMMA ArriveSigns ==
  ASSUME AccountsTypes, Signing, NEW r \in Requests, Arrive(r)
  PROVE  Signing'
<1>1. Proper /\ Tables /\ UNCHANGED <<user, roles>>
  BY Arrives DEF AccountsTypes, Shaped, tables
<1>2. PICK op, about, program :
        /\ Begin(r, op, about, program) /\ Program(program)
        /\ \/ \A x \in Steps(program) : RolePlain(x)
           \/ \E u \in Users \ Registered, p \in Phones :
                about = {p, u} /\ program = CompleteRegistration(u, p)
  BY <1>1, ArriveComes, ComesPlain
<1>3. /\ Elsewhere(r) /\ req[r] = Idle /\ contended \subseteq contended' /\ Left(r)' = Steps(program)
      /\ req'[r].about = about /\ req'[r].todo = program
  <2>1. Start(r, op, about, program)
    BY <1>2 DEF Begin
  <2>2. /\ Elsewhere(r) /\ req[r] = Idle /\ contended' = contended \cup (about \cap Others(r))
        /\ Left(r)' = Steps(program)
        /\ req'[r] = [op |-> op, about |-> about, todo |-> program, got |-> <<>>]
    BY <1>1, <1>2, <2>1, Starts
  <2>3. QED
    BY <2>2
<1>4. \A u \in Users : roles'[u] = roles[u] /\ (u \in Registered' <=> u \in Registered)
  BY <1>1 DEF Registered
<1>5. \A q \in Requests \ {r} : Roleless(q)' \/ Registers(q)'
  BY <1>3, <1>4, OthersSign
<1>6. ASSUME NEW u \in Users, u \notin contended' PROVE WholeUser(u)'
  <2>1. WholeUser(u)
    BY <1>3, <1>6 DEF Signing
  <2>2. req[r].todo = <<>>
    BY <1>3 DEF Idle
  <2>3. \A n \in 1..9 : ~Registering(r, u, n)
    BY <2>2, IdleRegistersNobody
  <2>4. QED
    BY <1>3, <1>4, <2>1, <2>3, OthersWhole
<1>7. Roleless(r)' \/ Registers(r)'
  <2>1. CASE \A x \in Steps(program) : RolePlain(x)
    BY <1>3, <2>1 DEF Roleless
  <2>2. CASE \E u \in Users \ Registered, p \in Phones : about = {p, u} /\ program = CompleteRegistration(u, p)
    <3>1. PICK u \in Users, p \in Phones : u \notin Registered /\ about = {p, u} /\ program = CompleteRegistration(u, p)
      BY <2>2
    <3>2. Registering(r, u, 0)'
      <4>1. PICK s : s = CompleteRegistration(u, p)
        OBVIOUS
      <4>2. Len(s) = 15 /\ req'[r].todo = s /\ u \in req'[r].about
        BY <1>3, <3>1, <4>1, RegistrationIs
      <4>3. Rest(s, s, 0)
        BY <4>2 DEF Rest, Begun
      <4>4. QED
        BY <4>1, <4>2, <4>3 DEF Registering
    <3>3. u \notin contended' => Onway(r, u, 0)'
      BY <1>3, <1>4, <3>1 DEF Onway, RolesAfter, Signing, WholeUser
    <3>4. QED
      BY <3>2, <3>3 DEF Registers
  <2>3. QED
    BY <1>2, <2>1, <2>2
<1>8. QED
  BY <1>5, <1>6, <1>7 DEF Signing

LEMMA FaultSigns ==
  ASSUME AccountsTypes, Signing, NEW r \in Requests, UsersFault(r)
  PROVE  Signing'
<1>1. Proper /\ Fault(r) /\ UNCHANGED <<user, roles>>
  BY DEF AccountsTypes, Shaped, UsersFault
<1>2. Elsewhere(r) /\ Left(r)' = {} /\ contended' = contended \cup req[r].about
  BY <1>1, Faults
<1>3. \A u \in Users : roles'[u] = roles[u] /\ (u \in Registered' <=> u \in Registered)
  BY <1>1 DEF Registered
<1>4. \A q \in Requests \ {r} : Roleless(q)' \/ Registers(q)'
  BY <1>2, <1>3, OthersSign
<1>5. ASSUME NEW u \in Users, u \notin contended' PROVE WholeUser(u)'
  <2>1. WholeUser(u) /\ u \notin req[r].about
    BY <1>2, <1>5 DEF Signing
  <2>2. \A n \in 1..9 : ~Registering(r, u, n)
    BY <2>1 DEF Registering
  <2>3. QED
    BY <1>2, <1>3, <2>1, <2>2, OthersWhole
<1>6. Roleless(r)'
  BY <1>2 DEF Roleless
<1>7. QED
  BY <1>4, <1>5, <1>6 DEF Signing

LEMMA StutterSigns ==
  ASSUME Signing, UNCHANGED <<req, contended, user, roles>>
  PROVE  Signing'
<1>1. \A r \in Requests : (Roleless(r) => Roleless(r)') /\ \A u \in Users : \A n : Registering(r, u, n) => Registering(r, u, n)'
  BY DEF Roleless, Left, Registering
<1>2. ASSUME NEW r \in Requests, Registers(r) PROVE Registers(r)'
  <2>1. PICK u \in Users, n \in 0..14 : Registering(r, u, n) /\ (u \notin contended => Onway(r, u, n))
    BY <1>2 DEF Registers
  <2>2. Registering(r, u, n)' /\ (u \notin contended' => Onway(r, u, n)')
    BY <1>1, <2>1 DEF Onway, Registered, Got
  <2>3. QED
    BY <2>2 DEF Registers
<1>3. ASSUME NEW u \in Users \ contended PROVE WholeUser(u)'
  BY <1>1, <1>3 DEF Signing, WholeUser, Registered
<1>4. QED
  BY <1>1, <1>2, <1>3 DEF Signing

LEMMA InitSigns ==
  ASSUME Init
  PROVE  Signing
<1>1. HandlersInit /\ \A u \in Users : roles[u] = IF user[u] = NoRow THEN {} ELSE BothRoles
  BY DEF Init, UsersInit
<1>2. \A r \in Requests : Roleless(r)
  BY <1>1, NoneYet DEF Roleless
<1>3. \A u \in Users : WholeUser(u)
  BY <1>1 DEF WholeUser, Registered
<1>4. QED
  BY <1>2, <1>3 DEF Signing

\* A user has both roles when the registration is over, unless it failed on the way.
THEOREM RegisteredWhole == Spec => []RegisteredIsWhole
<1>1. Init => Signing
  BY InitSigns
<1>2. ASSUME AccountsTypes, Safe, Signing, [Next]_vars PROVE Signing'
  <2>1. CASE \E r \in Requests : Arrive(r) \/ Progress(r)
    BY <1>2, <2>1, ArriveSigns, ProgressSigns
  <2>2. CASE \E r \in Requests : UsersFault(r) /\ UNCHANGED <<spent, tokens, jwts, linkTokens, reviews>>
    BY <1>2, <2>2, FaultSigns
  <2>3. CASE Forget \/ UNCHANGED vars
    <3>1. UNCHANGED <<req, contended, user, roles>>
      BY <2>3 DEF Forget, UsersExpire, Expire, handlerVars, vars
    <3>2. QED
      BY <1>2, <3>1, StutterSigns
  <2>4. QED
    BY <1>2, <2>1, <2>2, <2>3 DEF Next
<1>3. ASSUME Signing PROVE RegisteredIsWhole
  <2>1. ASSUME NEW u \in Registered, Settled(u) PROVE roles[u] = BothRoles
    <3>1. u \in Users /\ u \notin contended /\ \A r \in Requests : u \notin req[r].about
      BY <2>1 DEF Registered, Settled, Quiet
    <3>2. \A r \in Requests, n \in 1..9 : ~Registering(r, u, n)
      BY <3>1 DEF Registering
    <3>3. QED
      BY <1>3, <2>1, <3>1, <3>2 DEF Signing, WholeUser
  <2>2. QED
    BY <2>1 DEF RegisteredIsWhole
<1>4. QED
  BY <1>1, <1>2, <1>3, AccountsKnown, PTL DEF Spec

-----------------------------------------------------------------------------
(* The scripts of two-factor authentication *)

LEMMA FindByIdIs ==
  ASSUME NEW u, NEW s, s = FindById(u)
  PROVE  /\ Program(s) /\ Len(s) = 6
         /\ s[1] = <<"get", ProfileKey(u)>> /\ s[2] = <<"select", ProfileKey(u)>>
         /\ s[3] = <<"set", ProfileKey(u)>> /\ s[4] = <<"get", StatusKey(u)>>
         /\ s[5] = <<"select", StatusKey(u)>> /\ s[6] = <<"set", StatusKey(u)>>
<1>1. PICK a, b : a = GetOrSet(ProfileKey(u)) /\ b = GetOrSet(StatusKey(u))
  OBVIOUS
<1>2. Program(a) /\ Program(b)
  BY <1>1, GetOrSetIs
<1>3. /\ Len(a) = 3 /\ a[1] = <<"get", ProfileKey(u)>> /\ a[2] = <<"select", ProfileKey(u)>>
      /\ a[3] = <<"set", ProfileKey(u)>>
  BY <1>1, GetOrSetIs
<1>4. /\ Len(b) = 3 /\ b[1] = <<"get", StatusKey(u)>> /\ b[2] = <<"select", StatusKey(u)>>
      /\ b[3] = <<"set", StatusKey(u)>>
  BY <1>1, GetOrSetIs
<1>5. Joined(s, a, b)
  BY <1>1, <1>2, JoinIs DEF FindById
<1>6. QED
  BY <1>3, <1>4, <1>5 DEF Joined

\* update, of columns that are not looked for.
LEMMA UpdateIs ==
  ASSUME NEW u, NEW patch, DOMAIN patch \cap {"phone", "tg"} = {}, NEW s, s = Update(u, patch)
  PROVE  /\ Program(s) /\ Len(s) = 8
         /\ s[1] = <<"get", ProfileKey(u)>> /\ s[2] = <<"select", ProfileKey(u)>>
         /\ s[3] = <<"set", ProfileKey(u)>> /\ s[4] = <<"get", StatusKey(u)>>
         /\ s[5] = <<"select", StatusKey(u)>> /\ s[6] = <<"set", StatusKey(u)>>
         /\ s[7] = <<"delete", ProfileKey(u)>> /\ s[8] = <<"save", u, patch>>
<1>1. PICK a, b : a = FindById(u) /\ b = <<<<"delete", ProfileKey(u)>>, <<"save", u, patch>>>>
  OBVIOUS
<1>2. Program(a) /\ Program(b)
  BY <1>1, FindByIdIs, ProgramOf2
<1>3. /\ Len(a) = 6
      /\ a[1] = <<"get", ProfileKey(u)>> /\ a[2] = <<"select", ProfileKey(u)>>
      /\ a[3] = <<"set", ProfileKey(u)>> /\ a[4] = <<"get", StatusKey(u)>>
      /\ a[5] = <<"select", StatusKey(u)>> /\ a[6] = <<"set", StatusKey(u)>>
  BY <1>1, FindByIdIs
<1>4. Len(b) = 2 /\ b[1] = <<"delete", ProfileKey(u)>> /\ b[2] = <<"save", u, patch>>
  BY <1>1
<1>5. LookedFor(patch) = {}
  BY DEF LookedFor
<1>6. s = <<>> \o a \o b
  BY <1>1, <1>5 DEF Update
<1>7. s = a \o b
  BY <1>2, <1>6, NoProgram
<1>8. Joined(s, a, b)
  BY <1>2, <1>7, JoinIs
<1>9. QED
  BY <1>3, <1>4, <1>8 DEF Joined

LEMMA GenerateIs ==
  ASSUME NEW u, NEW s, s = GenerateSecret(u)
  PROVE  /\ Program(s) /\ Len(s) = 8
         /\ s[1] = <<"get", ProfileKey(u)>> /\ s[2] = <<"select", ProfileKey(u)>>
         /\ s[3] = <<"set", ProfileKey(u)>> /\ s[4] = <<"get", StatusKey(u)>>
         /\ s[5] = <<"select", StatusKey(u)>> /\ s[6] = <<"set", StatusKey(u)>>
         /\ s[7] = <<"twoFaIs", u, FALSE>> /\ s[8] = <<"put", TempKey(u), TRUE>>
<1>1. PICK a, b : a = FindById(u) /\ b = <<<<"twoFaIs", u, FALSE>>, <<"put", TempKey(u), TRUE>>>>
  OBVIOUS
<1>2. Program(a) /\ Program(b)
  BY <1>1, FindByIdIs, ProgramOf2
<1>3. /\ Len(a) = 6
      /\ a[1] = <<"get", ProfileKey(u)>> /\ a[2] = <<"select", ProfileKey(u)>>
      /\ a[3] = <<"set", ProfileKey(u)>> /\ a[4] = <<"get", StatusKey(u)>>
      /\ a[5] = <<"select", StatusKey(u)>> /\ a[6] = <<"set", StatusKey(u)>>
  BY <1>1, FindByIdIs
<1>4. Len(b) = 2 /\ b[1] = <<"twoFaIs", u, FALSE>> /\ b[2] = <<"put", TempKey(u), TRUE>>
  BY <1>1
<1>5. Joined(s, a, b)
  BY <1>1, <1>2, JoinIs DEF GenerateSecret
<1>9. Len(b) = 2
  BY <1>4
<1>6. /\ Program(s) /\ Len(s) = 8 /\ \A i \in 1..6 : s[i] = a[i]
      /\ \A i \in 1..2, j \in Nat : j = 6 + i => s[j] = b[i]
  BY <1>3, <1>9, <1>5 DEF Joined
<1>7. /\ s[1] = a[1] /\ s[2] = a[2] /\ s[3] = a[3] /\ s[4] = a[4] /\ s[5] = a[5] /\ s[6] = a[6]
      /\ s[7] = b[1] /\ s[8] = b[2]
  BY <1>6
<1>8. QED
  BY <1>3, <1>4, <1>6, <1>7

LEMMA EnableIs ==
  ASSUME NEW u, NEW s, s = EnableTwoFactor(u)
  PROVE  /\ Program(s) /\ Len(s) = 27
         /\ s[1] = <<"get", ProfileKey(u)>> /\ s[2] = <<"select", ProfileKey(u)>>
         /\ s[3] = <<"set", ProfileKey(u)>> /\ s[4] = <<"get", StatusKey(u)>>
         /\ s[5] = <<"select", StatusKey(u)>> /\ s[6] = <<"set", StatusKey(u)>>
         /\ s[7] = <<"twoFaIs", u, FALSE>> /\ s[8] = <<"peek", TempKey(u)>>
         /\ s[9] = <<"verifyTemp">> /\ s[10] = <<"get", ProfileKey(u)>>
         /\ s[11] = <<"select", ProfileKey(u)>> /\ s[12] = <<"set", ProfileKey(u)>>
         /\ s[13] = <<"get", StatusKey(u)>> /\ s[14] = <<"select", StatusKey(u)>>
         /\ s[15] = <<"set", StatusKey(u)>> /\ s[16] = <<"delete", ProfileKey(u)>>
         /\ s[17] = <<"save", u, [twoFa |-> TRUE]>> /\ s[18] = <<"makeCodes", u>>
         /\ s[19] = <<"get", ProfileKey(u)>> /\ s[20] = <<"select", ProfileKey(u)>>
         /\ s[21] = <<"set", ProfileKey(u)>> /\ s[22] = <<"get", StatusKey(u)>>
         /\ s[23] = <<"select", StatusKey(u)>> /\ s[24] = <<"set", StatusKey(u)>>
         /\ s[25] = <<"delete", ProfileKey(u)>> /\ s[26] = <<"save", u, [codes |-> Codes]>>
         /\ s[27] = <<"delete", TempKey(u)>>
<1>1. PICK a, b, c, d, e, f :
        /\ a = FindById(u) /\ b = <<<<"twoFaIs", u, FALSE>>, <<"peek", TempKey(u)>>, <<"verifyTemp">>>>
        /\ c = Update(u, [twoFa |-> TRUE]) /\ d = <<<<"makeCodes", u>>>>
        /\ e = Update(u, [codes |-> Codes]) /\ f = <<<<"delete", TempKey(u)>>>>
  OBVIOUS
<1>2. Program(a) /\ Program(b) /\ Program(d) /\ Program(f)
  BY <1>1, FindByIdIs, ProgramOf1, ProgramOf3
<1>3. /\ Len(a) = 6
      /\ a[1] = <<"get", ProfileKey(u)>> /\ a[2] = <<"select", ProfileKey(u)>>
      /\ a[3] = <<"set", ProfileKey(u)>> /\ a[4] = <<"get", StatusKey(u)>>
      /\ a[5] = <<"select", StatusKey(u)>> /\ a[6] = <<"set", StatusKey(u)>>
  BY <1>1, FindByIdIs
<1>4. Len(b) = 3 /\ b[1] = <<"twoFaIs", u, FALSE>> /\ b[2] = <<"peek", TempKey(u)>> /\ b[3] = <<"verifyTemp">>
  BY <1>1
<1>5. /\ Program(c) /\ Len(c) = 8
      /\ c[1] = <<"get", ProfileKey(u)>> /\ c[2] = <<"select", ProfileKey(u)>>
      /\ c[3] = <<"set", ProfileKey(u)>> /\ c[4] = <<"get", StatusKey(u)>>
      /\ c[5] = <<"select", StatusKey(u)>> /\ c[6] = <<"set", StatusKey(u)>>
      /\ c[7] = <<"delete", ProfileKey(u)>> /\ c[8] = <<"save", u, [twoFa |-> TRUE]>>
  <2>1. PICK patch : patch = [twoFa |-> TRUE]
    OBVIOUS
  <2>2. DOMAIN patch \cap {"phone", "tg"} = {}
    BY <2>1
  <2>3. QED
    BY <1>1, <2>1, <2>2, UpdateIs
<1>6. /\ Program(e) /\ Len(e) = 8
      /\ e[1] = <<"get", ProfileKey(u)>> /\ e[2] = <<"select", ProfileKey(u)>>
      /\ e[3] = <<"set", ProfileKey(u)>> /\ e[4] = <<"get", StatusKey(u)>>
      /\ e[5] = <<"select", StatusKey(u)>> /\ e[6] = <<"set", StatusKey(u)>>
      /\ e[7] = <<"delete", ProfileKey(u)>> /\ e[8] = <<"save", u, [codes |-> Codes]>>
  <2>1. PICK patch : patch = [codes |-> Codes]
    OBVIOUS
  <2>2. DOMAIN patch \cap {"phone", "tg"} = {}
    BY <2>1
  <2>3. QED
    BY <1>1, <2>1, <2>2, UpdateIs
<1>7. Len(d) = 1 /\ d[1] = <<"makeCodes", u>> /\ Len(f) = 1 /\ f[1] = <<"delete", TempKey(u)>>
  BY <1>1
<1>8. PICK ab, abc, abcd, abcde : ab = a \o b /\ abc = ab \o c /\ abcd = abc \o d /\ abcde = abcd \o e
  OBVIOUS
<1>9. Program(c) /\ Program(e)
  BY <1>5, <1>6
<1>10. Joined(ab, a, b) /\ Program(ab)
  <2>1. Joined(ab, a, b)
    BY <1>2, <1>8, JoinIs
  <2>2. QED
    BY <2>1 DEF Joined
<1>11. Joined(abc, ab, c) /\ Program(abc)
  <2>1. Joined(abc, ab, c)
    BY <1>8, <1>9, <1>10, JoinIs
  <2>2. QED
    BY <2>1 DEF Joined
<1>12. Joined(abcd, abc, d) /\ Program(abcd)
  <2>1. Joined(abcd, abc, d)
    BY <1>2, <1>8, <1>11, JoinIs
  <2>2. QED
    BY <2>1 DEF Joined
<1>13. Joined(abcde, abcd, e) /\ Program(abcde)
  <2>1. Joined(abcde, abcd, e)
    BY <1>8, <1>9, <1>12, JoinIs
  <2>2. QED
    BY <2>1 DEF Joined
<1>14. Joined(s, abcde, f)
  <2>1. s = abcde \o f
    BY <1>1, <1>8 DEF EnableTwoFactor
  <2>2. QED
    BY <1>2, <1>13, <2>1, JoinIs
<1>15. Len(ab) = 9 /\ (\A i \in 1..6 : ab[i] = a[i]) /\ \A i \in 1..3, j \in Nat : j = 6 + i => ab[j] = b[i]
  BY <1>3, <1>4, <1>10 DEF Joined
<1>16. Len(abc) = 17 /\ (\A i \in 1..9 : abc[i] = ab[i]) /\ \A i \in 1..8, j \in Nat : j = 9 + i => abc[j] = c[i]
  BY <1>5, <1>11, <1>15 DEF Joined
<1>17. Len(abcd) = 18 /\ (\A i \in 1..17 : abcd[i] = abc[i]) /\ abcd[18] = d[1]
  BY <1>7, <1>12, <1>16 DEF Joined
<1>18. Len(abcde) = 26 /\ (\A i \in 1..18 : abcde[i] = abcd[i]) /\ \A i \in 1..8, j \in Nat : j = 18 + i => abcde[j] = e[i]
  BY <1>6, <1>13, <1>17 DEF Joined
<1>19. Program(s) /\ Len(s) = 27 /\ (\A i \in 1..26 : s[i] = abcde[i]) /\ s[27] = f[1]
  BY <1>7, <1>14, <1>18 DEF Joined
<1>20. \A i \in 1..6 : s[i] = a[i]
  BY <1>15, <1>16, <1>17, <1>18, <1>19
<1>21. \A i \in 1..3, j \in Nat : j = 6 + i => s[j] = b[i]
  BY <1>15, <1>16, <1>17, <1>18, <1>19
<1>22. \A i \in 1..8, j \in Nat : j = 9 + i => s[j] = c[i]
  BY <1>16, <1>17, <1>18, <1>19
<1>23. s[18] = d[1] /\ \A i \in 1..8, j \in Nat : j = 18 + i => s[j] = e[i]
  BY <1>17, <1>18, <1>19
<1>24. /\ s[1] = a[1] /\ s[2] = a[2] /\ s[3] = a[3] /\ s[4] = a[4] /\ s[5] = a[5] /\ s[6] = a[6]
       /\ s[7] = b[1] /\ s[8] = b[2] /\ s[9] = b[3]
  BY <1>20, <1>21
<1>26. /\ s[10] = c[1] /\ s[11] = c[2] /\ s[12] = c[3] /\ s[13] = c[4] /\ s[14] = c[5] /\ s[15] = c[6]
       /\ s[16] = c[7] /\ s[17] = c[8]
  BY <1>22
<1>27. /\ s[19] = e[1] /\ s[20] = e[2] /\ s[21] = e[3] /\ s[22] = e[4] /\ s[23] = e[5] /\ s[24] = e[6]
       /\ s[25] = e[7] /\ s[26] = e[8]
  BY <1>23
<1>28. /\ s[1] = <<"get", ProfileKey(u)>> /\ s[2] = <<"select", ProfileKey(u)>>
       /\ s[3] = <<"set", ProfileKey(u)>> /\ s[4] = <<"get", StatusKey(u)>>
       /\ s[5] = <<"select", StatusKey(u)>> /\ s[6] = <<"set", StatusKey(u)>>
       /\ s[7] = <<"twoFaIs", u, FALSE>> /\ s[8] = <<"peek", TempKey(u)>> /\ s[9] = <<"verifyTemp">>
  BY <1>3, <1>4, <1>24
<1>29. /\ s[10] = <<"get", ProfileKey(u)>> /\ s[11] = <<"select", ProfileKey(u)>>
       /\ s[12] = <<"set", ProfileKey(u)>> /\ s[13] = <<"get", StatusKey(u)>>
       /\ s[14] = <<"select", StatusKey(u)>> /\ s[15] = <<"set", StatusKey(u)>>
       /\ s[16] = <<"delete", ProfileKey(u)>> /\ s[17] = <<"save", u, [twoFa |-> TRUE]>>
  BY <1>5, <1>26
<1>30. /\ s[18] = <<"makeCodes", u>>
       /\ s[19] = <<"get", ProfileKey(u)>> /\ s[20] = <<"select", ProfileKey(u)>>
       /\ s[21] = <<"set", ProfileKey(u)>> /\ s[22] = <<"get", StatusKey(u)>>
       /\ s[23] = <<"select", StatusKey(u)>> /\ s[24] = <<"set", StatusKey(u)>>
       /\ s[25] = <<"delete", ProfileKey(u)>> /\ s[26] = <<"save", u, [codes |-> Codes]>>
       /\ s[27] = <<"delete", TempKey(u)>>
  BY <1>6, <1>7, <1>19, <1>23, <1>27
<1>25. QED
  BY <1>19, <1>28, <1>29, <1>30

-----------------------------------------------------------------------------
(* Secrets and codes *)

NoTemp(u) == TempKey(u) \notin DOMAIN cache
Coherent(u) ==
  /\ user[u].codes # {} => user[u].twoFa
  /\ user[u].codes \cap spent[u] = {}
  /\ user[u].twoFa => NoTemp(u)

\* The step x leaves what is said of the user u alone, or clears it, or uses a code.
Spares(x, u) ==
  /\ x[1] = "makeCodes" => x[2] # u
  /\ x[1] = "put" => x[2] # TempKey(u)
  /\ x[1] = "save" /\ x[2] = u => DOMAIN x[3] \cap {"twoFa", "codes"} = {} \/ x[3] = Cleared
SparesUser(r, u) == \A x \in Left(r) : Spares(x, u)

\* The program q is n steps into a script, after which it spares the user.
Follows(q, script, n, u) ==
  Begun(q, script, n) /\ \A i \in DOMAIN q : i > Len(script) - n => Spares(q[i], u)

\* What a request knows on the way to the save that enables two-factor authentication: first nothing, ...
HasProfile(r, u) == "profile" \in DOMAIN req[r].got /\ req[r].got["profile"].twoFa = user[u].twoFa
Off(r, u, n) ==
  /\ Coherent(u)
  /\ n \in 2..6 => HasProfile(r, u)
  /\ n >= 7 => ~user[u].twoFa
\* ... and on the way from there.
On(u, n) == user[u].twoFa /\ (n >= 18 => spent[u] = {})

Generates(r, u) == \E n \in 0..7 : Follows(req[r].todo, GenerateSecret(u), n, u) /\ Off(r, u, n)
Enables(r, u) ==
  \E n \in 0..26 : /\ Follows(req[r].todo, EnableTwoFactor(u), n, u)
                   /\ IF n <= 16 THEN Off(r, u, n) ELSE On(u, n)
\* The list without the code that was used is to be saved.
Spends(r, u) ==
  \E n \in 0..7, rest \in SUBSET Codes :
    /\ Follows(req[r].todo, Update(u, [codes |-> rest]), n, u)
    /\ user[u].twoFa /\ rest \cap spent[u] = {} /\ NoTemp(u)
Busy(r, u) == u \in req[r].about /\ (Generates(r, u) \/ Enables(r, u) \/ Spends(r, u))

\* A user whom no requests raced about is as it should be and spared, or one request is busy with the user.
Fine(u) ==
  \/ /\ u \in Registered => Coherent(u)
     /\ \A r \in Requests : SparesUser(r, u)
  \/ u \in Registered /\ \E r \in Requests : Busy(r, u)
Coding == \A u \in Users \ contended : Fine(u)

\* A program that follows a script goes on.
LEMMA FollowsOn ==
  ASSUME NEW q, Program(q), NEW s, Len(s) \in Nat, NEW n, NEW u, Follows(q, s, n, u)
  PROVE  /\ q # <<>> /\ q[1] = s[n + 1] /\ n \in 0..Len(s) - 1
         /\ IF n + 1 < Len(s) THEN Follows(Tail(q), s, n + 1, u)
            ELSE \A x \in Steps(Tail(q)) : Spares(x, u)
         /\ n + 3 < Len(s) => /\ Program(SubSeq(q, 4, Len(q)))
                              /\ Follows(SubSeq(q, 4, Len(q)), s, n + 3, u)
<1>1. Begun(q, s, n) /\ \A i \in DOMAIN q : i > Len(s) - n => Spares(q[i], u)
  BY DEF Follows
<1>2. /\ q # <<>> /\ q[1] = s[n + 1] /\ n \in 0..Len(s) - 1
      /\ n + 1 < Len(s) => Begun(Tail(q), s, n + 1)
  <2>1. PICK k : k = Len(s)
    OBVIOUS
  <2>2. q # <<>> /\ q[1] = s[n + 1] /\ (n + 1 < k => Begun(Tail(q), s, n + 1))
    BY <1>1, <2>1, BegunStep
  <2>3. QED
    BY <1>1, <2>1, <2>2 DEF Begun
<1>3. \A i \in DOMAIN Tail(q) : i + 1 \in DOMAIN q /\ Tail(q)[i] = q[i + 1] /\ i \in Nat
  <2>1. /\ \A i \in DOMAIN Tail(q) : i + 1 \in DOMAIN q /\ Tail(q)[i] = q[i + 1]
        /\ Len(Tail(q)) = Len(q) - 1 /\ Len(q) \in Nat \ {0} /\ DOMAIN Tail(q) = 1..Len(Tail(q))
    BY <1>2, ProgramTail
  <2>2. QED
    BY <2>1
<1>4. ASSUME n + 1 < Len(s) PROVE Follows(Tail(q), s, n + 1, u)
  <2>1. ASSUME NEW i \in DOMAIN Tail(q), i > Len(s) - (n + 1) PROVE Spares(Tail(q)[i], u)
    <3>1. i + 1 > Len(s) - n
      BY <1>2, <1>3, <2>1
    <3>2. QED
      BY <1>1, <1>3, <3>1
  <2>2. PICK t, m : t = Tail(q) /\ m = n + 1
    OBVIOUS
  <2>3. Begun(t, s, m) /\ \A i \in DOMAIN t : i > Len(s) - m => Spares(t[i], u)
    BY <1>2, <1>4, <2>1, <2>2
  <2>4. Follows(t, s, m, u)
    BY <2>3 DEF Follows
  <2>5. QED
    BY <1>4, <2>2, <2>4
<1>5. ASSUME ~(n + 1 < Len(s)) PROVE \A x \in Steps(Tail(q)) : Spares(x, u)
  <2>1. ASSUME NEW i \in DOMAIN Tail(q) PROVE Spares(Tail(q)[i], u)
    <3>1. i \in Nat /\ i >= 1
      <4>1. DOMAIN Tail(q) = 1..Len(Tail(q)) /\ Len(Tail(q)) = Len(q) - 1 /\ Len(q) \in Nat \ {0}
        BY <1>2, ProgramTail
      <4>2. QED
        BY <2>1, <4>1
    <3>2. i + 1 > Len(s) - n
      BY <1>2, <1>5, <3>1
    <3>3. QED
      BY <1>1, <1>3, <2>1, <3>2
  <2>2. PICK t : t = Tail(q)
    OBVIOUS
  <2>3. \A x \in Steps(t) : Spares(x, u)
    BY <2>1, <2>2 DEF Steps
  <2>4. QED
    BY <1>5, <2>2, <2>3
<1>6. ASSUME n + 3 < Len(s) PROVE Program(SubSeq(q, 4, Len(q))) /\ Follows(SubSeq(q, 4, Len(q)), s, n + 3, u)
  <2>1. PICK z : z = SubSeq(q, 4, Len(q))
    OBVIOUS
  <2>2. 3 \in DOMAIN q /\ Program(z) /\ Begun(z, s, n + 3)
    <3>1. n + 3 <= Len(s) /\ n + 3 < Len(s)
      BY <1>2, <1>6
    <3>2. 3 \in DOMAIN q /\ Program(z)
      BY <1>1, <2>1, <3>1, BegunSkip
    <3>3. Begun(z, s, n + 3)
      BY <1>1, <2>1, <3>1, BegunSkip
    <3>4. QED
      BY <3>2, <3>3
  <2>3. /\ Len(z) = Len(q) - 3 /\ DOMAIN z = 1..Len(z) /\ Len(q) \in Nat
        /\ \A i \in DOMAIN z : i + 3 \in DOMAIN q /\ z[i] = q[i + 3]
    BY <2>1, <2>2, SkipOf
  <2>4. ASSUME NEW i \in DOMAIN z, i > Len(s) - (n + 3) PROVE Spares(z[i], u)
    <3>1. i \in Nat
      <4>1. Len(z) \in Int
        BY <2>3
      <4>2. QED
        BY <2>3, <2>4, <4>1
    <3>2. i + 3 > Len(s) - n
      BY <1>2, <2>4, <3>1
    <3>3. QED
      BY <1>1, <2>3, <3>2
  <2>5. QED
    BY <2>1, <2>2, <2>4 DEF Follows
<1>7. QED
  BY <1>2, <1>4, <1>5, <1>6

\* A step leaves the request at the next step of its script, or at the end of it.
LEMMA FollowingGoes ==
  ASSUME AccountsTypes, NEW r \in Requests, NEW s, Len(s) \in Nat, NEW n, NEW u, Follows(req[r].todo, s, n, u)
  PROVE  /\ req[r].todo # <<>> /\ n \in 0..Len(s) - 1 /\ req[r].todo[1] = s[n + 1]
         /\ req'[r].todo = Tail(req[r].todo) =>
              IF n + 1 < Len(s) THEN Follows(req'[r].todo, s, n + 1, u) ELSE SparesUser(r, u)'
         /\ req'[r].todo = SubSeq(req[r].todo, 4, Len(req[r].todo)) /\ n + 3 < Len(s) =>
              Follows(req'[r].todo, s, n + 3, u)
         /\ req'[r].todo = <<>> => SparesUser(r, u)'
<1>1. PICK q : q = req[r].todo
  OBVIOUS
<1>2. Program(q)
  BY <1>1 DEF AccountsTypes, Shaped, Proper
<1>3. /\ q # <<>> /\ q[1] = s[n + 1] /\ n \in 0..Len(s) - 1
      /\ IF n + 1 < Len(s) THEN Follows(Tail(q), s, n + 1, u)
         ELSE \A x \in Steps(Tail(q)) : Spares(x, u)
  BY <1>1, <1>2, FollowsOn
<1>4. n + 3 < Len(s) => Follows(SubSeq(q, 4, Len(q)), s, n + 3, u)
  BY <1>1, <1>2, FollowsOn
<1>5. req'[r].todo = <<>> => SparesUser(r, u)'
  BY NoProgram DEF SparesUser, Left
<1>6. req'[r].todo = Tail(q) =>
        IF n + 1 < Len(s) THEN Follows(req'[r].todo, s, n + 1, u) ELSE SparesUser(r, u)'
  BY <1>3 DEF SparesUser, Left
<1>7. QED
  BY <1>1, <1>3, <1>4, <1>5, <1>6

\* The request has taken a step and goes on.
LEMMA FollowingDone ==
  ASSUME AccountsTypes, NEW r \in Requests, NEW s, Len(s) \in Nat, NEW n, NEW u, u \in req[r].about,
         Follows(req[r].todo, s, n, u), NEW got, Goes(r, Tail(req[r].todo), got)
  PROVE  /\ Elsewhere(r) /\ contended' = contended
         /\ IF n + 1 < Len(s)
              THEN Follows(req'[r].todo, s, n + 1, u) /\ u \in req'[r].about /\ req'[r].got = got
              ELSE SparesUser(r, u)'
<1>1. Proper /\ req[r].todo # <<>>
  BY FollowingGoes DEF AccountsTypes, Shaped
<1>2. /\ Elsewhere(r) /\ contended' = contended /\ req'[r].todo = Tail(req[r].todo)
      /\ req'[r] # Idle => req'[r].about = req[r].about /\ req'[r].got = got
  BY <1>1, Continues DEF Went
<1>3. IF n + 1 < Len(s) THEN Follows(req'[r].todo, s, n + 1, u) ELSE SparesUser(r, u)'
  BY <1>2, FollowingGoes
<1>4. ASSUME n + 1 < Len(s) PROVE req'[r] # Idle
  <2>1. Follows(req'[r].todo, s, n + 1, u) /\ Program(req'[r].todo)
    <3>1. Program(Tail(req[r].todo))
      BY <1>1, ProgramTail DEF Proper
    <3>2. QED
      BY <1>2, <1>3, <1>4, <3>1
  <2>2. req'[r].todo # <<>>
    BY <2>1, FollowsOn
  <2>3. QED
    BY <2>2 DEF Idle
<1>5. QED
  BY <1>2, <1>3, <1>4

\* Who is thrown out spares everybody.
LEMMA ThrownSpares ==
  ASSUME AccountsTypes, NEW r \in Requests, Throw(r), NEW u
  PROVE  Elsewhere(r) /\ contended' = contended /\ SparesUser(r, u)'
BY Throws DEF AccountsTypes, Shaped, SparesUser, Thrown

\* A step that reads the user or forgets the profile.
Reading(h, u) ==
  \/ h[1] \in Reads /\ h[2] \in {ProfileKey(u), StatusKey(u)}
  \/ h = <<"delete", ProfileKey(u)>>

\* findById, at some place of a script.
FindsAt(s, m, u) ==
  /\ s[m + 1] = <<"get", ProfileKey(u)>> /\ s[m + 2] = <<"select", ProfileKey(u)>>
  /\ s[m + 3] = <<"set", ProfileKey(u)>> /\ s[m + 4] = <<"get", StatusKey(u)>>
  /\ s[m + 5] = <<"select", StatusKey(u)>> /\ s[m + 6] = <<"set", StatusKey(u)>>

LEMMA FindByIdAt ==
  ASSUME NEW u, NEW s, NEW m \in Nat, FindsAt(s, m, u), NEW n \in Nat, m <= n, n <= m + 5, NEW h, h = s[n + 1]
  PROVE  Reading(h, u) /\ (h[1] = "get" <=> n \in {m, m + 3})
<1>1. PICK p, q : p = ProfileKey(u) /\ q = StatusKey(u)
  OBVIOUS
<1>2. /\ n = m => h = <<"get", p>>
      /\ n = m + 1 => h = <<"select", p>>
      /\ n = m + 2 => h = <<"set", p>>
      /\ n = m + 3 => h = <<"get", q>>
      /\ n = m + 4 => h = <<"select", q>>
      /\ n = m + 5 => h = <<"set", q>>
  BY <1>1 DEF FindsAt
<1>3. n = m \/ n = m + 1 \/ n = m + 2 \/ n = m + 3 \/ n = m + 4 \/ n = m + 5
  OBVIOUS
<1>4. h[1] \in Reads /\ h[2] \in {p, q}
  BY <1>2, <1>3 DEF Reads
<1>5. h[1] = "get" <=> n \in {m, m + 3}
  <2>1. n = m \/ n = m + 3 => h[1] = "get"
    BY <1>2
  <2>2. n = m + 1 \/ n = m + 2 \/ n = m + 4 \/ n = m + 5 => h[1] # "get"
    BY <1>2
  <2>3. QED
    BY <1>3, <2>1, <2>2
<1>6. QED
  BY <1>1, <1>4, <1>5 DEF Reading

\* What the steps of the scripts are.
OfGenerate(h, n, u) ==
  /\ n \in 0..5 => Reading(h, u) /\ (h[1] = "get" <=> n \in {0, 3})
  /\ n = 0 => h[2] = ProfileKey(u)
  /\ n = 1 => h = <<"select", ProfileKey(u)>>
  /\ n = 6 => h = <<"twoFaIs", u, FALSE>>
  /\ n = 7 => h = <<"put", TempKey(u), TRUE>>
OfUpdate(h, n, u, patch) ==
  /\ n \in 0..6 => Reading(h, u) /\ (h[1] = "get" <=> n \in {0, 3})
  /\ n = 7 => h = <<"save", u, patch>>
OfEnable(h, n, u) ==
  /\ n \in 0..5 \cup 9..15 \cup 18..24 =>
       Reading(h, u) /\ (h[1] = "get" <=> n \in {0, 3, 9, 12, 18, 21})
  /\ n = 0 => h[2] = ProfileKey(u)
  /\ n = 1 => h = <<"select", ProfileKey(u)>>
  /\ n = 6 => h = <<"twoFaIs", u, FALSE>>
  /\ n = 7 => h = <<"peek", TempKey(u)>>
  /\ n = 8 => h = <<"verifyTemp">>
  /\ n = 16 => h = <<"save", u, [twoFa |-> TRUE]>>
  /\ n = 17 => h = <<"makeCodes", u>>
  /\ n = 25 => h = <<"save", u, [codes |-> Codes]>>
  /\ n = 26 => h = <<"delete", TempKey(u)>>

\* Where the scripts are.
LEMMA GenerateAt ==
  ASSUME NEW u, NEW s, s = GenerateSecret(u), NEW n, n \in 0..Len(s) - 1, NEW h, h = s[n + 1]
  PROVE  Len(s) = 8 /\ n \in 0..7 /\ OfGenerate(h, n, u)
<1>1. Len(s) = 8 /\ n \in 0..7
  <2>1. Len(s) = 8
    BY GenerateIs
  <2>2. QED
    BY <2>1
<1>2. /\ s[1] = <<"get", ProfileKey(u)>> /\ s[2] = <<"select", ProfileKey(u)>>
      /\ s[3] = <<"set", ProfileKey(u)>> /\ s[4] = <<"get", StatusKey(u)>>
      /\ s[5] = <<"select", StatusKey(u)>> /\ s[6] = <<"set", StatusKey(u)>>
  BY GenerateIs
<1>3. s[7] = <<"twoFaIs", u, FALSE>> /\ s[8] = <<"put", TempKey(u), TRUE>>
  BY GenerateIs
<1>4. n \in 0..5 => Reading(h, u) /\ (h[1] = "get" <=> n \in {0, 3})
  <2>1. FindsAt(s, 0, u)
    BY <1>2 DEF FindsAt
  <2>2. SUFFICES ASSUME n \in 0..5 PROVE Reading(h, u) /\ (h[1] = "get" <=> n \in {0, 3})
    OBVIOUS
  <2>3. PICK m, t, k, g, v : m \in Nat /\ m = 0 /\ t = s /\ k = n /\ g = h /\ v = u
    OBVIOUS
  <2>4. FindsAt(t, m, v) /\ k \in Nat /\ m <= k /\ k <= m + 5 /\ g = t[k + 1]
    BY <2>1, <2>2, <2>3
  <2>5. Reading(g, v) /\ (g[1] = "get" <=> k \in {m, m + 3})
    <3>1. m \in Nat /\ FindsAt(t, m, v) /\ k \in Nat /\ m <= k /\ k <= m + 5 /\ g = t[k + 1]
      BY <2>3, <2>4
    <3>2. Reading(g, v)
      BY ONLY <3>1, FindByIdAt
    <3>3. g[1] = "get" <=> k \in {m, m + 3}
      BY ONLY <3>1, FindByIdAt
    <3>4. QED
      BY <3>2, <3>3
  <2>6. QED
    BY <2>3, <2>5
<1>5. n = 0 => h[2] = ProfileKey(u)
  BY <1>2
<1>6. n = 1 => h = <<"select", ProfileKey(u)>>
  BY <1>2
<1>7. n = 6 => h = <<"twoFaIs", u, FALSE>>
  <2>1. PICK x : x = <<"twoFaIs", u, FALSE>>
    OBVIOUS
  <2>2. s[7] = x
    BY <1>3, <2>1
  <2>3. n = 6 => h = x
    BY <2>2
  <2>4. QED
    BY <2>1, <2>3, Zenon
<1>8. n = 7 => h = <<"put", TempKey(u), TRUE>>
  <2>1. PICK x : x = <<"put", TempKey(u), TRUE>>
    OBVIOUS
  <2>2. s[8] = x
    BY <1>3, <2>1
  <2>3. n = 7 => h = x
    BY <2>2
  <2>4. QED
    BY <2>1, <2>3, Zenon
<1>9. QED
  BY <1>1, <1>4, <1>5, <1>6, <1>7, <1>8 DEF OfGenerate

LEMMA UpdateAt ==
  ASSUME NEW u, NEW patch, DOMAIN patch \cap {"phone", "tg"} = {}, NEW s, s = Update(u, patch),
         NEW n, n \in 0..Len(s) - 1, NEW h, h = s[n + 1]
  PROVE  Len(s) = 8 /\ n \in 0..7 /\ OfUpdate(h, n, u, patch)
<1>1. Len(s) = 8 /\ n \in 0..7
  <2>1. Len(s) = 8
    BY UpdateIs
  <2>2. QED
    BY <2>1
<1>2. /\ s[1] = <<"get", ProfileKey(u)>> /\ s[2] = <<"select", ProfileKey(u)>>
      /\ s[3] = <<"set", ProfileKey(u)>> /\ s[4] = <<"get", StatusKey(u)>>
      /\ s[5] = <<"select", StatusKey(u)>> /\ s[6] = <<"set", StatusKey(u)>>
  BY UpdateIs
<1>3. s[7] = <<"delete", ProfileKey(u)>> /\ s[8] = <<"save", u, patch>>
  BY UpdateIs
<1>4. n \in 0..5 => Reading(h, u) /\ (h[1] = "get" <=> n \in {0, 3})
  <2>1. FindsAt(s, 0, u)
    BY <1>2 DEF FindsAt
  <2>2. SUFFICES ASSUME n \in 0..5 PROVE Reading(h, u) /\ (h[1] = "get" <=> n \in {0, 3})
    OBVIOUS
  <2>3. PICK m, t, k, g, v : m \in Nat /\ m = 0 /\ t = s /\ k = n /\ g = h /\ v = u
    OBVIOUS
  <2>4. FindsAt(t, m, v) /\ k \in Nat /\ m <= k /\ k <= m + 5 /\ g = t[k + 1]
    BY <2>1, <2>2, <2>3
  <2>5. Reading(g, v) /\ (g[1] = "get" <=> k \in {m, m + 3})
    <3>1. m \in Nat /\ FindsAt(t, m, v) /\ k \in Nat /\ m <= k /\ k <= m + 5 /\ g = t[k + 1]
      BY <2>3, <2>4
    <3>2. Reading(g, v)
      BY ONLY <3>1, FindByIdAt
    <3>3. g[1] = "get" <=> k \in {m, m + 3}
      BY ONLY <3>1, FindByIdAt
    <3>4. QED
      BY <3>2, <3>3
  <2>6. QED
    BY <2>3, <2>5
<1>5. n = 6 => Reading(h, u) /\ h[1] # "get"
  BY <1>3 DEF Reading
<1>6. n = 7 => h = <<"save", u, patch>>
  BY <1>3
<1>7. QED
  BY <1>1, <1>4, <1>5, <1>6 DEF OfUpdate

LEMMA EnableAt ==
  ASSUME NEW u, NEW s, s = EnableTwoFactor(u), NEW n, n \in 0..Len(s) - 1, NEW h, h = s[n + 1]
  PROVE  Len(s) = 27 /\ n \in 0..26 /\ OfEnable(h, n, u)
<1>1. Len(s) = 27 /\ n \in 0..26
  <2>1. Len(s) = 27
    BY EnableIs
  <2>2. QED
    BY <2>1
<1>2. /\ s[1] = <<"get", ProfileKey(u)>> /\ s[2] = <<"select", ProfileKey(u)>>
      /\ s[3] = <<"set", ProfileKey(u)>> /\ s[4] = <<"get", StatusKey(u)>>
      /\ s[5] = <<"select", StatusKey(u)>> /\ s[6] = <<"set", StatusKey(u)>>
  BY EnableIs
<1>3. s[7] = <<"twoFaIs", u, FALSE>> /\ s[8] = <<"peek", TempKey(u)>> /\ s[9] = <<"verifyTemp">>
  BY EnableIs
<1>4. /\ s[10] = <<"get", ProfileKey(u)>> /\ s[11] = <<"select", ProfileKey(u)>>
      /\ s[12] = <<"set", ProfileKey(u)>> /\ s[13] = <<"get", StatusKey(u)>>
      /\ s[14] = <<"select", StatusKey(u)>> /\ s[15] = <<"set", StatusKey(u)>>
  BY EnableIs
<1>5. /\ s[16] = <<"delete", ProfileKey(u)>> /\ s[17] = <<"save", u, [twoFa |-> TRUE]>>
      /\ s[18] = <<"makeCodes", u>>
  BY EnableIs
<1>6. /\ s[19] = <<"get", ProfileKey(u)>> /\ s[20] = <<"select", ProfileKey(u)>>
      /\ s[21] = <<"set", ProfileKey(u)>> /\ s[22] = <<"get", StatusKey(u)>>
      /\ s[23] = <<"select", StatusKey(u)>> /\ s[24] = <<"set", StatusKey(u)>>
  BY EnableIs
<1>7. /\ s[25] = <<"delete", ProfileKey(u)>> /\ s[26] = <<"save", u, [codes |-> Codes]>>
      /\ s[27] = <<"delete", TempKey(u)>>
  BY EnableIs
<1>8. n \in 0..5 => Reading(h, u) /\ (h[1] = "get" <=> n \in {0, 3})
  <2>1. FindsAt(s, 0, u)
    BY <1>2 DEF FindsAt
  <2>2. SUFFICES ASSUME n \in 0..5 PROVE Reading(h, u) /\ (h[1] = "get" <=> n \in {0, 3})
    OBVIOUS
  <2>3. PICK m, t, k, g, v : m \in Nat /\ m = 0 /\ t = s /\ k = n /\ g = h /\ v = u
    OBVIOUS
  <2>4. FindsAt(t, m, v) /\ k \in Nat /\ m <= k /\ k <= m + 5 /\ g = t[k + 1]
    BY <2>1, <2>2, <2>3
  <2>5. Reading(g, v) /\ (g[1] = "get" <=> k \in {m, m + 3})
    <3>1. m \in Nat /\ FindsAt(t, m, v) /\ k \in Nat /\ m <= k /\ k <= m + 5 /\ g = t[k + 1]
      BY <2>3, <2>4
    <3>2. Reading(g, v)
      BY ONLY <3>1, FindByIdAt
    <3>3. g[1] = "get" <=> k \in {m, m + 3}
      BY ONLY <3>1, FindByIdAt
    <3>4. QED
      BY <3>2, <3>3
  <2>6. QED
    BY <2>3, <2>5
<1>9. n \in 9..14 => Reading(h, u) /\ (h[1] = "get" <=> n \in {9, 12})
  <2>1. FindsAt(s, 9, u)
    BY <1>4 DEF FindsAt
  <2>2. SUFFICES ASSUME n \in 9..14 PROVE Reading(h, u) /\ (h[1] = "get" <=> n \in {9, 12})
    OBVIOUS
  <2>3. PICK m, t, k, g, v : m \in Nat /\ m = 9 /\ t = s /\ k = n /\ g = h /\ v = u
    OBVIOUS
  <2>4. FindsAt(t, m, v) /\ k \in Nat /\ m <= k /\ k <= m + 5 /\ g = t[k + 1]
    BY <2>1, <2>2, <2>3
  <2>5. Reading(g, v) /\ (g[1] = "get" <=> k \in {m, m + 3})
    <3>1. m \in Nat /\ FindsAt(t, m, v) /\ k \in Nat /\ m <= k /\ k <= m + 5 /\ g = t[k + 1]
      BY <2>3, <2>4
    <3>2. Reading(g, v)
      BY ONLY <3>1, FindByIdAt
    <3>3. g[1] = "get" <=> k \in {m, m + 3}
      BY ONLY <3>1, FindByIdAt
    <3>4. QED
      BY <3>2, <3>3
  <2>6. QED
    BY <2>3, <2>5
<1>10. n \in 18..23 => Reading(h, u) /\ (h[1] = "get" <=> n \in {18, 21})
  <2>1. FindsAt(s, 18, u)
    BY <1>6 DEF FindsAt
  <2>2. SUFFICES ASSUME n \in 18..23 PROVE Reading(h, u) /\ (h[1] = "get" <=> n \in {18, 21})
    OBVIOUS
  <2>3. PICK m, t, k, g, v : m \in Nat /\ m = 18 /\ t = s /\ k = n /\ g = h /\ v = u
    OBVIOUS
  <2>4. FindsAt(t, m, v) /\ k \in Nat /\ m <= k /\ k <= m + 5 /\ g = t[k + 1]
    BY <2>1, <2>2, <2>3
  <2>5. Reading(g, v) /\ (g[1] = "get" <=> k \in {m, m + 3})
    <3>1. m \in Nat /\ FindsAt(t, m, v) /\ k \in Nat /\ m <= k /\ k <= m + 5 /\ g = t[k + 1]
      BY <2>3, <2>4
    <3>2. Reading(g, v)
      BY ONLY <3>1, FindByIdAt
    <3>3. g[1] = "get" <=> k \in {m, m + 3}
      BY ONLY <3>1, FindByIdAt
    <3>4. QED
      BY <3>2, <3>3
  <2>6. QED
    BY <2>3, <2>5
<1>11. n \in {15, 24} => Reading(h, u) /\ h[1] # "get"
  BY <1>5, <1>7 DEF Reading
<1>12. n \in 0..5 \cup 9..15 \cup 18..24 =>
         Reading(h, u) /\ (h[1] = "get" <=> n \in {0, 3, 9, 12, 18, 21})
  <2>1. n \in 0..5 => Reading(h, u) /\ (h[1] = "get" <=> n \in {0, 3, 9, 12, 18, 21})
    BY <1>8
  <2>2. n \in 9..14 => Reading(h, u) /\ (h[1] = "get" <=> n \in {0, 3, 9, 12, 18, 21})
    BY <1>9
  <2>3. n \in 18..23 => Reading(h, u) /\ (h[1] = "get" <=> n \in {0, 3, 9, 12, 18, 21})
    BY <1>10
  <2>4. n \in {15, 24} => Reading(h, u) /\ (h[1] = "get" <=> n \in {0, 3, 9, 12, 18, 21})
    BY <1>11
  <2>5. n \in 0..5 \cup 9..15 \cup 18..24 => n \in 0..5 \/ n \in 9..14 \/ n \in 18..23 \/ n \in {15, 24}
    BY <1>1
  <2>6. QED
    BY <2>1, <2>2, <2>3, <2>4, <2>5
<1>13. n = 0 => h[2] = ProfileKey(u)
  BY <1>2
<1>14. /\ n = 1 => h = <<"select", ProfileKey(u)>>
       /\ n = 6 => h = <<"twoFaIs", u, FALSE>>
       /\ n = 7 => h = <<"peek", TempKey(u)>>
       /\ n = 8 => h = <<"verifyTemp">>
  <2>1. n = 1 => h = <<"select", ProfileKey(u)>>
    BY <1>2
  <2>2. n = 6 => h = <<"twoFaIs", u, FALSE>>
    <3>1. PICK x : x = <<"twoFaIs", u, FALSE>>
      OBVIOUS
    <3>2. s[7] = x
      BY <1>3, <3>1
    <3>3. n = 6 => h = x
      BY <3>2
    <3>4. QED
      BY <3>1, <3>3, Zenon
  <2>3. n = 7 => h = <<"peek", TempKey(u)>>
    BY <1>3
  <2>4. n = 8 => h = <<"verifyTemp">>
    BY <1>3
  <2>5. QED
    BY <2>1, <2>2, <2>3, <2>4
<1>15. /\ n = 16 => h = <<"save", u, [twoFa |-> TRUE]>>
       /\ n = 17 => h = <<"makeCodes", u>>
       /\ n = 25 => h = <<"save", u, [codes |-> Codes]>>
       /\ n = 26 => h = <<"delete", TempKey(u)>>
  BY <1>5, <1>7
<1>16. QED
  BY <1>1, <1>12, <1>13, <1>14, <1>15 DEF OfEnable

-----------------------------------------------------------------------------
(* What a step leaves of the secrets and the codes of a user *)

LEMMA CodeLabels ==
  ASSUME NEW r \in Requests, Progress(r)
  PROVE  /\ At(r, "put") => CachePut(r)
         /\ At(r, "peek") => CachePeek(r)
         /\ At(r, "select") /\ Arg(r, 1)[1] = "profile" => SelectProfile(r)
         /\ At(r, "select") /\ Arg(r, 1)[1] = "status" => SelectStatus(r)
         /\ At(r, "twoFaIs") => TwoFaIs(r)
         /\ At(r, "verifyTemp") => VerifyTemp(r)
         /\ At(r, "makeCodes") => MakeCodes(r)
         /\ At(r, "matchCode") => MatchCode(r)
         /\ UNCHANGED spent \/ MakeCodes(r) \/ MatchCode(r)
         /\ UNCHANGED cache \/ CacheSet(r) \/ CachePut(r) \/ CacheDelete(r) \/ CacheUnlink(r)
<1>1. CASE (CacheGet(r) \/ CacheScan(r)) /\ UNCHANGED spent
  BY <1>1 DEF CacheGet, CacheScan, At
<1>2. CASE (CacheSet(r) \/ CacheDelete(r) \/ CacheUnlink(r)) /\ UNCHANGED spent
  BY <1>2 DEF CacheSet, CacheDelete, CacheUnlink, At
<1>3. CASE (CachePut(r) \/ CachePeek(r)) /\ UNCHANGED spent
  BY <1>3 DEF CachePut, CachePeek, At
<1>4. CASE SelectProfile(r) /\ UNCHANGED spent
  BY <1>4 DEF SelectProfile, At
<1>5. CASE SelectStatus(r) /\ UNCHANGED spent
  BY <1>5 DEF SelectStatus, At
<1>6. CASE (SelectRoles(r) \/ SelectPage(r)) /\ UNCHANGED spent
  BY <1>6 DEF SelectRoles, SelectPage, At
<1>7. CASE (Exists(r) \/ Unique(r) \/ SaveUser(r) \/ WriteColumns(r)) /\ UNCHANGED spent
  BY <1>7 DEF Exists, Unique, SaveUser, WriteColumns, At
<1>8. CASE (InsertRole(r) \/ NotBanned(r) \/ Show(r) \/ HasRoles(r)) /\ UNCHANGED spent
  BY <1>8 DEF InsertRole, NotBanned, Show, HasRoles, At
<1>9. CASE TwoFaIs(r) \/ VerifyTemp(r)
  BY <1>9 DEF TwoFaIs, VerifyTemp, At
<1>10. CASE MakeCodes(r)
  BY <1>10 DEF MakeCodes, At
<1>11. CASE MatchCode(r)
  BY <1>11 DEF MatchCode, At
<1>12. CASE MatchDigits(r) \/ FindByPhone(r) \/ CreateUser(r)
  BY <1>12 DEF MatchDigits, FindByPhone, CreateUser, At
<1>13. CASE FindRefresh(r) \/ Revoke(r) \/ SaveToken(r)
  BY <1>13 DEF FindRefresh, Revoke, SaveToken, At
<1>14. CASE (InsertToken(r) \/ FindByTelegramId(r) \/ FindToken(r) \/ UseToken(r)) /\ UNCHANGED spent
  BY <1>14 DEF InsertToken, FindByTelegramId, FindToken, UseToken, At
<1>15. CASE (MayReview(r) \/ InsertReview(r) \/ Rate(r)) /\ UNCHANGED spent
  BY <1>15 DEF MayReview, InsertReview, Rate, At
<1>16. QED
  BY <1>1, <1>2, <1>3, <1>4, <1>5, <1>6, <1>7, <1>8, <1>9, <1>10, <1>11, <1>12, <1>13, <1>14, <1>15
     DEF Progress, UsersSteps, RedisSteps, TwoFactorSteps, SessionsSteps, TelegramSteps, ReviewsSteps

\* No copy of a table is a proposed secret.
LEMMA CopiesKinds ==
  ASSUME NEW k \in Copies, NEW u
  PROVE  k # TempKey(u)
<1>1. k[1] # "2fa:temp"
  <2>1. CASE k \in UsersKeys
    BY <2>1 DEF UsersKeys
  <2>2. CASE k \notin UsersKeys
    <3>1. PICK v \in Users : k \in UserPages(v) \cup {ListingPage(v)}
      BY <2>2 DEF Copies
    <3>2. QED
      BY <3>1, PageKeys
  <2>3. QED
    BY <2>1, <2>2
<1>2. QED
  BY <1>1 DEF TempKey

\* No secret is proposed but by the step that does, ...
LEMMA TempStays ==
  ASSUME AccountsTypes, NEW r \in Requests, Progress(r), NEW u, NoTemp(u), NEW h, h = req[r].todo[1],
         h[1] = "put" => h[2] # TempKey(u)
  PROVE  NoTemp(u)'
<1>1. PICK k : k = TempKey(u)
  OBVIOUS
<1>2. k \notin DOMAIN cache
  BY <1>1 DEF NoTemp
<1>3. CASE CacheSet(r)
  <2>1. PICK x, v : x = Arg(r, 1) /\ v = Got(r, Arg(r, 1)[1])
    OBVIOUS
  <2>2. cache' = With(cache, x, v) /\ h[1] = "set" /\ x = h[2] /\ req[r].todo # <<>>
    BY <1>3, <2>1 DEF CacheSet, At, Arg
  <2>3. x \in Copies
    <3>1. StepOK(h)
      BY <2>2, AtHand DEF AccountsTypes
    <3>2. QED
      BY <2>2, <3>1 DEF StepOK, Reads
  <2>4. x # k
    BY <1>1, <2>3, CopiesKinds
  <2>5. QED
    BY <1>1, <1>2, <2>2, <2>4 DEF NoTemp, With
<1>4. CASE CachePut(r)
  <2>1. PICK x, v : x = Arg(r, 1) /\ v = Arg(r, 2)
    OBVIOUS
  <2>2. cache' = With(cache, x, v) /\ h[1] = "put" /\ x = h[2]
    BY <1>4, <2>1 DEF CachePut, At, Arg
  <2>3. QED
    BY <1>1, <1>2, <2>2 DEF NoTemp, With
<1>5. CASE CacheDelete(r) \/ CacheUnlink(r)
  <2>1. PICK S : cache' = Without(cache, S)
    BY <1>5 DEF CacheDelete, CacheUnlink
  <2>2. QED
    BY <1>1, <1>2, <2>1 DEF NoTemp, Without
<1>6. CASE UNCHANGED cache
  BY <1>1, <1>2, <1>6 DEF NoTemp
<1>7. QED
  BY <1>3, <1>4, <1>5, <1>6, CodeLabels

\* ... and no code of a user is accepted or replaced but by the steps that do.
LEMMA SpentStays ==
  ASSUME AccountsTypes, NEW r \in Requests, Progress(r), NEW u \in Users, NEW h, h = req[r].todo[1],
         h[1] \in {"makeCodes", "matchCode"} => h[2] # u
  PROVE  spent'[u] = spent[u]
<1>1. spent \in [Users -> SUBSET Codes]
  BY DEF AccountsTypes, Tables
<1>2. CASE MakeCodes(r)
  <2>1. PICK v : v = h[2]
    OBVIOUS
  <2>2. spent' = [spent EXCEPT ![v] = {}] /\ v # u
    BY <1>2, <2>1 DEF MakeCodes, At, Arg
  <2>3. QED
    BY <1>1, <2>2
<1>3. CASE MatchCode(r)
  <2>1. PICK v, c : v = h[2] /\ c = Arg(r, 2)
    OBVIOUS
  <2>2. Arg(r, 1) = v /\ v # u
    BY <1>3, <2>1 DEF MatchCode, At, Arg
  <2>3. UNCHANGED spent \/ spent' = [spent EXCEPT ![v] = @ \cup {c}]
    BY <1>3, <2>1, <2>2, Zenon DEF MatchCode
  <2>4. QED
    BY <1>1, <2>2, <2>3
<1>4. CASE UNCHANGED spent
  BY <1>4
<1>5. QED
  BY <1>2, <1>3, <1>4, CodeLabels

\* A request leaves the users alone that it is not about.
LEMMA SparesAbsent ==
  ASSUME Shaped, NEW r \in Requests, NEW u, u \notin req[r].about
  PROVE  SparesUser(r, u)
<1>1. SUFFICES ASSUME NEW x \in Left(r) PROVE Spares(x, u)
  BY DEF SparesUser
<1>2. Minds(x, req[r].about)
  BY <1>1 DEF Shaped, Fit, Left
<1>3. /\ x[1] \in {"makeCodes", "save"} => x[2] \in req[r].about
      /\ x[1] = "put" => x[2][2] \in req[r].about
  BY <1>2 DEF Minds
<1>4. TempKey(u)[2] = u
  BY DEF TempKey
<1>5. QED
  BY <1>3, <1>4 DEF Spares

\* What leaves all codes alone spares every user.
LEMMA PlainSpares ==
  ASSUME NEW x, CodePlain(x), NEW u
  PROVE  Spares(x, u)
<1>1. TempKey(u)[1] = "2fa:temp"
  BY DEF TempKey
<1>2. x[1] = "put" => x[2] # TempKey(u)
  BY <1>1 DEF CodePlain
<1>3. QED
  BY <1>2 DEF CodePlain, Spares

\* A user whom no requests raced about is saved with the columns of the patch, and fails to be only for a phone.
LEMMA SaveOf ==
  ASSUME AccountsTypes, Safe, NEW r \in Requests, SaveUser(r), NEW u, u = Arg(r, 1), u \notin contended,
         NEW patch, patch = Arg(r, 2)
  PROVE  /\ u \in Registered /\ UNCHANGED cache
         /\ \/ Throw(r) /\ UNCHANGED user /\ "phone" \in DOMAIN patch
            \/ /\ Continue(r) /\ u \in Registered'
               /\ \A c \in Columns : user'[u][c] = IF c \in DOMAIN patch THEN patch[c] ELSE user[u][c]
<1>1. PICK row : row = Merged(r, patch)
  OBVIOUS
<1>2. /\ At(r, "save") /\ UNCHANGED cache
      /\ IF \E v \in Registered \ {u} : user[v].phone = row.phone
           THEN Throw(r) /\ UNCHANGED user
           ELSE Continue(r) /\ user' = [user EXCEPT ![u] = row]
  BY <1>1, Zenon DEF SaveUser
<1>3. /\ u \in Users /\ row \in UserRow /\ u \in Registered
      /\ \A c \in Columns : c \in DOMAIN patch \/ row[c] = user[u][c]
  BY <1>1, <1>2, SaveKnows DEF Safe
<1>4. \A c \in Columns : c \in DOMAIN patch => row[c] = patch[c]
  BY <1>1 DEF Merged
<1>5. CASE Throw(r) /\ UNCHANGED user /\ \E v \in Registered \ {u} : user[v].phone = row.phone
  <2>1. PICK v \in Registered \ {u} : user[v].phone = row.phone
    BY <1>5
  <2>2. user[v].phone # user[u].phone
    BY <1>3, <2>1 DEF AccountsTypes, PhonesDiffer
  <2>3. "phone" \in Columns /\ row["phone"] = row.phone /\ user[u]["phone"] = user[u].phone
    BY DEF Columns
  <2>4. "phone" \in DOMAIN patch
    BY <1>3, <2>1, <2>2, <2>3
  <2>5. QED
    BY <1>2, <1>3, <1>5, <2>4
<1>6. CASE Continue(r) /\ user' = [user EXCEPT ![u] = row]
  <2>1. user'[u] = row
    BY <1>3, <1>6 DEF AccountsTypes, Tables
  <2>2. u \in Registered'
    BY <1>3, <2>1, AccountsAssumption DEF Registered
  <2>3. \A c \in Columns : user'[u][c] = IF c \in DOMAIN patch THEN patch[c] ELSE user[u][c]
    BY <1>3, <1>4, <2>1
  <2>4. QED
    BY <1>2, <1>3, <1>6, <2>2, <2>3
<1>7. QED
  BY <1>2, <1>5, <1>6

\* What a step that is no save of the user leaves of the row.
LEMMA CodesStay ==
  ASSUME AccountsTypes, Safe, NEW r \in Requests, Progress(r), NEW u \in Users, u \in Registered',
         ~At(r, "save") \/ Arg(r, 1) # u
  PROVE  \/ u \in Registered /\ user'[u].twoFa = user[u].twoFa /\ user'[u].codes = user[u].codes
         \/ user'[u].twoFa = FALSE /\ user'[u].codes = {}
<1>1. user = [v \in Users |-> user[v]] /\ NoRow \notin UserRow
  BY AccountsAssumption DEF AccountsTypes, Tables
<1>2. CASE CreateUser(r)
  <2>1. PICK v, p : v = Arg(r, 1) /\ p = Arg(r, 2)
    OBVIOUS
  <2>2. UNCHANGED user \/ user' = [user EXCEPT ![v] = NewUser(p)]
    BY <1>2, <2>1, Zenon DEF CreateUser
  <2>3. NewUser(p).twoFa = FALSE /\ NewUser(p).codes = {}
    BY DEF NewUser
  <2>4. user'[u] = user[u] \/ user'[u] = NewUser(p)
    BY <1>1, <2>2
  <2>5. QED
    BY <2>3, <2>4 DEF Registered
<1>3. CASE SaveUser(r)
  <2>1. PICK v, row : v = Arg(r, 1) /\ row = Merged(r, Arg(r, 2))
    OBVIOUS
  <2>2. v # u /\ (UNCHANGED user \/ user' = [user EXCEPT ![v] = row])
    <3>1. At(r, "save") /\ (UNCHANGED user \/ user' = [user EXCEPT ![v] = row])
      BY <1>3, <2>1, Zenon DEF SaveUser
    <3>2. QED
      BY <2>1, <3>1
  <2>3. user'[u] = user[u]
    BY <1>1, <2>2
  <2>4. QED
    BY <2>3 DEF Registered
<1>4. CASE WriteColumns(r)
  <2>1. PICK h, v, patch : h = req[r].todo[1] /\ v = Arg(r, 1) /\ patch = Arg(r, 2)
    OBVIOUS
  <2>2. /\ req[r].todo # <<>> /\ h[1] = "write" /\ patch = h[3]
        /\ UNCHANGED user \/ /\ user[v] # NoRow
                             /\ user' = [user EXCEPT ![v] = [c \in Columns |->
                                           IF c \in DOMAIN patch THEN patch[c] ELSE user[v][c]]]
    <3>1. /\ At(r, "write")
          /\ user' = IF user[v] = NoRow THEN user
                     ELSE [user EXCEPT ![v] = [c \in Columns |-> IF c \in DOMAIN patch THEN patch[c] ELSE user[v][c]]]
      BY <1>4, <2>1 DEF WriteColumns
    <3>2. QED
      BY <2>1, <3>1 DEF At, Arg
  <2>3. DOMAIN patch \cap {"twoFa", "codes"} = {}
    <3>1. StepOK(h)
      BY <2>1, <2>2, AtHand DEF AccountsTypes
    <3>2. QED
      BY <2>2, <3>1 DEF StepOK
  <2>4. "twoFa" \in Columns /\ "codes" \in Columns
    BY DEF Columns
  <2>5. CASE UNCHANGED user \/ v # u
    BY <1>1, <2>2, <2>5 DEF Registered
  <2>6. CASE ~UNCHANGED user /\ v = u
    <3>1. /\ user[u] # NoRow
          /\ user'[u] = [c \in Columns |-> IF c \in DOMAIN patch THEN patch[c] ELSE user[u][c]]
      BY <1>1, <2>2, <2>6
    <3>2. user'[u].twoFa = user[u].twoFa /\ user'[u].codes = user[u].codes
      BY <2>3, <2>4, <3>1
    <3>3. QED
      BY <3>1, <3>2 DEF Registered
  <2>7. QED
    BY <2>5, <2>6
<1>5. CASE UNCHANGED user
  BY <1>5 DEF Registered
<1>6. QED
  BY <1>2, <1>3, <1>4, <1>5, Labels

\* A step that spares the user leaves what is said of it, or clears it.
LEMMA SparedStep ==
  ASSUME AccountsTypes, Safe, NEW r \in Requests, Progress(r), NEW u \in Users, u \notin contended,
         NEW h, h = req[r].todo[1], Spares(h, u), h[1] = "matchCode" => h[2] # u,
         u \in Registered => Coherent(u)
  PROVE  u \in Registered' => Coherent(u)'
<1>1. SUFFICES ASSUME u \in Registered' PROVE Coherent(u)'
  OBVIOUS
<1>2. (h[1] = "makeCodes" => h[2] # u) /\ (h[1] = "put" => h[2] # TempKey(u))
  BY DEF Spares
<1>3. spent'[u] = spent[u] /\ (NoTemp(u) => NoTemp(u)')
  BY <1>2, SpentStays, TempStays
<1>4. \/ u \in Registered /\ user'[u].twoFa = user[u].twoFa /\ user'[u].codes = user[u].codes
      \/ user'[u].twoFa = FALSE /\ user'[u].codes = {}
  <2>1. CASE ~At(r, "save") \/ Arg(r, 1) # u
    BY <1>1, <2>1, CodesStay
  <2>2. CASE At(r, "save") /\ Arg(r, 1) = u
    <3>1. PICK patch : patch = Arg(r, 2)
      OBVIOUS
    <3>2. SaveUser(r) /\ h[1] = "save" /\ h[2] = u /\ h[3] = patch
      BY <2>2, <3>1, Labels DEF At, Arg
    <3>3. /\ u \in Registered
          /\ \/ UNCHANGED user
             \/ \A c \in Columns : user'[u][c] = IF c \in DOMAIN patch THEN patch[c] ELSE user[u][c]
      BY <2>2, <3>1, <3>2, SaveOf
    <3>4. DOMAIN patch \cap {"twoFa", "codes"} = {} \/ patch = Cleared
      BY <3>2 DEF Spares
    <3>5. "twoFa" \in Columns /\ "codes" \in Columns
      BY DEF Columns
    <3>6. CASE UNCHANGED user
      BY <3>3, <3>6
    <3>7. CASE \A c \in Columns : user'[u][c] = IF c \in DOMAIN patch THEN patch[c] ELSE user[u][c]
      <4>1. /\ user'[u]["twoFa"] = IF "twoFa" \in DOMAIN patch THEN patch["twoFa"] ELSE user[u]["twoFa"]
            /\ user'[u]["codes"] = IF "codes" \in DOMAIN patch THEN patch["codes"] ELSE user[u]["codes"]
        BY <3>5, <3>7
      <4>2. CASE DOMAIN patch \cap {"twoFa", "codes"} = {}
        BY <3>3, <4>1, <4>2
      <4>3. CASE patch = Cleared
        <5>1. DOMAIN patch = {"twoFa", "codes"} /\ patch["twoFa"] = FALSE /\ patch["codes"] = {}
          BY <4>3 DEF Cleared
        <5>2. QED
          BY <4>1, <5>1
      <4>4. QED
        BY <3>4, <4>2, <4>3
    <3>8. QED
      BY <3>3, <3>6, <3>7
  <2>3. QED
    BY <2>1, <2>2
<1>5. CASE u \in Registered /\ user'[u].twoFa = user[u].twoFa /\ user'[u].codes = user[u].codes
  BY <1>3, <1>5 DEF Coherent
<1>6. CASE user'[u].twoFa = FALSE /\ user'[u].codes = {}
  BY <1>6 DEF Coherent
<1>7. QED
  BY <1>4, <1>5, <1>6

\* A request that spares a user brings no step that does not.
LEMMA SparesBrought ==
  ASSUME AccountsTypes, NEW r \in Requests, Progress(r), NEW u, SparesUser(r, u), NEW h, h = req[r].todo[1],
         h[1] = "matchCode" => h[2] # u
  PROVE  SparesUser(r, u)'
<1>1. SUFFICES ASSUME NEW x \in Left(r)' PROVE Spares(x, u)
  BY DEF SparesUser
<1>2. CASE x \in Left(r)
  BY <1>2 DEF SparesUser
<1>3. CASE CodePlain(x)
  BY <1>3, PlainSpares
<1>4. CASE At(r, "matchCode")
  <2>1. MatchCode(r) /\ h[1] = "matchCode" /\ req[r].todo # <<>>
    BY <1>4, CodeLabels DEF At
  <2>2. PICK v, patch, more : /\ v = h[2] /\ more = Update(v, patch)
                              /\ Throw(r) \/ \E got : Goes(r, more \o Tail(req[r].todo), got)
    <3>1. PICK K : Throw(r) \/ \E got : Goes(r, Update(Arg(r, 1), [codes |-> K]) \o Tail(req[r].todo), got)
      BY <2>1, Zenon DEF MatchCode
    <3>2. Arg(r, 1) = h[2]
      BY DEF Arg
    <3>3. QED
      BY <3>1, <3>2
  <2>3. Proper /\ v \in Users
    <3>1. StepOK(h)
      BY <2>1, AtHand DEF AccountsTypes
    <3>2. QED
      BY <2>1, <2>2, <3>1 DEF StepOK, OfUser, AccountsTypes, Shaped
  <2>4. Program(more) /\ \A y \in Steps(more) : Bland(y) \/ y = <<"save", v, patch>>
    BY <2>2, <2>3, UpdateSteps
  <2>5. CASE Throw(r)
    BY <1>2, <2>1, <2>3, <2>5, GoesBring
  <2>6. CASE \E got : Goes(r, more \o Tail(req[r].todo), got)
    <3>1. x \in Steps(more) \cup Left(r)
      BY <2>1, <2>3, <2>4, <2>6, DoBrings
    <3>2. v # u
      BY <2>1, <2>2
    <3>3. Spares(<<"save", v, patch>>, u)
      BY <3>2 DEF Spares
    <3>4. \A y : Bland(y) => Spares(y, u)
      BY PlainSpares DEF Bland
    <3>5. QED
      BY <1>2, <2>4, <3>1, <3>3, <3>4
  <2>7. QED
    BY <2>2, <2>5, <2>6
<1>5. QED
  BY <1>2, <1>3, <1>4, ProgressBrings DEF Brings, Bland

-----------------------------------------------------------------------------
(* The scripts of two-factor authentication go on *)

\* The profile that was read is that of the user.
ProfileOf(got, u) == "profile" \in DOMAIN got /\ got["profile"].twoFa = user[u].twoFa

\* The step is done, or is a hit in the cache.
Advances(r, u, h) ==
  \E got : /\ Goes(r, Tail(req[r].todo), got)
           /\ ProfileOf(req[r].got, u) \/ h = <<"select", ProfileKey(u)>> => ProfileOf(got, u)
Skips(r, u, h) ==
  \E got : /\ Goes(r, SubSeq(req[r].todo, 4, Len(req[r].todo)), got)
           /\ ProfileOf(req[r].got, u) \/ h[2] = ProfileKey(u) => ProfileOf(got, u)

\* A step that reads a user whom no requests raced about, and who is there, is done, or is a hit in the cache.
LEMMA ReadsUser ==
  ASSUME AccountsTypes, Safe, NEW r \in Requests, Progress(r), req[r].todo # <<>>, NEW u \in Registered,
         u \notin contended, u \in req[r].about, NEW h, h = req[r].todo[1], Reading(h, u)
  PROVE  /\ UNCHANGED user /\ spent'[u] = spent[u] /\ (NoTemp(u) => NoTemp(u)')
         /\ Advances(r, u, h) \/ (h[1] = "get" /\ Skips(r, u, h))
<1>1. PICK k, p, t, old : k = h[2] /\ p = ProfileKey(u) /\ t = StatusKey(u) /\ old = req[r].got
  OBVIOUS
<1>2. u \in Users /\ user[u] # NoRow
  BY DEF Registered
<1>3. /\ p \in UsersKeys /\ t \in UsersKeys /\ p[1] = "profile" /\ t[1] = "status" /\ p[2] = u /\ t[2] = u
      /\ p # t
  BY <1>1, <1>2, KeyOfUser
<1>4. h[1] \in {"get", "select", "set", "delete"} /\ k \in {p, t} /\ (h[1] = "delete" => k = p)
  BY <1>1 DEF Reading, Reads
<1>5. UNCHANGED user
  BY <1>2, <1>4, RowsStay DEF At
<1>6. spent'[u] = spent[u]
  BY <1>2, <1>4, SpentStays
<1>7. NoTemp(u) => NoTemp(u)'
  BY <1>4, TempStays
<1>8. Profile(u).twoFa = user[u].twoFa
  BY DEF Profile, Columns
<1>9. \A g, v : ProfileOf(With(g, "profile", v), u) <=> v.twoFa = user[u].twoFa
  BY DEF ProfileOf, With
<1>10. \A g, v : ProfileOf(g, u) => ProfileOf(With(g, "status", v), u)
  BY DEF ProfileOf, With
<1>11. At(r, h[1]) /\ Arg(r, 1) = k
  BY <1>1 DEF At, Arg
<1>12. CASE h[1] = "get"
  <2>1. CacheGet(r)
    BY <1>11, <1>12, RegistrationLabels
  <2>2. PICK todo, got : /\ todo = SubSeq(req[r].todo, 4, Len(req[r].todo)) /\ got = With(old, k[1], cache[k])
    OBVIOUS
  <2>3. \/ k \in DOMAIN cache /\ Goes(r, todo, got)
        \/ Goes(r, Tail(req[r].todo), old)
    BY <1>1, <1>11, <2>1, <2>2 DEF CacheGet, Continue
  <2>4. h # <<"select", p>>
    BY <1>12
  <2>5. CASE Goes(r, Tail(req[r].todo), old)
    BY <1>1, <1>5, <1>6, <1>7, <2>4, <2>5 DEF Advances
  <2>6. CASE k \in DOMAIN cache /\ Goes(r, todo, got)
    <3>1. ASSUME k = p PROVE cache[k] = Profile(u)
      <4>1. ASSUME NEW q \in Requests, Drops(q, k) PROVE FALSE
        <5>1. u \in req[q].about /\ req[q].todo[1][1] = "delete"
          BY <1>3, <3>1, <4>1, DropsMind DEF AccountsTypes
        <5>2. q # r
          BY <1>12, <5>1
        <5>3. QED
          BY <5>1, <5>2, SharedContended DEF AccountsTypes
      <4>2. Current(k) = Profile(u)
        BY <1>3, <3>1, CurrentIs
      <4>3. QED
        BY <1>3, <2>6, <3>1, <4>1, <4>2 DEF CacheFresh, Known, Safe
    <3>2. CASE k = p
      BY <1>1, <1>3, <1>5, <1>6, <1>7, <1>8, <1>9, <1>12, <2>2, <2>6, <3>1, <3>2 DEF Skips
    <3>3. CASE k = t
      <4>1. ProfileOf(old, u) => ProfileOf(got, u)
        BY <1>3, <1>10, <2>2, <3>3
      <4>2. k # ProfileKey(u)
        BY <1>1, <1>3, <3>3
      <4>3. QED
        BY <1>1, <1>5, <1>6, <1>7, <1>12, <2>2, <2>6, <4>1, <4>2 DEF Skips
    <3>4. QED
      BY <1>4, <3>2, <3>3
  <2>7. QED
    BY <2>3, <2>5, <2>6
<1>13. CASE h[1] = "select" /\ k = p
  <2>1. SelectProfile(r) /\ k[2] = u
    BY <1>3, <1>11, <1>13, CodeLabels
  <2>2. Read(r, "profile", Profile(u))
    BY <1>2, <1>11, <2>1 DEF SelectProfile
  <2>3. PICK got : got = With(old, "profile", Profile(u)) /\ Goes(r, Tail(req[r].todo), got)
    BY <1>1, <2>2 DEF Read
  <2>4. ProfileOf(got, u)
    BY <1>8, <1>9, <2>3
  <2>5. QED
    BY <1>5, <1>6, <1>7, <2>3, <2>4 DEF Advances
<1>14. CASE h[1] = "select" /\ k = t
  <2>1. SelectStatus(r) /\ k[2] = u
    BY <1>3, <1>11, <1>14, CodeLabels
  <2>2. Read(r, "status", user[u].online)
    BY <1>2, <1>11, <2>1 DEF SelectStatus
  <2>3. PICK got : got = With(old, "status", user[u].online) /\ Goes(r, Tail(req[r].todo), got)
    BY <1>1, <2>2 DEF Read
  <2>4. ProfileOf(old, u) => ProfileOf(got, u)
    BY <1>10, <2>3
  <2>5. h # <<"select", p>>
    <3>1. SUFFICES ASSUME h = <<"select", p>> PROVE FALSE
      OBVIOUS
    <3>2. h[2] = p
      BY <3>1
    <3>3. QED
      BY <1>1, <1>3, <1>14, <3>2
  <2>6. QED
    BY <1>1, <1>5, <1>6, <1>7, <2>3, <2>4, <2>5 DEF Advances
<1>15. CASE h[1] \in {"set", "delete"}
  <2>1. CacheSet(r) \/ CacheDelete(r)
    BY <1>11, <1>15, RegistrationLabels
  <2>2. Goes(r, Tail(req[r].todo), old)
    BY <1>1, <2>1 DEF CacheSet, CacheDelete, Continue
  <2>3. h # <<"select", p>>
    BY <1>15
  <2>4. QED
    BY <1>1, <1>5, <1>6, <1>7, <2>2, <2>3 DEF Advances
<1>16. QED
  BY <1>4, <1>12, <1>13, <1>14, <1>15

\* The script goes on behind it.
MovesOn(r, s, n, u, h) ==
  \/ /\ Follows(req'[r].todo, s, n + 1, u)
     /\ HasProfile(r, u) \/ h = <<"select", ProfileKey(u)>> => HasProfile(r, u)'
  \/ /\ h[1] = "get" /\ Follows(req'[r].todo, s, n + 3, u)
     /\ HasProfile(r, u) \/ h[2] = ProfileKey(u) => HasProfile(r, u)'

LEMMA ReadOn ==
  ASSUME AccountsTypes, Safe, NEW r \in Requests, Progress(r), NEW u \in Registered,
         u \notin contended, u \in req[r].about, NEW s, Len(s) \in Nat, NEW n, n + 1 < Len(s),
         Follows(req[r].todo, s, n, u), NEW h, h = req[r].todo[1], Reading(h, u), h[1] = "get" => n + 3 < Len(s)
  PROVE  /\ Elsewhere(r) /\ contended' = contended /\ u \in req'[r].about
         /\ UNCHANGED user /\ spent'[u] = spent[u] /\ (NoTemp(u) => NoTemp(u)')
         /\ MovesOn(r, s, n, u, h)
<1>1. Proper /\ Shaped /\ Program(req[r].todo)
  BY DEF AccountsTypes, Shaped, Proper
<1>2. req[r].todo # <<>> /\ n \in 0..Len(s) - 1
  BY FollowingGoes
<1>3. /\ UNCHANGED user /\ spent'[u] = spent[u] /\ (NoTemp(u) => NoTemp(u)')
  BY <1>2, ReadsUser
<1>4. \A g : ProfileOf(g, u) <=> "profile" \in DOMAIN g /\ g["profile"].twoFa = user[u].twoFa
  BY DEF ProfileOf
<1>5. HasProfile(r, u) <=> ProfileOf(req[r].got, u)
  BY DEF ProfileOf, HasProfile
<1>6. ASSUME NEW got, req'[r].got = got, ProfileOf(got, u) PROVE HasProfile(r, u)'
  BY <1>3, <1>6 DEF ProfileOf, HasProfile
<1>7. ASSUME NEW got, Goes(r, Tail(req[r].todo), got),
             ProfileOf(req[r].got, u) \/ h = <<"select", ProfileKey(u)>> => ProfileOf(got, u)
      PROVE  /\ Elsewhere(r) /\ contended' = contended /\ u \in req'[r].about
             /\ Follows(req'[r].todo, s, n + 1, u)
             /\ HasProfile(r, u) \/ h = <<"select", ProfileKey(u)>> => HasProfile(r, u)'
  <2>1. /\ Elsewhere(r) /\ contended' = contended
        /\ Follows(req'[r].todo, s, n + 1, u) /\ u \in req'[r].about /\ req'[r].got = got
    <3>1. Goes(r, Tail(req[r].todo), got)
      BY <1>7
    <3>2. Elsewhere(r) /\ contended' = contended
      BY <3>1, FollowingDone
    <3>3. Follows(req'[r].todo, s, n + 1, u)
      BY <3>1, FollowingDone
    <3>4. u \in req'[r].about
      BY <3>1, FollowingDone
    <3>5. req'[r].got = got
      <4>1. req'[r] # Idle
        BY <3>4 DEF Idle
      <4>2. QED
        BY <1>1, <1>2, <3>1, <4>1, Continues
    <3>6. QED
      BY <3>2, <3>3, <3>4, <3>5
  <2>2. QED
    BY <1>5, <1>6, <1>7, <2>1
<1>8. ASSUME h[1] = "get",
             NEW got, Goes(r, SubSeq(req[r].todo, 4, Len(req[r].todo)), got),
             ProfileOf(req[r].got, u) \/ h[2] = ProfileKey(u) => ProfileOf(got, u)
      PROVE  /\ Elsewhere(r) /\ contended' = contended /\ u \in req'[r].about
             /\ Follows(req'[r].todo, s, n + 3, u)
             /\ HasProfile(r, u) \/ h[2] = ProfileKey(u) => HasProfile(r, u)'
  <2>1. PICK todo : todo = SubSeq(req[r].todo, 4, Len(req[r].todo))
    OBVIOUS
  <2>2. Program(todo) /\ Follows(todo, s, n + 3, u)
    BY <1>1, <1>8, <2>1, FollowsOn
  <2>3. todo # <<>>
    BY <2>2, FollowsOn
  <2>4. /\ Elsewhere(r) /\ contended' = contended
        /\ req'[r] = IF todo = <<>> THEN Idle
                     ELSE [op |-> req[r].op, about |-> req[r].about, todo |-> todo, got |-> got]
    <3>1. Goes(r, todo, got)
      BY <1>8, <2>1
    <3>2. QED
      BY <1>1, <2>2, <3>1, GoesOn
  <2>5. req'[r].todo = todo /\ req'[r].about = req[r].about /\ req'[r].got = got
    BY <2>3, <2>4
  <2>6. QED
    BY <1>5, <1>6, <1>8, <2>2, <2>4, <2>5
<1>9. Advances(r, u, h) \/ (h[1] = "get" /\ Skips(r, u, h))
  BY <1>2, ReadsUser
<1>10. CASE Advances(r, u, h)
  BY <1>3, <1>7, <1>10 DEF Advances, MovesOn
<1>11. CASE h[1] = "get" /\ Skips(r, u, h)
  BY <1>3, <1>8, <1>11 DEF Skips, MovesOn
<1>12. QED
  BY <1>9, <1>10, <1>11

\* The request is through with the user.
Done(r, u) == Coherent(u) /\ SparesUser(r, u)

LEMMA CoherentStays ==
  ASSUME NEW u, Coherent(u), UNCHANGED user, spent'[u] = spent[u], NoTemp(u) => NoTemp(u)'
  PROVE  Coherent(u)'
BY DEF Coherent

\* A step that changes no user, no codes and proposes no secret.
LEMMA QuietCodes ==
  ASSUME AccountsTypes, Safe, NEW r \in Requests, Progress(r), NEW u \in Registered, NEW h, h = req[r].todo[1],
         h[1] \notin {"save", "write", "createUser", "makeCodes", "matchCode", "put"}
  PROVE  /\ UNCHANGED user /\ spent'[u] = spent[u] /\ (NoTemp(u) => NoTemp(u)') /\ u \in Registered'
         /\ Coherent(u) => Coherent(u)'
<1>1. u \in Users
  BY DEF Registered
<1>2. UNCHANGED user
  BY <1>1, RowsStay DEF At
<1>3. spent'[u] = spent[u]
  BY <1>1, SpentStays
<1>4. NoTemp(u) => NoTemp(u)'
  BY TempStays
<1>5. u \in Registered'
  BY <1>2 DEF Registered
<1>6. Coherent(u) => Coherent(u)'
  BY <1>2, <1>3, <1>4, CoherentStays
<1>7. QED
  BY <1>2, <1>3, <1>4, <1>5, <1>6

\* Two-factor authentication is off, and the user is read.
OffMoves(r, s, u, n) ==
  \E m \in 1..16 : Follows(req'[r].todo, s, m, u) /\ Off(r, u, m)' /\ (n <= 5 => m <= 6)

LEMMA OffReads ==
  ASSUME AccountsTypes, Safe, NEW r \in Requests, Progress(r), NEW u \in Registered,
         u \notin contended, u \in req[r].about, NEW s, Len(s) \in Nat, NEW n \in 0..5 \cup 9..15, n + 1 < Len(s),
         Follows(req[r].todo, s, n, u), Off(r, u, n), NEW h, h = req[r].todo[1], Reading(h, u),
         h[1] = "get" => n \in {0, 3, 9, 12} /\ n + 3 < Len(s),
         n = 0 => h[2] = ProfileKey(u), n = 1 => h = <<"select", ProfileKey(u)>>
  PROVE  /\ Elsewhere(r) /\ contended' = contended /\ u \in req'[r].about /\ u \in Registered'
         /\ OffMoves(r, s, u, n)
<1>1. /\ Elsewhere(r) /\ contended' = contended /\ u \in req'[r].about
      /\ UNCHANGED user /\ spent'[u] = spent[u] /\ (NoTemp(u) => NoTemp(u)')
  BY ReadOn
<1>2. \/ /\ Follows(req'[r].todo, s, n + 1, u)
         /\ HasProfile(r, u) \/ h = <<"select", ProfileKey(u)>> => HasProfile(r, u)'
      \/ /\ h[1] = "get" /\ Follows(req'[r].todo, s, n + 3, u)
         /\ HasProfile(r, u) \/ h[2] = ProfileKey(u) => HasProfile(r, u)'
  <2>1. MovesOn(r, s, n, u, h)
    BY ReadOn
  <2>2. QED
    BY <2>1 DEF MovesOn
<1>3. u \in Registered'
  BY <1>1 DEF Registered
<1>4. Coherent(u)'
  BY <1>1, CoherentStays DEF Off
<1>5. /\ n \in 2..6 => HasProfile(r, u)
      /\ n >= 7 => ~user[u].twoFa
  BY DEF Off
<1>6. n >= 7 => ~user'[u].twoFa
  BY <1>1, <1>5
<1>7. CASE /\ Follows(req'[r].todo, s, n + 1, u)
           /\ HasProfile(r, u) \/ h = <<"select", ProfileKey(u)>> => HasProfile(r, u)'
  <2>1. PICK m : m = n + 1 /\ Follows(req'[r].todo, s, m, u)
    BY <1>7
  <2>2. m \in 1..16 /\ (n <= 5 => m <= 6)
    BY <2>1
  <2>3. m \in 2..6 => HasProfile(r, u)'
    <3>1. n = 1 => HasProfile(r, u)'
      BY <1>7
    <3>2. n \in 2..6 => HasProfile(r, u)'
      BY <1>5, <1>7
    <3>3. m \in 2..6 => n = 1 \/ n \in 2..6
      BY <2>1
    <3>4. QED
      BY <3>1, <3>2, <3>3
  <2>4. m >= 7 => ~user'[u].twoFa
    <3>1. m >= 7 => n >= 7
      BY <2>1
    <3>2. QED
      BY <1>6, <3>1
  <2>5. Off(r, u, m)'
    BY <1>4, <2>3, <2>4 DEF Off
  <2>6. QED
    BY <1>1, <1>3, <2>1, <2>2, <2>5 DEF OffMoves
<1>8. CASE /\ h[1] = "get" /\ Follows(req'[r].todo, s, n + 3, u)
           /\ HasProfile(r, u) \/ h[2] = ProfileKey(u) => HasProfile(r, u)'
  <2>1. PICK m : m = n + 3 /\ Follows(req'[r].todo, s, m, u)
    BY <1>8
  <2>2. m \in 1..16 /\ (n <= 5 => m <= 6)
    BY <1>8, <2>1
  <2>3. m \in 2..6 => HasProfile(r, u)'
    <3>1. n = 0 => HasProfile(r, u)'
      BY <1>8
    <3>2. n \in 2..6 => HasProfile(r, u)'
      BY <1>5, <1>8
    <3>3. m \in 2..6 => n = 0 \/ n \in 2..6
      BY <1>8, <2>1
    <3>4. QED
      BY <3>1, <3>2, <3>3
  <2>4. m >= 7 => ~user'[u].twoFa
    <3>1. m >= 7 => n >= 7
      BY <1>8, <2>1
    <3>2. QED
      BY <1>6, <3>1
  <2>5. Off(r, u, m)'
    BY <1>4, <2>3, <2>4 DEF Off
  <2>6. QED
    BY <1>1, <1>3, <2>1, <2>2, <2>5 DEF OffMoves
<1>9. QED
  BY <1>2, <1>7, <1>8

\* It is off, or the request is thrown out.
OffIsOff(r, s, u) == u \in req'[r].about /\ Follows(req'[r].todo, s, 7, u) /\ Off(r, u, 7)'

LEMMA OffChecks ==
  ASSUME AccountsTypes, Safe, NEW r \in Requests, Progress(r), NEW u \in Registered, u \in req[r].about,
         NEW s, Len(s) \in Nat, 7 < Len(s), Follows(req[r].todo, s, 6, u), Off(r, u, 6),
         NEW h, h = req[r].todo[1], h = <<"twoFaIs", u, FALSE>>
  PROVE  /\ Elsewhere(r) /\ contended' = contended /\ u \in Registered'
         /\ Done(r, u)' \/ OffIsOff(r, s, u)
<1>1. h[1] = "twoFaIs" /\ Arg(r, 2) = FALSE
  BY DEF Arg
<1>2. TwoFaIs(r)
  BY <1>1, CodeLabels, FollowingGoes DEF At
<1>3. UNCHANGED user /\ u \in Registered' /\ (Coherent(u) => Coherent(u)')
  BY <1>1, QuietCodes
<1>4. Coherent(u)' /\ HasProfile(r, u)
  BY <1>3 DEF Off
<1>5. \/ Throw(r)
      \/ Got(r, "profile").twoFa = FALSE /\ Continue(r)
  BY <1>1, <1>2, Zenon DEF TwoFaIs, Require
<1>6. CASE Throw(r)
  BY <1>3, <1>4, <1>6, ThrownSpares DEF Done
<1>7. CASE Got(r, "profile").twoFa = FALSE /\ Continue(r)
  <2>1. PICK got : got = req[r].got /\ Goes(r, Tail(req[r].todo), got)
    BY <1>7 DEF Continue
  <2>2. /\ Elsewhere(r) /\ contended' = contended
        /\ IF 6 + 1 < Len(s)
             THEN Follows(req'[r].todo, s, 6 + 1, u) /\ u \in req'[r].about /\ req'[r].got = got
             ELSE SparesUser(r, u)'
    BY <2>1, FollowingDone
  <2>3. Follows(req'[r].todo, s, 7, u) /\ u \in req'[r].about
    BY <2>2
  <2>4. user[u].twoFa = FALSE
    BY <1>4, <1>7 DEF HasProfile, Got
  <2>5. ~user'[u].twoFa
    BY <1>3, <2>4
  <2>6. Off(r, u, 7)'
    BY <1>4, <2>5 DEF Off
  <2>7. QED
    BY <1>3, <2>2, <2>3, <2>6 DEF OffIsOff
<1>8. QED
  BY <1>5, <1>6, <1>7

LEMMA FollowingHead ==
  ASSUME AccountsTypes, NEW r \in Requests, NEW s, Len(s) \in Nat, NEW n, NEW u, Follows(req[r].todo, s, n, u)
  PROVE  req[r].todo # <<>> /\ n \in 0..Len(s) - 1 /\ req[r].todo[1] = s[n + 1]
BY FollowingGoes

LEMMA GenerateHead ==
  ASSUME AccountsTypes, NEW r \in Requests, NEW u, NEW s, s = GenerateSecret(u), NEW n, Follows(req[r].todo, s, n, u),
         NEW h, h = req[r].todo[1]
  PROVE  Len(s) = 8 /\ n \in 0..7 /\ OfGenerate(h, n, u)
<1>1. Len(s) \in Nat
  BY GenerateIs
<1>2. n \in 0..Len(s) - 1 /\ h = s[n + 1]
  BY <1>1, FollowingHead
<1>3. QED
  BY <1>2, GenerateAt

LEMMA UpdateHead ==
  ASSUME AccountsTypes, NEW r \in Requests, NEW u, NEW patch, DOMAIN patch \cap {"phone", "tg"} = {},
         NEW s, s = Update(u, patch), NEW n, Follows(req[r].todo, s, n, u), NEW h, h = req[r].todo[1]
  PROVE  Len(s) = 8 /\ n \in 0..7 /\ OfUpdate(h, n, u, patch)
<1>1. Len(s) \in Nat
  BY UpdateIs
<1>2. n \in 0..Len(s) - 1 /\ h = s[n + 1]
  BY <1>1, FollowingHead
<1>3. QED
  BY <1>2, UpdateAt

LEMMA EnableHead ==
  ASSUME AccountsTypes, NEW r \in Requests, NEW u, NEW s, s = EnableTwoFactor(u), NEW n, Follows(req[r].todo, s, n, u),
         NEW h, h = req[r].todo[1]
  PROVE  Len(s) = 27 /\ n \in 0..26 /\ OfEnable(h, n, u)
<1>1. Len(s) \in Nat
  BY EnableIs
<1>2. n \in 0..Len(s) - 1 /\ h = s[n + 1]
  BY <1>1, FollowingHead
<1>3. QED
  BY <1>2, EnableAt

\* generateSecret goes on, and proposes a secret where none is used.
LEMMA GenerateStep ==
  ASSUME AccountsTypes, Safe, NEW r \in Requests, Progress(r), NEW u \in Registered,
         u \notin contended, u \in req[r].about, Generates(r, u)
  PROVE  /\ Elsewhere(r) /\ contended' = contended /\ u \in Registered'
         /\ Done(r, u)' \/ (u \in req'[r].about /\ Generates(r, u)')
<1>1. PICK s, h : s = GenerateSecret(u) /\ h = req[r].todo[1]
  OBVIOUS
<1>2. PICK n \in 0..7 : Follows(req[r].todo, s, n, u) /\ Off(r, u, n)
  BY <1>1 DEF Generates
<1>3. Len(s) = 8 /\ OfGenerate(h, n, u)
  BY <1>1, <1>2, GenerateHead
<1>4. Len(s) \in Nat
  BY <1>3
<1>6. ASSUME NEW m \in 0..7, Follows(req'[r].todo, s, m, u), Off(r, u, m)' PROVE Generates(r, u)'
  BY <1>1, <1>6 DEF Generates
<1>7. CASE n \in 0..5
  <2>1. n \in 0..5 \cup 9..15 /\ n + 1 < Len(s)
    BY <1>3, <1>7
  <2>2. Reading(h, u) /\ (h[1] = "get" => n \in {0, 3})
    BY <1>3, <1>7 DEF OfGenerate
  <2>3. h[1] = "get" => n \in {0, 3, 9, 12} /\ n + 3 < Len(s)
    BY <1>3, <2>2
  <2>4. (n = 0 => h[2] = ProfileKey(u)) /\ (n = 1 => h = <<"select", ProfileKey(u)>>)
    BY <1>3 DEF OfGenerate
  <2>5. /\ Elsewhere(r) /\ contended' = contended /\ u \in req'[r].about /\ u \in Registered'
        /\ OffMoves(r, s, u, n)
    BY <1>1, <1>2, <1>4, <2>1, <2>2, <2>3, <2>4, OffReads
  <2>6. PICK m \in 1..16 : Follows(req'[r].todo, s, m, u) /\ Off(r, u, m)' /\ (n <= 5 => m <= 6)
    BY <2>5 DEF OffMoves
  <2>7. m \in 0..7
    BY <1>7, <2>6
  <2>8. QED
    BY <1>6, <2>5, <2>6, <2>7
<1>8. CASE n = 6
  <2>1. Follows(req[r].todo, s, 6, u) /\ Off(r, u, 6)
    BY <1>2, <1>8
  <2>2. h = <<"twoFaIs", u, FALSE>>
    BY <1>3, <1>8 DEF OfGenerate
  <2>3. 7 < Len(s)
    BY <1>3
  <2>4. /\ Elsewhere(r) /\ contended' = contended /\ u \in Registered'
        /\ Done(r, u)' \/ OffIsOff(r, s, u)
    BY <1>1, <1>4, <2>1, <2>2, <2>3, OffChecks
  <2>5. QED
    BY <1>6, <2>4 DEF OffIsOff
<1>9. CASE n = 7
  <2>1. h[1] = "put"
    BY <1>3, <1>9 DEF OfGenerate
  <2>2. CachePut(r)
    BY <1>1, <1>2, <1>4, <2>1, FollowingHead, CodeLabels DEF At
  <2>3. PICK got : Goes(r, Tail(req[r].todo), got)
    BY <2>2 DEF CachePut, Continue
  <2>4. Elsewhere(r) /\ contended' = contended /\ SparesUser(r, u)'
    <3>1. Follows(req[r].todo, s, 7, u) /\ ~(7 + 1 < Len(s)) /\ Len(s) \in Nat
      BY <1>2, <1>3, <1>9
    <3>2. QED
      BY <2>3, <3>1, FollowingDone
  <2>5. u \in Users
    BY DEF Registered
  <2>6. UNCHANGED user
    BY <1>1, <2>1, <2>5, RowsStay DEF At
  <2>7. spent'[u] = spent[u]
    BY <1>1, <2>1, <2>5, SpentStays
  <2>8. ~user[u].twoFa /\ Coherent(u)
    BY <1>2, <1>9 DEF Off
  <2>9. Coherent(u)'
    BY <2>6, <2>7, <2>8 DEF Coherent
  <2>10. u \in Registered'
    BY <2>6 DEF Registered
  <2>11. QED
    BY <2>4, <2>9, <2>10 DEF Done
<1>10. QED
  BY <1>2, <1>7, <1>8, <1>9

\* The script goes on behind a step that is done.
Passes(r, s, n, u) ==
  IF n + 1 < Len(s) THEN Follows(req'[r].todo, s, n + 1, u) /\ u \in req'[r].about
  ELSE SparesUser(r, u)'

LEMMA PassesOn ==
  ASSUME AccountsTypes, NEW r \in Requests, NEW s, Len(s) \in Nat, NEW n, NEW u, u \in req[r].about,
         Follows(req[r].todo, s, n, u), NEW got, Goes(r, Tail(req[r].todo), got)
  PROVE  Elsewhere(r) /\ contended' = contended /\ Passes(r, s, n, u)
<1>1. Elsewhere(r) /\ contended' = contended
  BY FollowingDone
<1>2. CASE n + 1 < Len(s)
  <2>1. Follows(req'[r].todo, s, n + 1, u)
    BY <1>2, FollowingDone
  <2>2. u \in req'[r].about
    BY <1>2, FollowingDone
  <2>3. QED
    BY <1>1, <1>2, <2>1, <2>2 DEF Passes
<1>3. CASE ~(n + 1 < Len(s))
  <2>1. SparesUser(r, u)'
    BY <1>3, FollowingDone
  <2>2. QED
    BY <1>1, <1>3, <2>1 DEF Passes
<1>4. QED
  BY <1>2, <1>3

\* The user is saved, but for a phone.
SavedWith(u, patch) ==
  \A c \in Columns : user'[u][c] = IF c \in DOMAIN patch THEN patch[c] ELSE user[u][c]

LEMMA SaveGoes ==
  ASSUME AccountsTypes, Safe, NEW r \in Requests, Progress(r), NEW u \in Registered,
         u \notin contended, u \in req[r].about, NEW s, Len(s) \in Nat, NEW n, Follows(req[r].todo, s, n, u),
         NEW patch, "phone" \notin DOMAIN patch, req[r].todo[1] = <<"save", u, patch>>
  PROVE  /\ Elsewhere(r) /\ contended' = contended /\ u \in Registered' /\ Passes(r, s, n, u)
         /\ UNCHANGED cache /\ spent'[u] = spent[u]
         /\ SavedWith(u, patch)
<1>1. req[r].todo # <<>>
  BY FollowingHead
<1>2. At(r, "save") /\ Arg(r, 1) = u /\ Arg(r, 2) = patch
  BY <1>1 DEF At, Arg
<1>3. SaveUser(r)
  BY <1>2, Labels
<1>4. /\ UNCHANGED cache /\ Continue(r) /\ u \in Registered'
      /\ \A c \in Columns : user'[u][c] = IF c \in DOMAIN patch THEN patch[c] ELSE user[u][c]
  BY <1>2, <1>3, SaveOf
<1>5. spent'[u] = spent[u]
  <2>1. PICK h : h = req[r].todo[1]
    OBVIOUS
  <2>2. h[1] = "save"
    BY <2>1
  <2>3. QED
    BY <2>1, <2>2, SpentStays DEF Registered
<1>6. PICK got : Goes(r, Tail(req[r].todo), got)
  BY <1>4 DEF Continue
<1>7. Elsewhere(r) /\ contended' = contended /\ Passes(r, s, n, u)
  BY <1>6, PassesOn
<1>8. QED
  BY <1>4, <1>5, <1>7 DEF SavedWith

\* The list without the code that was used is saved.
LEMMA SpendStep ==
  ASSUME AccountsTypes, Safe, NEW r \in Requests, Progress(r), NEW u \in Registered,
         u \notin contended, u \in req[r].about, Spends(r, u)
  PROVE  /\ Elsewhere(r) /\ contended' = contended /\ u \in Registered'
         /\ Done(r, u)' \/ (u \in req'[r].about /\ Spends(r, u)')
<1>1. PICK n \in 0..7, rest \in SUBSET Codes :
        /\ Follows(req[r].todo, Update(u, [codes |-> rest]), n, u)
        /\ user[u].twoFa /\ rest \cap spent[u] = {} /\ NoTemp(u)
  BY DEF Spends
<1>2. PICK patch, s, h : patch = [codes |-> rest] /\ s = Update(u, patch) /\ h = req[r].todo[1]
  OBVIOUS
<1>3. DOMAIN patch = {"codes"} /\ patch["codes"] = rest
  BY <1>2
<1>4. Follows(req[r].todo, s, n, u)
  BY <1>1, <1>2
<1>5. Len(s) = 8 /\ OfUpdate(h, n, u, patch)
  BY <1>2, <1>3, <1>4, UpdateHead
<1>6. Len(s) \in Nat
  BY <1>5
<1>7. CASE n \in 0..6
  <2>1. Reading(h, u) /\ (h[1] = "get" => n \in {0, 3}) /\ n + 1 < Len(s)
    BY <1>5, <1>7 DEF OfUpdate
  <2>2. h[1] = "get" => n + 3 < Len(s)
    BY <1>5, <2>1
  <2>3. /\ Elsewhere(r) /\ contended' = contended /\ u \in req'[r].about
        /\ UNCHANGED user /\ spent'[u] = spent[u] /\ (NoTemp(u) => NoTemp(u)')
        /\ MovesOn(r, s, n, u, h)
    BY <1>2, <1>4, <1>6, <2>1, <2>2, ReadOn
  <2>4. PICK m \in 0..7 : Follows(req'[r].todo, s, m, u)
    <3>1. n + 1 \in 0..7 /\ (h[1] = "get" => n + 3 \in 0..7)
      BY <1>5, <1>7, <2>1
    <3>2. QED
      BY <2>3, <3>1 DEF MovesOn
  <2>5. user'[u].twoFa /\ rest \cap spent'[u] = {} /\ NoTemp(u)'
    BY <1>1, <2>3
  <2>6. Spends(r, u)'
    BY <1>1, <1>2, <2>4, <2>5 DEF Spends
  <2>7. u \in Registered'
    BY <2>3 DEF Registered
  <2>8. QED
    BY <2>3, <2>6, <2>7
<1>8. CASE n = 7
  <2>1. h = <<"save", u, patch>> /\ "phone" \notin DOMAIN patch
    BY <1>3, <1>5, <1>8 DEF OfUpdate
  <2>2. /\ Elsewhere(r) /\ contended' = contended /\ u \in Registered' /\ Passes(r, s, n, u)
        /\ UNCHANGED cache /\ spent'[u] = spent[u]
        /\ SavedWith(u, patch)
    <3>1. req[r].todo[1] = <<"save", u, patch>>
      BY <1>2, <2>1
    <3>2. QED
      BY <1>4, <1>6, <2>1, <3>1, SaveGoes
  <2>3. SparesUser(r, u)'
    <3>1. ~(n + 1 < Len(s))
      BY <1>5, <1>8
    <3>2. QED
      BY <2>2, <3>1 DEF Passes
  <2>4. user'[u].twoFa = user[u].twoFa /\ user'[u].codes = rest
    <3>1. "twoFa" \in Columns /\ "codes" \in Columns
      BY DEF Columns
    <3>2. /\ user'[u]["twoFa"] = IF "twoFa" \in DOMAIN patch THEN patch["twoFa"] ELSE user[u]["twoFa"]
          /\ user'[u]["codes"] = IF "codes" \in DOMAIN patch THEN patch["codes"] ELSE user[u]["codes"]
      BY <2>2, <3>1 DEF SavedWith
    <3>3. QED
      BY <1>3, <3>2
  <2>5. NoTemp(u)'
    BY <1>1, <2>2 DEF NoTemp
  <2>6. Coherent(u)'
    BY <1>1, <2>2, <2>4, <2>5 DEF Coherent
  <2>7. QED
    BY <2>2, <2>3, <2>6 DEF Done
<1>9. QED
  BY <1>7, <1>8

\* A step that neither reads the user nor saves, on the way to the end of the script.
LEMMA QuietGoes ==
  ASSUME AccountsTypes, Safe, NEW r \in Requests, Progress(r), NEW u \in Registered,
         u \notin contended, u \in req[r].about, NEW s, Len(s) \in Nat, NEW n, Follows(req[r].todo, s, n, u),
         NEW h, h = req[r].todo[1], h[1] \in {"peek", "verifyTemp", "makeCodes", "delete"}
  PROVE  /\ Elsewhere(r) /\ contended' = contended /\ u \in Registered' /\ UNCHANGED user
         /\ Passes(r, s, n, u) \/ (h[1] = "verifyTemp" /\ SparesUser(r, u)')
<1>1. req[r].todo # <<>> /\ u \in Users
  BY FollowingHead DEF Registered
<1>2. UNCHANGED user /\ u \in Registered'
  <2>1. ~At(r, "save") /\ ~At(r, "write") /\ ~At(r, "createUser")
    BY DEF At
  <2>2. UNCHANGED user
    BY <1>1, <2>1, RowsStay
  <2>3. QED
    BY <2>2 DEF Registered
<1>3. ASSUME NEW got, Goes(r, Tail(req[r].todo), got)
      PROVE  Elsewhere(r) /\ contended' = contended /\ Passes(r, s, n, u)
  BY <1>3, PassesOn
<1>4. CASE h[1] = "peek"
  <2>1. CachePeek(r)
    BY <1>1, <1>4, CodeLabels DEF At
  <2>2. PICK got : Goes(r, Tail(req[r].todo), got)
    BY <2>1, Zenon DEF CachePeek, Read
  <2>3. QED
    BY <1>2, <1>3, <2>2
<1>5. CASE h[1] = "verifyTemp"
  <2>1. VerifyTemp(r)
    BY <1>1, <1>5, CodeLabels DEF At
  <2>2. Continue(r) \/ Throw(r)
    BY <2>1, Zenon DEF VerifyTemp, Require
  <2>3. CASE Continue(r)
    BY <1>2, <1>3, <2>3 DEF Continue
  <2>4. CASE Throw(r)
    <3>1. Elsewhere(r) /\ contended' = contended /\ SparesUser(r, u)'
      BY <2>4, ThrownSpares
    <3>2. QED
      BY <1>2, <1>5, <3>1
  <2>5. QED
    BY <2>2, <2>3, <2>4
<1>6. CASE h[1] = "makeCodes"
  <2>1. MakeCodes(r)
    BY <1>1, <1>6, CodeLabels DEF At
  <2>2. QED
    BY <1>2, <1>3, <2>1 DEF MakeCodes, Continue
<1>7. CASE h[1] = "delete"
  <2>1. CacheDelete(r)
    BY <1>1, <1>7, RegistrationLabels DEF At
  <2>2. QED
    BY <1>2, <1>3, <2>1 DEF CacheDelete, Continue
<1>8. QED
  BY <1>4, <1>5, <1>6, <1>7

\* enableTwoFactor goes on, ...
EnablesOn(r, u) == u \in req'[r].about /\ Enables(r, u)'
LEMMA EnablesNext ==
  ASSUME NEW r, NEW u, NEW s, s = EnableTwoFactor(u), NEW m \in 0..26, Follows(req'[r].todo, s, m, u),
         u \in req'[r].about, IF m <= 16 THEN Off(r, u, m)' ELSE On(u, m)'
  PROVE  EnablesOn(r, u)
BY DEF EnablesOn, Enables

\* ... while two-factor authentication is off, ...
LEMMA EnableOff ==
  ASSUME AccountsTypes, Safe, NEW r \in Requests, Progress(r), NEW u \in Registered,
         u \notin contended, u \in req[r].about, NEW s, s = EnableTwoFactor(u),
         NEW n \in 0..15, Follows(req[r].todo, s, n, u), Off(r, u, n)
  PROVE  /\ Elsewhere(r) /\ contended' = contended /\ u \in Registered'
         /\ Done(r, u)' \/ EnablesOn(r, u)
<1>1. PICK h : h = req[r].todo[1]
  OBVIOUS
<1>2. Len(s) = 27 /\ OfEnable(h, n, u)
  BY <1>1, EnableHead
<1>3. Len(s) \in Nat
  BY <1>2
<1>4. ASSUME NEW m \in 0..16, Follows(req'[r].todo, s, m, u), Off(r, u, m)', u \in req'[r].about
      PROVE  EnablesOn(r, u)
  <2>1. m \in 0..26 /\ m <= 16
    OBVIOUS
  <2>2. QED
    BY <1>4, <2>1, EnablesNext
<1>5. CASE n \in 0..5 \cup 9..15
  <2>1. n \in 0..5 \cup 9..15 /\ n + 1 < Len(s)
    BY <1>2, <1>5
  <2>2. Reading(h, u) /\ (h[1] = "get" => n \in {0, 3, 9, 12})
    BY <1>2, <1>5 DEF OfEnable
  <2>3. h[1] = "get" => n \in {0, 3, 9, 12} /\ n + 3 < Len(s)
    BY <1>2, <2>2
  <2>4. (n = 0 => h[2] = ProfileKey(u)) /\ (n = 1 => h = <<"select", ProfileKey(u)>>)
    BY <1>2 DEF OfEnable
  <2>5. /\ Elsewhere(r) /\ contended' = contended /\ u \in req'[r].about /\ u \in Registered'
        /\ OffMoves(r, s, u, n)
    BY <1>1, <1>3, <2>1, <2>2, <2>3, <2>4, OffReads
  <2>6. PICK m \in 1..16 : Follows(req'[r].todo, s, m, u) /\ Off(r, u, m)' /\ (n <= 5 => m <= 6)
    BY <2>5 DEF OffMoves
  <2>7. m \in 0..16
    BY <2>6
  <2>8. QED
    BY <1>4, <2>5, <2>6, <2>7
<1>6. CASE n = 6
  <2>1. Follows(req[r].todo, s, 6, u) /\ Off(r, u, 6)
    BY <1>6
  <2>2. h = <<"twoFaIs", u, FALSE>>
    BY <1>2, <1>6 DEF OfEnable
  <2>3. 7 < Len(s)
    BY <1>2
  <2>4. /\ Elsewhere(r) /\ contended' = contended /\ u \in Registered'
        /\ Done(r, u)' \/ OffIsOff(r, s, u)
    BY <1>1, <1>3, <2>1, <2>2, <2>3, OffChecks
  <2>5. QED
    BY <1>4, <2>4 DEF OffIsOff
<1>7. CASE n \in {7, 8}
  <2>1. h[1] \in {"peek", "verifyTemp"}
    BY <1>2, <1>7 DEF OfEnable
  <2>2. /\ Elsewhere(r) /\ contended' = contended /\ u \in Registered' /\ UNCHANGED user
        /\ Passes(r, s, n, u) \/ (h[1] = "verifyTemp" /\ SparesUser(r, u)')
    BY <1>1, <1>3, <2>1, QuietGoes
  <2>3. Coherent(u)'
    <3>1. h[1] \notin {"save", "write", "createUser", "makeCodes", "matchCode", "put"}
      BY <2>1
    <3>2. Coherent(u)
      BY DEF Off
    <3>3. QED
      BY <1>1, <3>1, <3>2, QuietCodes
  <2>4. CASE Passes(r, s, n, u)
    <3>1. PICK m \in 8..9 : m = n + 1
      BY <1>7
    <3>2. Follows(req'[r].todo, s, m, u) /\ u \in req'[r].about
      <4>1. n + 1 < Len(s)
        BY <1>2, <1>7
      <4>2. QED
        BY <2>4, <3>1, <4>1 DEF Passes
    <3>3. Off(r, u, m)'
      <4>1. ~user'[u].twoFa
        BY <1>7, <2>2 DEF Off
      <4>2. QED
        BY <2>3, <3>1, <4>1 DEF Off
    <3>4. QED
      BY <1>4, <2>2, <3>2, <3>3
  <2>5. CASE SparesUser(r, u)'
    BY <2>2, <2>3, <2>5 DEF Done
  <2>6. QED
    BY <2>2, <2>4, <2>5
<1>8. QED
  BY <1>5, <1>6, <1>7

\* ... when it is turned on, ...
LEMMA EnableTurns ==
  ASSUME AccountsTypes, Safe, NEW r \in Requests, Progress(r), NEW u \in Registered,
         u \notin contended, u \in req[r].about, NEW s, s = EnableTwoFactor(u),
         NEW n, n = 16, Follows(req[r].todo, s, n, u)
  PROVE  Elsewhere(r) /\ contended' = contended /\ u \in Registered' /\ EnablesOn(r, u)
<1>1. PICK h, patch : h = req[r].todo[1] /\ patch = [twoFa |-> TRUE]
  OBVIOUS
<1>2. Len(s) = 27 /\ OfEnable(h, n, u)
  BY <1>1, EnableHead
<1>3. Len(s) \in Nat
  BY <1>2
<1>4. DOMAIN patch = {"twoFa"} /\ patch["twoFa"] = TRUE
  BY <1>1
<1>5. req[r].todo[1] = <<"save", u, patch>>
  <2>1. h = <<"save", u, [twoFa |-> TRUE]>>
    BY <1>2 DEF OfEnable
  <2>2. QED
    BY <1>1, <2>1, Zenon
<1>6. /\ Elsewhere(r) /\ contended' = contended /\ u \in Registered' /\ Passes(r, s, n, u)
      /\ SavedWith(u, patch)
  BY <1>3, <1>4, <1>5, SaveGoes
<1>7. user'[u].twoFa
  <2>1. "twoFa" \in Columns
    BY DEF Columns
  <2>2. QED
    BY <1>4, <1>6, <2>1 DEF SavedWith
<1>8. PICK m \in 0..26 : m = 17
  OBVIOUS
<1>9. Follows(req'[r].todo, s, m, u) /\ u \in req'[r].about
  BY <1>2, <1>6, <1>8 DEF Passes
<1>10. On(u, m)'
  BY <1>7, <1>8 DEF On
<1>11. QED
  BY <1>6, <1>8, <1>9, <1>10, EnablesNext

\* ... and behind that.
LEMMA EnableOn ==
  ASSUME AccountsTypes, Safe, NEW r \in Requests, Progress(r), NEW u \in Registered,
         u \notin contended, u \in req[r].about, NEW s, s = EnableTwoFactor(u),
         NEW n \in 17..26, Follows(req[r].todo, s, n, u), On(u, n)
  PROVE  /\ Elsewhere(r) /\ contended' = contended /\ u \in Registered'
         /\ Done(r, u)' \/ EnablesOn(r, u)
<1>1. PICK h : h = req[r].todo[1]
  OBVIOUS
<1>2. Len(s) = 27 /\ OfEnable(h, n, u)
  BY <1>1, EnableHead
<1>3. Len(s) \in Nat
  BY <1>2
<1>4. user[u].twoFa /\ (n >= 18 => spent[u] = {}) /\ u \in Users
  BY DEF On, Registered
<1>5. ASSUME NEW m \in 18..26, Follows(req'[r].todo, s, m, u), u \in req'[r].about,
             user'[u].twoFa, spent'[u] = {}
      PROVE  EnablesOn(r, u)
  <2>1. m \in 0..26 /\ ~(m <= 16) /\ On(u, m)'
    BY <1>5 DEF On
  <2>2. QED
    BY <1>5, <2>1, EnablesNext
<1>6. CASE n = 17
  <2>1. h = <<"makeCodes", u>>
    BY <1>2, <1>6 DEF OfEnable
  <2>2. /\ Elsewhere(r) /\ contended' = contended /\ u \in Registered' /\ UNCHANGED user
        /\ Passes(r, s, n, u)
    <3>1. h[1] = "makeCodes"
      BY <2>1
    <3>2. /\ Elsewhere(r) /\ contended' = contended /\ u \in Registered' /\ UNCHANGED user
          /\ Passes(r, s, n, u) \/ (h[1] = "verifyTemp" /\ SparesUser(r, u)')
      BY <1>1, <1>3, <3>1, QuietGoes
    <3>3. QED
      BY <3>1, <3>2
  <2>3. spent'[u] = {}
    <3>1. req[r].todo # <<>>
      BY <1>3, FollowingHead
    <3>2. At(r, "makeCodes") /\ Arg(r, 1) = u
      BY <1>1, <2>1, <3>1 DEF At, Arg
    <3>3. MakeCodes(r)
      BY <3>2, CodeLabels
    <3>4. u \in DOMAIN spent
      BY <1>4 DEF AccountsTypes, Tables
    <3>5. QED
      BY <3>2, <3>3, <3>4 DEF MakeCodes
  <2>4. PICK m \in 18..26 : m = n + 1
    BY <1>6
  <2>5. Follows(req'[r].todo, s, m, u) /\ u \in req'[r].about
    BY <1>2, <1>6, <2>2, <2>4 DEF Passes
  <2>6. QED
    BY <1>4, <1>5, <2>2, <2>3, <2>5
<1>7. CASE n \in 18..24
  <2>1. Reading(h, u) /\ (h[1] = "get" => n \in {18, 21}) /\ n + 1 < Len(s)
    BY <1>2, <1>7 DEF OfEnable
  <2>2. h[1] = "get" => n + 3 < Len(s)
    BY <1>2, <2>1
  <2>3. /\ Elsewhere(r) /\ contended' = contended /\ u \in req'[r].about
        /\ UNCHANGED user /\ spent'[u] = spent[u] /\ (NoTemp(u) => NoTemp(u)')
        /\ MovesOn(r, s, n, u, h)
    BY <1>1, <1>3, <2>1, <2>2, ReadOn
  <2>4. PICK m \in 18..26 : Follows(req'[r].todo, s, m, u)
    <3>1. n + 1 \in 18..26 /\ (h[1] = "get" => n + 3 \in 18..26)
      BY <1>7, <2>1
    <3>2. QED
      BY <2>3, <3>1 DEF MovesOn
  <2>5. user'[u].twoFa /\ spent'[u] = {}
    BY <1>4, <1>7, <2>3
  <2>6. u \in Registered'
    BY <2>3 DEF Registered
  <2>7. QED
    BY <1>5, <2>3, <2>4, <2>5, <2>6
<1>8. CASE n = 25
  <2>1. PICK patch : patch = [codes |-> Codes]
    OBVIOUS
  <2>2. DOMAIN patch = {"codes"}
    BY <2>1
  <2>3. req[r].todo[1] = <<"save", u, patch>>
    <3>1. h = <<"save", u, [codes |-> Codes]>>
      BY <1>2, <1>8 DEF OfEnable
    <3>2. QED
      BY <1>1, <2>1, <3>1, Zenon
  <2>4. /\ Elsewhere(r) /\ contended' = contended /\ u \in Registered' /\ Passes(r, s, n, u)
        /\ spent'[u] = spent[u] /\ SavedWith(u, patch)
    <3>1. "phone" \notin DOMAIN patch
      BY <2>2
    <3>2. PICK m, t : m = n /\ t = s /\ Follows(req[r].todo, t, m, u) /\ Len(t) \in Nat
      BY <1>3
    <3>3. /\ Elsewhere(r) /\ contended' = contended /\ u \in Registered' /\ Passes(r, t, m, u)
          /\ spent'[u] = spent[u] /\ SavedWith(u, patch)
      BY <2>3, <3>1, <3>2, SaveGoes
    <3>4. QED
      BY <3>2, <3>3
  <2>5. user'[u].twoFa
    <3>1. "twoFa" \in Columns /\ "twoFa" \notin DOMAIN patch
      BY <2>2 DEF Columns
    <3>2. user'[u]["twoFa"] = user[u]["twoFa"]
      BY <2>4, <3>1 DEF SavedWith
    <3>3. QED
      BY <1>4, <3>2
  <2>6. PICK m \in 18..26 : m = n + 1
    BY <1>8
  <2>7. Follows(req'[r].todo, s, m, u) /\ u \in req'[r].about
    BY <1>2, <1>8, <2>4, <2>6 DEF Passes
  <2>8. spent'[u] = {}
    BY <1>4, <1>8, <2>4
  <2>9. QED
    BY <1>5, <2>4, <2>5, <2>7, <2>8
<1>9. CASE n = 26
  <2>1. h = <<"delete", TempKey(u)>>
    BY <1>2, <1>9 DEF OfEnable
  <2>2. /\ Elsewhere(r) /\ contended' = contended /\ u \in Registered' /\ UNCHANGED user
        /\ Passes(r, s, n, u)
    <3>1. h[1] = "delete"
      BY <2>1
    <3>2. /\ Elsewhere(r) /\ contended' = contended /\ u \in Registered' /\ UNCHANGED user
          /\ Passes(r, s, n, u) \/ (h[1] = "verifyTemp" /\ SparesUser(r, u)')
      BY <1>1, <1>3, <3>1, QuietGoes
    <3>3. QED
      BY <3>1, <3>2
  <2>3. SparesUser(r, u)'
    BY <1>2, <1>9, <2>2 DEF Passes
  <2>4. NoTemp(u)'
    <3>1. req[r].todo # <<>>
      BY <1>3, FollowingHead
    <3>2. At(r, "delete") /\ Arg(r, 1) = TempKey(u)
      BY <1>1, <2>1, <3>1 DEF At, Arg
    <3>3. CacheDelete(r)
      BY <3>2, RegistrationLabels
    <3>4. cache' = Without(cache, {TempKey(u)})
      BY <3>2, <3>3 DEF CacheDelete
    <3>5. QED
      BY <3>4 DEF NoTemp, Without
  <2>5. spent'[u] = {}
    <3>1. h[1] = "delete"
      BY <2>1
    <3>2. spent'[u] = spent[u]
      BY <1>1, <1>4, <3>1, SpentStays
    <3>3. QED
      BY <1>4, <1>9, <3>2
  <2>6. Coherent(u)'
    BY <1>4, <2>2, <2>4, <2>5 DEF Coherent
  <2>7. QED
    BY <2>2, <2>3, <2>6 DEF Done
<1>10. QED
  BY <1>6, <1>7, <1>8, <1>9

LEMMA BusyStep ==
  ASSUME AccountsTypes, Safe, NEW r \in Requests, Progress(r), NEW u \in Registered,
         u \notin contended, Busy(r, u)
  PROVE  /\ Elsewhere(r) /\ contended' = contended /\ u \in Registered'
         /\ Done(r, u)' \/ Busy(r, u)'
<1>1. u \in req[r].about
  BY DEF Busy
<1>2. CASE Generates(r, u)
  BY <1>1, <1>2, GenerateStep DEF Busy
<1>3. CASE Enables(r, u)
  <2>1. PICK s : s = EnableTwoFactor(u)
    OBVIOUS
  <2>2. PICK n \in 0..26 : Follows(req[r].todo, s, n, u) /\ IF n <= 16 THEN Off(r, u, n) ELSE On(u, n)
    BY <1>3, <2>1 DEF Enables
  <2>3. /\ Elsewhere(r) /\ contended' = contended /\ u \in Registered'
        /\ Done(r, u)' \/ EnablesOn(r, u)
    <3>1. CASE n \in 0..15
      <4>1. Off(r, u, n)
        BY <2>2, <3>1
      <4>2. QED
        BY <1>1, <2>1, <2>2, <3>1, <4>1, EnableOff
    <3>2. CASE n = 16
      BY <1>1, <2>1, <2>2, <3>2, EnableTurns
    <3>3. CASE n \in 17..26
      <4>1. On(u, n)
        BY <2>2, <3>3
      <4>2. QED
        BY <1>1, <2>1, <2>2, <3>3, <4>1, EnableOn
    <3>4. QED
      BY <3>1, <3>2, <3>3
  <2>4. QED
    BY <2>3 DEF EnablesOn, Busy
<1>4. CASE Spends(r, u)
  BY <1>1, <1>4, SpendStep DEF Busy
<1>5. QED
  BY <1>2, <1>3, <1>4 DEF Busy

-----------------------------------------------------------------------------
(* A code is used *)

\* A program that begins with a script, and spares the user behind it.
LEMMA FollowsJoined ==
  ASSUME NEW s, NEW t, Program(s), Program(t), Len(s) > 0, NEW z, z = s \o t, NEW u, \A x \in Steps(t) : Spares(x, u)
  PROVE  Program(z) /\ z # <<>> /\ Follows(z, s, 0, u)
<1>1. Joined(z, s, t)
  BY JoinIs
<1>2. /\ Program(z) /\ Len(s) \in Nat /\ Len(t) \in Nat /\ Len(z) = Len(s) + Len(t)
      /\ \A i \in 1..Len(s) : z[i] = s[i]
      /\ \A i \in 1..Len(t), j \in Nat : j = Len(s) + i => z[j] = t[i]
  BY <1>1 DEF Joined
<1>3. DOMAIN z = 1..Len(z) /\ DOMAIN t = 1..Len(t)
  BY <1>2, ProgramJoin
<1>4. Begun(z, s, 0)
  BY <1>2 DEF Begun
<1>5. ASSUME NEW i \in DOMAIN z, i > Len(s) - 0 PROVE Spares(z[i], u)
  <2>1. i \in Nat /\ i - Len(s) \in 1..Len(t) /\ i = Len(s) + (i - Len(s))
    BY <1>2, <1>3, <1>5
  <2>2. z[i] = t[i - Len(s)]
    BY <1>2, <2>1
  <2>3. z[i] \in Steps(t)
    BY <1>3, <2>1, <2>2 DEF Steps
  <2>4. QED
    BY <2>3
<1>6. z # <<>>
  <2>1. Len(z) > 0
    BY <1>2
  <2>2. QED
    BY <2>1
<1>7. QED
  BY <1>2, <1>4, <1>5, <1>6 DEF Follows

LEMMA FollowsWhole ==
  ASSUME NEW s, Program(s), Len(s) > 0, NEW u
  PROVE  Follows(s, s, 0, u)
<1>1. DOMAIN s = 1..Len(s) /\ Len(s) \in Nat
  BY ProgramJoin, NoProgram
<1>2. Begun(s, s, 0)
  BY <1>1 DEF Begun
<1>3. QED
  BY <1>1, <1>2 DEF Follows

\* What the request knows of the user when a code is compared.
LEMMA MatchKnows ==
  ASSUME AccountsTypes, Safe, NEW r \in Requests, At(r, "matchCode"), NEW u, u = Arg(r, 1), u \notin contended
  PROVE  /\ u \in Registered /\ u \in req[r].about
         /\ Got(r, "profile").twoFa = user[u].twoFa /\ Got(r, "profile").codes = user[u].codes
<1>1. PICK q, h : q = req[r].todo /\ h = q[1]
  OBVIOUS
<1>2. q # <<>> /\ h[1] = "matchCode" /\ h[2] = u
  BY <1>1 DEF At, Arg
<1>3. Fit(q, req[r].about) /\ Program(q)
  BY <1>1 DEF AccountsTypes, Shaped, Fit
<1>4. StepOK(h) /\ Minds(h, req[r].about)
  BY <1>1, <1>2, <1>3, FitTail
<1>5. u \in Users /\ u \in req[r].about
  BY <1>2, <1>4 DEF StepOK, Minds, OfUser
<1>6. PICK k : k = ProfileKey(u)
  OBVIOUS
<1>7. k \in UsersKeys /\ k \in Facts /\ k[1] = "profile" /\ k[2] = u
  BY <1>5, <1>6 DEF UsersKeys, Facts, ProfileKey
<1>8. Uses(h, k)
  BY <1>2, <1>6 DEF Uses
<1>9. Needs(q, k)
  BY <1>1, <1>2, <1>3, <1>8, NeedsHead
<1>10. Holds(r, k)
  BY <1>1, <1>7, <1>9 DEF Safe, Known, Knows
<1>11. u \in Registered /\ req[r].got["profile"] = Current(k)
  BY <1>7, <1>10 DEF Holds
<1>12. Current(k) = Profile(u)
  BY <1>7, CurrentIs
<1>13. Profile(u)["twoFa"] = user[u]["twoFa"] /\ Profile(u)["codes"] = user[u]["codes"]
  BY DEF Profile, Columns
<1>14. QED
  BY <1>5, <1>11, <1>12, <1>13 DEF Got

\* A recovery code is compared: it is used, or the request is thrown out.
LEMMA MatchStep ==
  ASSUME AccountsTypes, Safe, NEW r \in Requests, Progress(r), At(r, "matchCode"), NEW u, u = Arg(r, 1),
         u \notin contended, SparesUser(r, u), u \in Registered => Coherent(u)
  PROVE  /\ contended' = contended /\ u \in Registered'
         /\ Done(r, u)' \/ Busy(r, u)'
<1>1. PICK known, c, rest, s : /\ known = Got(r, "profile").codes /\ c = Arg(r, 2) /\ rest = known \ {c}
                               /\ s = Update(u, [codes |-> rest])
  OBVIOUS
<1>2. /\ u \in Registered /\ u \in req[r].about
      /\ Got(r, "profile").twoFa = user[u].twoFa /\ known = user[u].codes
  BY <1>1, MatchKnows
<1>3. Coherent(u) /\ u \in Users
  BY <1>2 DEF Registered
<1>4. MatchCode(r)
  BY CodeLabels
<1>5. /\ UNCHANGED <<cache, user>>
      /\ \/ /\ Got(r, "profile").twoFa
            /\ Goes(r, s \o Tail(req[r].todo), req[r].got)
            /\ spent' = [spent EXCEPT ![u] = @ \cup {c}]
         \/ Throw(r) /\ UNCHANGED spent
  BY <1>1, <1>4, Zenon DEF MatchCode
<1>6. u \in Registered' /\ (NoTemp(u) => NoTemp(u)')
  BY <1>2, <1>5 DEF Registered, NoTemp
<1>7. CASE Throw(r) /\ UNCHANGED spent
  <2>1. contended' = contended /\ SparesUser(r, u)'
    BY <1>7, ThrownSpares
  <2>2. Coherent(u)'
    BY <1>3, <1>5, <1>6, <1>7 DEF Coherent
  <2>3. QED
    BY <1>6, <2>1, <2>2 DEF Done
<1>8. CASE /\ Got(r, "profile").twoFa
           /\ Goes(r, s \o Tail(req[r].todo), req[r].got)
           /\ spent' = [spent EXCEPT ![u] = @ \cup {c}]
  <2>1. Proper /\ Program(req[r].todo) /\ req[r].todo # <<>>
    BY DEF At, AccountsTypes, Shaped, Proper
  <2>2. Program(s) /\ Len(s) > 0
    <3>1. PICK patch : patch = [codes |-> rest]
      OBVIOUS
    <3>2. DOMAIN patch \cap {"phone", "tg"} = {} /\ s = Update(u, patch)
      BY <1>1, <3>1
    <3>3. Program(s) /\ Len(s) = 8
      BY <3>2, UpdateIs
    <3>4. QED
      BY <3>3
  <2>3. PICK t, z : t = Tail(req[r].todo) /\ z = s \o t
    OBVIOUS
  <2>4. Program(t) /\ \A x \in Steps(t) : Spares(x, u)
    <3>1. Program(t) /\ Steps(t) \subseteq Left(r)
      BY <2>1, <2>3, ProgramTail DEF Left
    <3>2. QED
      BY <3>1 DEF SparesUser
  <2>5. Program(z) /\ z # <<>> /\ Follows(z, s, 0, u)
    BY <2>2, <2>3, <2>4, FollowsJoined
  <2>6. /\ contended' = contended /\ req'[r].todo = z /\ req'[r].about = req[r].about
    <3>1. Goes(r, z, req[r].got)
      BY <1>8, <2>3
    <3>2. /\ contended' = contended /\ req'[r].todo = z
          /\ req'[r] = IF z = <<>> THEN Idle
                       ELSE [op |-> req[r].op, about |-> req[r].about, todo |-> z, got |-> req[r].got]
      BY <2>1, <2>5, <3>1, GoesOn
    <3>3. QED
      BY <2>5, <3>2
  <2>7. rest \in SUBSET Codes /\ rest \cap spent'[u] = {}
    <3>1. user[u].codes \subseteq Codes
      <4>1. user[u] \in UserRow
        BY <1>2, <1>3 DEF AccountsTypes, Tables, Registered
      <4>2. QED
        BY <4>1 DEF UserRow
    <3>2. u \in DOMAIN spent
      BY <1>3 DEF AccountsTypes, Tables
    <3>3. spent'[u] = spent[u] \cup {c}
      BY <1>8, <3>2
    <3>4. user[u].codes \cap spent[u] = {}
      BY <1>3 DEF Coherent
    <3>5. QED
      BY <1>1, <1>2, <3>1, <3>3, <3>4
  <2>8. user'[u].twoFa /\ NoTemp(u)'
    BY <1>2, <1>3, <1>5, <1>6, <1>8 DEF Coherent
  <2>9. Spends(r, u)'
    <3>1. Follows(req'[r].todo, Update(u, [codes |-> rest]), 0, u)
      BY <1>1, <2>5, <2>6
    <3>2. 0 \in 0..7
      OBVIOUS
    <3>3. QED
      BY <2>7, <2>8, <3>1, <3>2 DEF Spends
  <2>10. QED
    BY <1>2, <1>6, <2>6, <2>9 DEF Busy
<1>9. QED
  BY <1>5, <1>7, <1>8

-----------------------------------------------------------------------------
(* Every step keeps the codes *)

\* What a step does not touch of a user keeps a request busy with the user.
Untouched(u) ==
  user'[u] = user[u] /\ spent'[u] = spent[u] /\ (NoTemp(u) => NoTemp(u)')

LEMMA UntouchedKeeps ==
  ASSUME NEW u, Untouched(u), NEW r, req'[r] = req[r]
  PROVE  /\ Coherent(u) => Coherent(u)'
         /\ Busy(r, u) => Busy(r, u)'
         /\ SparesUser(r, u) => SparesUser(r, u)'
         /\ u \in Registered => u \in Registered'
<1>1. user'[u] = user[u] /\ spent'[u] = spent[u] /\ (NoTemp(u) => NoTemp(u)')
  BY DEF Untouched
<1>2. Coherent(u) => Coherent(u)'
  BY <1>1 DEF Coherent
<1>3. \A n \in Nat : (Off(r, u, n) => Off(r, u, n)') /\ (On(u, n) => On(u, n)')
  <2>1. HasProfile(r, u) => HasProfile(r, u)'
    BY <1>1 DEF HasProfile
  <2>2. TAKE n \in Nat
  <2>3. Off(r, u, n) => Off(r, u, n)'
    BY <1>1, <1>2, <2>1 DEF Off
  <2>4. On(u, n) => On(u, n)'
    BY <1>1 DEF On
  <2>5. QED
    BY <2>3, <2>4
<1>4. Generates(r, u) => Generates(r, u)'
  <2>1. ASSUME NEW n \in 0..7, Follows(req[r].todo, GenerateSecret(u), n, u), Off(r, u, n)
        PROVE  Generates(r, u)'
    <3>1. Off(r, u, n)' /\ Follows(req'[r].todo, GenerateSecret(u), n, u)
      BY <1>3, <2>1
    <3>2. QED
      BY <3>1 DEF Generates
  <2>2. QED
    BY <2>1 DEF Generates
<1>5. Enables(r, u) => Enables(r, u)'
  <2>1. ASSUME NEW n \in 0..26, Follows(req[r].todo, EnableTwoFactor(u), n, u),
               IF n <= 16 THEN Off(r, u, n) ELSE On(u, n)
        PROVE  Enables(r, u)'
    <3>1. IF n <= 16 THEN Off(r, u, n)' ELSE On(u, n)'
      BY <1>3, <2>1
    <3>2. Follows(req'[r].todo, EnableTwoFactor(u), n, u)
      BY <2>1
    <3>3. QED
      BY <3>1, <3>2 DEF Enables
  <2>2. QED
    BY <2>1 DEF Enables
<1>6. Spends(r, u) => Spends(r, u)'
  <2>1. ASSUME NEW n \in 0..7, NEW rest \in SUBSET Codes,
               Follows(req[r].todo, Update(u, [codes |-> rest]), n, u),
               user[u].twoFa, rest \cap spent[u] = {}, NoTemp(u)
        PROVE  Spends(r, u)'
    <3>1. /\ Follows(req'[r].todo, Update(u, [codes |-> rest]), n, u)
          /\ user'[u].twoFa /\ rest \cap spent'[u] = {} /\ NoTemp(u)'
      BY <1>1, <2>1
    <3>2. QED
      BY <3>1 DEF Spends
  <2>2. QED
    BY <2>1 DEF Spends
<1>7. QED
  BY <1>1, <1>2, <1>4, <1>5, <1>6 DEF Busy, SparesUser, Left, Registered

\* Who the requests that run elsewhere are about, they leave alone.
LEMMA OthersSpare ==
  ASSUME AccountsTypes, NEW r \in Requests, NEW u \in req[r].about, u \notin contended, Elsewhere(r)
  PROVE  \A q \in Requests : q # r => SparesUser(q, u)'
<1>1. ASSUME NEW q \in Requests, q # r PROVE SparesUser(q, u)'
  <2>1. Shaped
    BY DEF AccountsTypes
  <2>2. u \notin req[q].about
    BY <1>1, <2>1, SharedContended
  <2>3. SparesUser(q, u)
    BY <2>1, <2>2, SparesAbsent
  <2>4. req'[q] = req[q]
    BY <1>1 DEF Elsewhere
  <2>5. QED
    BY <2>3, <2>4 DEF SparesUser, Left
<1>2. QED
  BY <1>1

\* What a request is not about, it does not touch.
LEMMA UntouchedByOthers ==
  ASSUME AccountsTypes, Safe, NEW r \in Requests, Progress(r), NEW u \in Users, u \notin req[r].about
  PROVE  Untouched(u)
<1>1. PICK q, h : q = req[r].todo /\ h = q[1]
  OBVIOUS
<1>2. q # <<>>
  BY <1>1, Labels
<1>3. Fit(q, req[r].about)
  BY <1>1 DEF AccountsTypes, Shaped
<1>4. Minds(h, req[r].about)
  BY <1>1, <1>2, <1>3, FitTail
<1>5. user'[u] = user[u]
  BY RowsStay
<1>6. spent'[u] = spent[u]
  <2>1. h[1] \in {"makeCodes", "matchCode"} => h[2] # u
    BY <1>4 DEF Minds
  <2>2. QED
    BY <1>1, <2>1, SpentStays
<1>7. NoTemp(u) => NoTemp(u)'
  <2>1. h[1] = "put" => h[2] # TempKey(u)
    <3>1. h[1] = "put" => h[2][2] # u
      BY <1>4 DEF Minds
    <3>2. TempKey(u)[2] = u
      BY DEF TempKey
    <3>3. QED
      BY <3>1, <3>2
  <2>2. QED
    BY <1>1, <2>1, TempStays
<1>8. QED
  BY <1>5, <1>6, <1>7 DEF Untouched

LEMMA ProgressCodes ==
  ASSUME AccountsTypes, Safe, Coding, NEW r \in Requests, Progress(r)
  PROVE  Coding'
<1>1. SUFFICES ASSUME NEW u \in Users \ contended' PROVE Fine(u)'
  BY DEF Coding
<1>2. u \notin contended /\ Fine(u) /\ u \in Users
  BY ContendedStays DEF Coding
<1>3. Elsewhere(r)
  BY ProgressElsewhere DEF AccountsTypes, Shaped
<1>4. \A q \in Requests : q # r => req'[q] = req[q]
  BY <1>3 DEF Elsewhere
<1>5. ASSUME Busy(r, u)', u \in Registered' PROVE Fine(u)'
  BY <1>5 DEF Fine
<1>6. ASSUME u \in Registered' => Coherent(u)', SparesUser(r, u)', \A q \in Requests : q # r => SparesUser(q, u)'
      PROVE  Fine(u)'
  BY <1>6 DEF Fine
<1>7. CASE (u \in Registered => Coherent(u)) /\ \A q \in Requests : SparesUser(q, u)
  <2>1. PICK h : h = req[r].todo[1]
    OBVIOUS
  <2>2. req[r].todo # <<>> /\ h \in Left(r)
    <3>1. req[r].todo # <<>> /\ Program(req[r].todo)
      BY Labels DEF AccountsTypes, Shaped, Proper
    <3>2. QED
      BY <2>1, <3>1, ProgramTail DEF Left
  <2>3. SparesUser(r, u) /\ Spares(h, u)
    BY <1>7, <2>2 DEF SparesUser
  <2>4. \A q \in Requests : q # r => SparesUser(q, u)'
    BY <1>4, <1>7 DEF SparesUser, Left
  <2>5. CASE h[1] = "matchCode" /\ h[2] = u
    <3>1. At(r, "matchCode") /\ u = Arg(r, 1)
      BY <2>1, <2>2, <2>5 DEF At, Arg
    <3>2. u \in Registered' /\ (Done(r, u)' \/ Busy(r, u)')
      BY <1>2, <1>7, <2>3, <3>1, MatchStep
    <3>3. QED
      BY <1>5, <1>6, <2>4, <3>2 DEF Done
  <2>6. CASE ~(h[1] = "matchCode" /\ h[2] = u)
    <3>1. u \in Registered' => Coherent(u)'
      BY <1>2, <1>7, <2>1, <2>3, <2>6, SparedStep
    <3>2. SparesUser(r, u)'
      BY <2>1, <2>3, <2>6, SparesBrought
    <3>3. QED
      BY <1>6, <2>4, <3>1, <3>2
  <2>7. QED
    BY <2>5, <2>6
<1>8. CASE u \in Registered /\ \E q \in Requests : Busy(q, u)
  <2>1. PICK q \in Requests : Busy(q, u)
    BY <1>8
  <2>2. u \in req[q].about
    BY <2>1 DEF Busy
  <2>3. CASE q = r
    <3>1. u \in Registered' /\ (Done(r, u)' \/ Busy(r, u)')
      BY <1>2, <1>8, <2>1, <2>3, BusyStep
    <3>2. \A p \in Requests : p # r => SparesUser(p, u)'
      BY <1>2, <1>3, <2>2, <2>3, OthersSpare
    <3>3. QED
      BY <1>5, <1>6, <3>1, <3>2 DEF Done
  <2>4. CASE q # r
    <3>1. u \notin req[r].about
      BY <1>2, <2>2, <2>4, SharedContended DEF AccountsTypes
    <3>2. Untouched(u)
      BY <1>2, <3>1, UntouchedByOthers
    <3>3. Busy(q, u)' /\ u \in Registered'
      BY <1>4, <1>8, <2>1, <2>4, <3>2, UntouchedKeeps
    <3>4. QED
      BY <3>3 DEF Fine
  <2>5. QED
    BY <2>3, <2>4
<1>9. QED
  BY <1>2, <1>7, <1>8 DEF Fine

\* What the requests arrive with, but for those that propose a secret or enable it.
SparesAll(q, u) == Program(q) /\ \A x \in Steps(q) : Spares(x, u)

LEMMA SparesJoin ==
  ASSUME NEW p, NEW q, NEW u, SparesAll(p, u), SparesAll(q, u)
  PROVE  SparesAll(p \o q, u)
BY ProgramJoin DEF SparesAll

LEMMA AllSpares ==
  ASSUME NEW q, AllOf(q, TRUE, TRUE), NEW u
  PROVE  SparesAll(q, u)
BY PlainSpares DEF SparesAll, AllOf

LEMMA LabelSpares ==
  ASSUME NEW q, Program(q), \A x \in Steps(q) : x[1] \notin {"makeCodes", "put", "save"}, NEW u
  PROVE  SparesAll(q, u)
BY DEF SparesAll, Spares

LEMMA RecoverySpares ==
  ASSUME NEW v \in Users, NEW c, NEW u
  PROVE  SparesAll(DisableWithRecovery(v, c), u) /\ SparesAll(VerifyRecovery(v, c), u)
<1>1. PICK a, yes, m, patch, clear, issue :
        /\ a = FindById(v) /\ yes = <<"twoFaIs", v, TRUE>> /\ m = <<"matchCode", v, c>>
        /\ patch = [twoFa |-> FALSE, codes |-> {}] /\ clear = Update(v, patch) /\ issue = IssueTokens(v, 0)
  OBVIOUS
<1>2. SparesAll(a, u) /\ SparesAll(issue, u)
  BY <1>1, ReadsAll, AllSpares
<1>3. SparesAll(<<yes>>, u)
  BY <1>1, OneIs, ChecksBland, AllSpares DEF Checks
<1>4. SparesAll(<<m>>, u)
  <2>1. Program(<<m>>) /\ Steps(<<m>>) = {m}
    BY ProgramOf1
  <2>2. m[1] = "matchCode"
    BY <1>1
  <2>3. QED
    BY <2>1, <2>2, LabelSpares
<1>5. SparesAll(clear, u)
  <2>1. patch = Cleared /\ DOMAIN patch \cap {"asLandlord", "asRenter"} = {}
    BY <1>1 DEF Cleared
  <2>2. QED
    BY <1>1, <2>1, UpdateAll, AllSpares
<1>6. SparesAll(a \o <<m>>, u) /\ SparesAll(a \o <<yes>>, u)
  BY <1>2, <1>3, <1>4, SparesJoin
<1>7. SparesAll((a \o <<m>>) \o issue, u)
  BY <1>2, <1>6, SparesJoin
<1>8. SparesAll(a \o <<yes>> \o a, u)
  BY <1>2, <1>6, SparesJoin
<1>9. SparesAll(a \o <<yes>> \o a \o (a \o <<m>>), u)
  BY <1>6, <1>8, SparesJoin
<1>10. SparesAll(a \o <<yes>> \o a \o (a \o <<m>>) \o clear, u)
  BY <1>5, <1>9, SparesJoin
<1>11. QED
  BY <1>1, <1>7, <1>10 DEF DisableWithRecovery, VerifyRecovery, ValidateRecoveryCode, ClearTwoFactor

LEMMA RegistrationSpares ==
  ASSUME NEW v, NEW p, NEW u
  PROVE  SparesAll(CompleteRegistration(v, p), u)
<1>1. PICK s : s = CompleteRegistration(v, p)
  OBVIOUS
<1>2. /\ Program(s) /\ Len(s) = 15
      /\ s[1] = <<"createUser", v, p>> /\ s[2] = <<"get", RolesKey(v)>>
      /\ s[3] = <<"select", RolesKey(v)>> /\ s[4] = <<"set", RolesKey(v)>>
      /\ s[5] = <<"insertRole", v, "RENTER">> /\ s[6] = <<"delete", RolesKey(v)>>
      /\ s[7] = <<"get", RolesKey(v)>> /\ s[8] = <<"select", RolesKey(v)>>
      /\ s[9] = <<"set", RolesKey(v)>> /\ s[10] = <<"insertRole", v, "LANDLORD">>
      /\ s[11] = <<"delete", RolesKey(v)>> /\ s[12] = <<"get", RolesKey(v)>>
      /\ s[13] = <<"select", RolesKey(v)>> /\ s[14] = <<"set", RolesKey(v)>>
      /\ s[15] = <<"saveToken", v, 0>>
  BY <1>1, RegistrationIs
<1>3. DOMAIN s = 1..15
  BY <1>2, ProgramJoin, NoProgram
<1>4. ASSUME NEW i \in DOMAIN s PROVE s[i][1] \notin {"makeCodes", "put", "save"}
  <2>1. \/ i = 1 \/ i = 2 \/ i = 3 \/ i = 4 \/ i = 5 \/ i = 6 \/ i = 7 \/ i = 8 \/ i = 9 \/ i = 10
        \/ i = 11 \/ i = 12 \/ i = 13 \/ i = 14 \/ i = 15
    BY <1>3
  <2>2. /\ s[1][1] = "createUser" /\ s[2][1] = "get" /\ s[3][1] = "select" /\ s[4][1] = "set"
        /\ s[5][1] = "insertRole" /\ s[6][1] = "delete" /\ s[7][1] = "get" /\ s[8][1] = "select"
        /\ s[9][1] = "set" /\ s[10][1] = "insertRole" /\ s[11][1] = "delete" /\ s[12][1] = "get"
        /\ s[13][1] = "select" /\ s[14][1] = "set" /\ s[15][1] = "saveToken"
    BY <1>2
  <2>3. QED
    BY <2>1, <2>2
<1>5. \A x \in Steps(s) : x[1] \notin {"makeCodes", "put", "save"}
  BY <1>4 DEF Steps
<1>6. QED
  BY <1>1, <1>2, <1>5, LabelSpares

LEMMA ComesSpares ==
  ASSUME NEW r, Comes(r)
  PROVE  \E op, about, program :
           /\ Begin(r, op, about, program) /\ Program(program)
           /\ \/ \A u \in Users : SparesAll(program, u)
              \/ \E u \in Registered : about = {u} /\ program \in {GenerateSecret(u), EnableTwoFactor(u)}
<1>1. PICK op, about, program :
        /\ Begin(r, op, about, program) /\ Program(program)
        /\ \/ AllOf(program, TRUE, TRUE)
           \/ \E u \in Users \ Registered, p \in Phones :
                Quiet(u) /\ about = {p, u} /\ program = CompleteRegistration(u, p)
           \/ \E u \in Registered : about = {u} /\ program \in {GenerateSecret(u), EnableTwoFactor(u)}
           \/ \E u \in Registered, c \in Codes : about = {u} /\ program \in {DisableWithRecovery(u, c), VerifyRecovery(u, c)}
           \/ \E b \in Bookings, by \in Users, rating \in Ratings :
                about = {b.renter, b.landlord} /\ program = CreateReview(b, by, rating)
           \/ \E u \in Registered : \E k \in Pages(u) : about = {u} /\ program = GetOrSet(k)
  BY DEF Comes
<1>2. SUFFICES ASSUME ~\E u \in Registered : about = {u} /\ program \in {GenerateSecret(u), EnableTwoFactor(u)},
                      NEW u \in Users
               PROVE  SparesAll(program, u)
  BY <1>1
<1>3. CASE AllOf(program, TRUE, TRUE)
  BY <1>3, AllSpares
<1>4. CASE \E v \in Users \ Registered, p \in Phones :
             Quiet(v) /\ about = {p, v} /\ program = CompleteRegistration(v, p)
  BY <1>4, RegistrationSpares
<1>5. CASE \E v \in Registered, c \in Codes : about = {v} /\ program \in {DisableWithRecovery(v, c), VerifyRecovery(v, c)}
  BY <1>5, RecoverySpares DEF Registered
<1>6. CASE \E b \in Bookings, by \in Users, rating \in Ratings :
             about = {b.renter, b.landlord} /\ program = CreateReview(b, by, rating)
  <2>1. PICK b, by, rating : program = CreateReview(b, by, rating)
    BY <1>6
  <2>2. PICK x, y : x = <<"mayReview", b, by>> /\ y = <<"insertReview", b, by, rating>>
    OBVIOUS
  <2>3. program = <<x, y>> /\ x[1] = "mayReview" /\ y[1] = "insertReview"
    BY <2>1, <2>2 DEF CreateReview
  <2>4. Program(<<x, y>>) /\ Steps(<<x, y>>) = {x, y}
    BY ProgramOf2
  <2>5. QED
    BY <2>3, <2>4, LabelSpares
<1>7. CASE \E v \in Registered : \E k \in Pages(v) : about = {v} /\ program = GetOrSet(k)
  <2>1. PICK k : program = GetOrSet(k)
    BY <1>7
  <2>2. Steps(program) = {<<"get", k>>, <<"select", k>>, <<"set", k>>}
    BY <2>1, GetOrSetSteps
  <2>3. \A x \in Steps(program) : x[1] \notin {"makeCodes", "put", "save"}
    BY <2>2
  <2>4. QED
    BY <1>1, <2>3, LabelSpares
<1>8. QED
  BY <1>1, <1>2, <1>3, <1>4, <1>5, <1>6, <1>7

\* A request that is not about a user spares the user, whatever the tokens are.
LEMMA SparesAbsentNext ==
  ASSUME Shaped', NEW r \in Requests, NEW u, u \notin req'[r].about
  PROVE  SparesUser(r, u)'
<1>1. \A x \in Steps(req'[r].todo) : Minds(x, req[r].about)'
  BY DEF Shaped, Fit
<1>2. \A x \in Steps(req'[r].todo) :
        /\ x[1] \in {"makeCodes", "save"} => x[2] \in req'[r].about
        /\ x[1] = "put" => x[2][2] \in req'[r].about
  BY <1>1 DEF Minds
<1>3. TempKey(u)[2] = u
  BY DEF TempKey
<1>4. \A x \in Steps(req'[r].todo) : Spares(x, u)
  BY <1>2, <1>3 DEF Spares
<1>5. QED
  BY <1>4 DEF SparesUser, Left

LEMMA ScriptsLong ==
  ASSUME NEW u
  PROVE  Len(GenerateSecret(u)) > 0 /\ Len(EnableTwoFactor(u)) > 0
<1>1. PICK s : s = GenerateSecret(u)
  OBVIOUS
<1>2. Len(s) = 8
  BY <1>1, GenerateIs
<1>3. PICK t : t = EnableTwoFactor(u)
  OBVIOUS
<1>4. Len(t) = 27
  BY <1>3, EnableIs
<1>5. QED
  BY <1>1, <1>2, <1>3, <1>4

LEMMA ArriveCodes ==
  ASSUME AccountsTypes, Coding, NEW r \in Requests, Arrive(r)
  PROVE  Coding'
<1>1. Proper /\ Tables /\ UNCHANGED <<user, spent, cache>>
  BY Arrives DEF AccountsTypes, Shaped, tables
<1>2. PICK op, about, program :
        /\ Begin(r, op, about, program) /\ Program(program)
        /\ \/ \A u \in Users : SparesAll(program, u)
           \/ \E u \in Registered : about = {u} /\ program \in {GenerateSecret(u), EnableTwoFactor(u)}
  BY <1>1, ArriveComes, ComesSpares
<1>3. /\ Elsewhere(r) /\ req[r] = Idle /\ contended \subseteq contended'
      /\ req'[r].about = about /\ req'[r].todo = program
  <2>1. Start(r, op, about, program)
    BY <1>2 DEF Begin
  <2>2. /\ Elsewhere(r) /\ req[r] = Idle /\ contended' = contended \cup (about \cap Others(r))
        /\ req'[r] = [op |-> op, about |-> about, todo |-> program, got |-> <<>>]
    BY <1>1, <1>2, <2>1, Starts
  <2>3. QED
    BY <2>2
<1>4. Shaped'
  BY ArriveTyped DEF AccountsTypes
<1>5. SUFFICES ASSUME NEW u \in Users \ contended' PROVE Fine(u)'
  BY DEF Coding
<1>6. Fine(u) /\ Untouched(u)
  BY <1>1, <1>3 DEF Coding, Untouched, NoTemp
<1>7. \A q \in Requests : q # r => req'[q] = req[q]
  BY <1>3 DEF Elsewhere
<1>8. CASE u \in Registered /\ \E q \in Requests : Busy(q, u)
  <2>1. PICK q \in Requests : Busy(q, u)
    BY <1>8
  <2>2. q # r
    BY <1>3, <2>1 DEF Busy, Idle
  <2>3. Busy(q, u)' /\ u \in Registered'
    BY <1>6, <1>7, <1>8, <2>1, <2>2, UntouchedKeeps
  <2>4. QED
    BY <2>3 DEF Fine
<1>9. CASE (u \in Registered => Coherent(u)) /\ \A q \in Requests : SparesUser(q, u)
  <2>1. \A q \in Requests : q # r => SparesUser(q, u)'
    BY <1>6, <1>7, <1>9, UntouchedKeeps
  <2>2. u \in Registered' => Coherent(u)'
    BY <1>1, <1>9 DEF Registered, Coherent, NoTemp
  <2>3. ASSUME SparesUser(r, u)' PROVE Fine(u)'
    BY <2>1, <2>2, <2>3 DEF Fine
  <2>4. CASE u \notin about
    BY <1>3, <1>4, <2>3, <2>4, SparesAbsentNext
  <2>5. CASE SparesAll(program, u)
    BY <1>3, <2>3, <2>5 DEF SparesAll, SparesUser, Left
  <2>6. CASE u \in Registered /\ about = {u} /\ program \in {GenerateSecret(u), EnableTwoFactor(u)}
    <3>1. Coherent(u)' /\ u \in Registered'
      BY <1>1, <2>2, <2>6 DEF Registered
    <3>2. Off(r, u, 0)'
      BY <3>1 DEF Off
    <3>3. Follows(req'[r].todo, program, 0, u)
      <4>1. Len(program) > 0
        <5>1. program = GenerateSecret(u) \/ program = EnableTwoFactor(u)
          BY <2>6
        <5>2. QED
          BY ONLY <5>1, ScriptsLong
      <4>2. QED
        BY <1>2, <1>3, <4>1, FollowsWhole
    <3>4. Busy(r, u)'
      <4>1. CASE program = GenerateSecret(u)
        <5>1. Generates(r, u)'
          <6>1. Follows(req'[r].todo, GenerateSecret(u), 0, u) /\ 0 \in 0..7
            BY <3>3, <4>1
          <6>2. QED
            BY <3>2, <6>1 DEF Generates
        <5>2. QED
          BY <1>3, <2>6, <5>1 DEF Busy
      <4>2. CASE program = EnableTwoFactor(u)
        <5>1. Enables(r, u)'
          <6>1. Follows(req'[r].todo, EnableTwoFactor(u), 0, u) /\ 0 \in 0..26 /\ 0 <= 16
            BY <3>3, <4>2
          <6>2. QED
            BY <3>2, <6>1 DEF Enables
        <5>2. QED
          BY <1>3, <2>6, <5>1 DEF Busy
      <4>3. QED
        BY <2>6, <4>1, <4>2
    <3>5. QED
      BY <3>1, <3>4 DEF Fine
  <2>7. QED
    BY <1>2, <2>4, <2>5, <2>6
<1>10. QED
  BY <1>6, <1>8, <1>9 DEF Fine

LEMMA FaultCodes ==
  ASSUME AccountsTypes, Coding, NEW r \in Requests, UsersFault(r), UNCHANGED spent
  PROVE  Coding'
<1>1. Proper /\ Fault(r) /\ UNCHANGED <<user, cache>>
  BY DEF AccountsTypes, Shaped, UsersFault
<1>2. Elsewhere(r) /\ Left(r)' = {} /\ contended' = contended \cup req[r].about
  BY <1>1, Faults
<1>3. SUFFICES ASSUME NEW u \in Users \ contended' PROVE Fine(u)'
  BY DEF Coding
<1>4. Fine(u) /\ Untouched(u) /\ u \notin req[r].about
  BY <1>1, <1>2 DEF Coding, Untouched, NoTemp
<1>5. \A q \in Requests : q # r => req'[q] = req[q]
  BY <1>2 DEF Elsewhere
<1>6. CASE u \in Registered /\ \E q \in Requests : Busy(q, u)
  <2>1. PICK q \in Requests : Busy(q, u)
    BY <1>6
  <2>2. q # r
    BY <1>4, <2>1 DEF Busy
  <2>3. Busy(q, u)' /\ u \in Registered'
    BY <1>4, <1>5, <1>6, <2>1, <2>2, UntouchedKeeps
  <2>4. QED
    BY <2>3 DEF Fine
<1>7. CASE (u \in Registered => Coherent(u)) /\ \A q \in Requests : SparesUser(q, u)
  <2>1. \A q \in Requests : q # r => SparesUser(q, u)'
    BY <1>4, <1>5, <1>7, UntouchedKeeps
  <2>2. u \in Registered' => Coherent(u)'
    BY <1>1, <1>7 DEF Registered, Coherent, NoTemp
  <2>3. SparesUser(r, u)'
    BY <1>2 DEF SparesUser
  <2>4. QED
    BY <2>1, <2>2, <2>3 DEF Fine
<1>8. QED
  BY <1>4, <1>6, <1>7 DEF Fine

\* Keys only expire.
LEMMA ExpiryCodes ==
  ASSUME Coding, UNCHANGED <<req, contended, user, spent>>, DOMAIN cache' \subseteq DOMAIN cache
  PROVE  Coding'
<1>1. SUFFICES ASSUME NEW u \in Users \ contended' PROVE Fine(u)'
  BY DEF Coding
<1>2. Fine(u) /\ Untouched(u)
  BY <1>1 DEF Coding, Untouched, NoTemp
<1>3. ASSUME NEW q \in Requests
      PROVE  /\ Busy(q, u) => Busy(q, u)'
             /\ SparesUser(q, u) => SparesUser(q, u)'
  BY <1>2, UntouchedKeeps
<1>4. CASE u \in Registered /\ \E q \in Requests : Busy(q, u)
  <2>1. u \in Registered'
    BY <1>4 DEF Registered
  <2>2. QED
    BY <1>3, <1>4, <2>1 DEF Fine
<1>5. CASE (u \in Registered => Coherent(u)) /\ \A q \in Requests : SparesUser(q, u)
  <2>1. u \in Registered' => Coherent(u)'
    <3>1. u \in Registered' => u \in Registered
      BY DEF Registered
    <3>2. NoTemp(u) => NoTemp(u)'
      BY <1>2 DEF Untouched
    <3>3. QED
      BY <1>5, <3>1, <3>2 DEF Coherent
  <2>2. QED
    BY <1>3, <1>5, <2>1 DEF Fine
<1>6. QED
  BY <1>2, <1>4, <1>5 DEF Fine

LEMMA InitCodes ==
  ASSUME Init
  PROVE  Coding
<1>1. HandlersInit /\ \A r \in Requests : Left(r) = {}
  BY NoneYet DEF Init
<1>2. /\ cache = <<>> /\ user = mix.tables.users
      /\ spent = [u \in Users |-> {}]
  BY DEF Init, UsersInit, RedisInit, TwoFactorInit
<1>3. Consistent(mix.tables)
  BY <1>1, AccountsAssumption DEF HandlersInit
<1>4. ASSUME NEW u \in Registered PROVE Coherent(u)
  <2>1. u \in Users /\ mix.tables.users[u] # NoRow
    BY <1>2 DEF Registered
  <2>2. mix.tables.users[u].codes # {} => mix.tables.users[u].twoFa
    BY <1>3, <2>1 DEF Consistent
  <2>3. NoTemp(u)
    BY <1>2 DEF NoTemp
  <2>4. QED
    BY <1>2, <2>1, <2>2, <2>3 DEF Coherent
<1>5. \A r \in Requests, u \in Users : SparesUser(r, u)
  BY <1>1 DEF SparesUser
<1>6. QED
  BY <1>4, <1>5 DEF Coding, Fine

\* Recovery codes are left only while two-factor authentication is on, and none of them was accepted before,
\* and no proposed secret is left where one is in use, once a user has settled.
THEOREM CodesCoherent == Spec => []TwoFactorCoherent
<1>1. Init => Coding
  BY InitCodes
<1>2. ASSUME AccountsTypes, Safe, Coding, [Next]_vars PROVE Coding'
  <2>1. CASE \E r \in Requests : Arrive(r) \/ Progress(r)
    BY <1>2, <2>1, ArriveCodes, ProgressCodes
  <2>2. CASE \E r \in Requests : UsersFault(r) /\ UNCHANGED <<spent, tokens, jwts, linkTokens, reviews>>
    BY <1>2, <2>2, FaultCodes
  <2>3. CASE Forget \/ UNCHANGED vars
    <3>1. UNCHANGED <<req, contended, user, spent>> /\ DOMAIN cache' \subseteq DOMAIN cache
      BY <2>3 DEF Forget, UsersExpire, Expire, Without, handlerVars, vars
    <3>2. QED
      BY <1>2, <3>1, ExpiryCodes
  <2>4. QED
    BY <1>2, <2>1, <2>2, <2>3 DEF Next
<1>3. ASSUME Coding PROVE TwoFactorCoherent
  <2>1. ASSUME NEW u \in Registered, Settled(u) PROVE Coherent(u)
    <3>1. u \in Users \ contended /\ \A r \in Requests : u \notin req[r].about
      BY <2>1 DEF Registered, Settled, Quiet
    <3>2. \A r \in Requests : ~Busy(r, u)
      BY <3>1 DEF Busy
    <3>3. Fine(u)
      BY <1>3, <3>1 DEF Coding
    <3>4. QED
      BY <2>1, <3>2, <3>3 DEF Fine
  <2>2. QED
    BY <2>1 DEF TwoFactorCoherent, Coherent, NoTemp
<1>4. QED
  BY <1>1, <1>2, <1>3, AccountsKnown, PTL DEF Spec
=============================================================================
