---------------------------- MODULE AccessProofs ----------------------------
(***************************************************************************)
(* Who has access, and keeps it.  For any number of requests, accounts and *)
(* namespaces, whether or not foreign keys are enforced: permissions are   *)
(* seen only where they were asked for (module Accounts).  For any number  *)
(* of processes and any lives of tokens: restarts keep the credentials     *)
(* file and the tokens at large valid (module Startup), as long as no      *)
(* secret is configured and a key file, once written, stays readable.      *)
(***************************************************************************)
EXTENDS Accounts, Startup, TLAPS

-----------------------------------------------------------------------------
(* Accounts and permissions.                                               *)

Statements == {"none", "view", "panic", "count", "drop", "space", "set"}

Request == [do : Statements, user : Users \cup {None}, space : Spaces \cup {None},
            uid : Nat \cup {None}, sid : Nat \cup {None}, born : Nat \cup {None}]

Grant == [uid : Nat \cup {None}, sid : Nat \cup {None}, born : Nat \cup {None},
          space : Spaces \cup {None}]

Shape ==
  /\ users \in [Users -> UserRow \cup {None}]
  /\ spaces \in [Spaces -> Nat \cup {None}]
  /\ userSeq \in Nat /\ spaceSeq \in Nat
  /\ grants \subseteq Grant
  /\ req \in [Requests -> Request]

(* An id is given out once: it is the number of its row.                   *)
RowsNumbered == \A u \in Users : users[u] # None => users[u].id = users[u].born

(* Of two namespaces at most one has a given id, and none has one that is  *)
(* still to come.                                                          *)
SpacesNumbered ==
  /\ \A s \in Spaces : spaces[s] # None => spaces[s] <= spaceSeq
  /\ \A s, t \in Spaces : spaces[s] = spaces[t] /\ spaces[s] # None => s = t

(* An id of a namespace that was read with a name is its, or nobody's.     *)
Names(sid, name) ==
  sid \in Nat /\ sid <= spaceSeq /\ \A s \in Spaces : spaces[s] = sid => s = name

(* What a request has read, and what a permission holds.                   *)
Holds(q) == /\ q.do \in {"space", "set"} => q.uid = q.born /\ q.space \in Spaces
            /\ q.do = "set" => Names(q.sid, q.space)

Right(g) == g.uid = g.born /\ Names(g.sid, g.space)

ReadsHold == \A r \in Requests : Holds(req[r])

GrantsHold == \A g \in grants : Right(g)

IInv == Shape /\ RowsNumbered /\ SpacesNumbered /\ ReadsHold /\ GrantsHold

-----------------------------------------------------------------------------
LEMMA FreeIsRequest == Free \in Request /\ Free.do \notin {"space", "set"}
<1>1. Free.do = "none" /\ "none" \in Statements
  BY DEF Free, Statements
<1>2. Free \in Request
  BY <1>1, Zenon DEF Free, Request
<1> QED
  BY <1>1, <1>2

LEMMA Initially == ASSUME Init PROVE IInv
<1> USE NoneAssumption
<1>1. PICK u \in Users :
        users = [v \in Users |-> IF v = u THEN [id |-> 1, role |-> "admin", born |-> 1] ELSE None]
  BY DEF Init
<1>2. users \in [Users -> UserRow \cup {None}] /\ RowsNumbered
  BY <1>1 DEF UserRow, Roles, RowsNumbered
<1>3. PICK s \in Spaces : spaces = [t \in Spaces |-> IF t = s THEN 1 ELSE None]
  BY DEF Init
<1>4. spaces \in [Spaces -> Nat \cup {None}] /\ userSeq = 1 /\ spaceSeq = 1 /\ SpacesNumbered
  BY <1>3 DEF Init, SpacesNumbered
<1>5. req \in [Requests -> Request] /\ ReadsHold
  BY FreeIsRequest, Zenon DEF Init, ReadsHold, Holds
<1>6. grants \subseteq Grant /\ GrantsHold
  BY Zenon DEF Init, GrantsHold
<1> QED
  BY <1>2, <1>4, <1>5, <1>6 DEF IInv, Shape

(* Steps that leave the namespaces alone.                                  *)
LEMMA AccountStep ==
  ASSUME IInv, UNCHANGED <<spaces, spaceSeq>>,
         NEW r \in Requests, NEW q \in Request, Holds(q), req' = [req EXCEPT ![r] = q],
         users' \in [Users -> UserRow \cup {None}], RowsNumbered', userSeq' \in Nat,
         \A g \in grants' : g \in grants \/ (g \in Grant /\ Right(g))
  PROVE  IInv'
<1>1. \A x : Holds(x)' = Holds(x)
  BY DEF Holds, Names
<1>2. \A x : Right(x)' = Right(x)
  BY DEF Right, Names
<1>3. req' \in [Requests -> Request] /\ \A p \in Requests : req'[p] = req[p] \/ req'[p] = q
  BY DEF IInv, Shape
<1>4. ReadsHold'
  BY <1>1, <1>3 DEF IInv, ReadsHold
<1>5. grants' \subseteq Grant /\ GrantsHold'
  BY <1>2 DEF IInv, Shape, GrantsHold
<1>6. Shape' /\ SpacesNumbered'
  BY <1>3, <1>5 DEF IInv, Shape, SpacesNumbered
<1> QED
  BY <1>4, <1>5, <1>6 DEF IInv

(* Those that leave the accounts and permissions alone, too.               *)
LEMMA RequestStep ==
  ASSUME IInv, UNCHANGED <<spaces, spaceSeq, users, userSeq, grants>>,
         NEW r \in Requests, NEW q \in Request, Holds(q), req' = [req EXCEPT ![r] = q]
  PROVE  IInv'
<1>1. users' \in [Users -> UserRow \cup {None}] /\ RowsNumbered' /\ userSeq' \in Nat
  BY DEF IInv, Shape, RowsNumbered
<1>2. \A g \in grants' : g \in grants
  OBVIOUS
<1> QED
  BY <1>1, <1>2, AccountStep, Zenon

LEMMA Idles == ASSUME NEW q, q.do \notin {"space", "set"} PROVE Holds(q)
BY DEF Holds

LEMMA FreeHolds == Free \in Request /\ Holds(Free)
BY FreeIsRequest, Idles

LEMMA Awaits ==
  ASSUME IInv, NEW r \in Requests, NEW do \in Statements, NEW u \in Users, Await(r, do, u)
  PROVE  \E q \in Request : q.do = do /\ req' = [req EXCEPT ![r] = q]
<1>1. req[r] \in Request /\ req \in [Requests -> Request]
  BY DEF IInv, Shape
<1>2. PICK q : q = [req[r] EXCEPT !.do = do, !.user = u]
  OBVIOUS
<1>3. q \in Request /\ q.do = do
  BY Zenon, <1>1, <1>2 DEF Request
<1>4. req' = [req EXCEPT ![r] = q]
  BY Zenon, <1>1, <1>2 DEF Await
<1> QED
  BY Zenon, <1>3, <1>4

LEMMA Gos ==
  ASSUME IInv, NEW r \in Requests, NEW do \in Statements, Go(r, do)
  PROVE  \E q \in Request : q.do = do /\ req' = [req EXCEPT ![r] = q]
<1>1. req[r] \in Request /\ req \in [Requests -> Request]
  BY DEF IInv, Shape
<1>2. PICK q : q = [req[r] EXCEPT !.do = do]
  BY Zenon
<1>3. q \in Request /\ q.do = do
  BY <1>1, <1>2 DEF Request
<1>4. req' = [req EXCEPT ![r] = q]
  BY <1>1, <1>2 DEF Go
<1> QED
  BY Zenon, <1>3, <1>4

-----------------------------------------------------------------------------
(* Requests that only read, and one that fails.                            *)
LEMMA ReadSteps ==
  ASSUME IInv, NEW r \in Requests,
         Fail(r) \/ ViewUser(r) \/ CountAdmins(r) \/ \E u \in Users : FindUser(r, u)
  PROVE  IInv'
<1>1. /\ UNCHANGED <<spaces, spaceSeq, users, userSeq, grants>>
      /\ \/ Answer(r) \/ Go(r, "panic") \/ Go(r, "drop")
         \/ \E u \in Users : Await(r, "count", u) \/ Await(r, "drop", u)
  BY DEF Fail, ViewUser, CountAdmins, FindUser
<1>2. CASE Answer(r)
  BY Zenon, <1>1, <1>2, FreeHolds, RequestStep DEF Answer
<1>3. CASE Go(r, "panic") \/ Go(r, "drop")
  <2>1. \E q \in Request : q.do \in {"panic", "drop"} /\ req' = [req EXCEPT ![r] = q]
    BY <1>3, Gos DEF Statements
  <2> QED
    BY Zenon, <1>1, <2>1, Idles, RequestStep
<1>4. CASE \E u \in Users : Await(r, "count", u) \/ Await(r, "drop", u)
  <2>1. \E q \in Request : q.do \in {"count", "drop"} /\ req' = [req EXCEPT ![r] = q]
    BY <1>4, Awaits DEF Statements
  <2> QED
    BY Zenon, <1>1, <2>1, Idles, RequestStep
<1> QED
  BY <1>1, <1>2, <1>3, <1>4

(* Accounts.                                                               *)
LEMMA UserSteps ==
  ASSUME IInv,
         NEW r \in Requests, NEW u \in Users, NEW role \in Roles,
         CreateUser(r, u, role) \/ UpdateUser(r, u, role)
  PROVE  IInv'
<1> USE NoneAssumption
<1>0. users \in [Users -> UserRow \cup {None}] /\ userSeq \in Nat /\ RowsNumbered
  BY DEF IInv, Shape
<1>1. CASE CreateUser(r, u, role)
  <2>1. PICK n \in Nat : n = userSeq + 1
    BY <1>0
  <2>2. users' = [users EXCEPT ![u] = [id |-> n, role |-> role, born |-> n]]
    BY <1>1, <2>1 DEF CreateUser, NextUser
  <2>3. [id |-> n, role |-> role, born |-> n] \in UserRow
    BY Zenon DEF UserRow
  <2>4. users' \in [Users -> UserRow \cup {None}] /\ RowsNumbered'
    BY <1>0, <2>2, <2>3 DEF RowsNumbered
  <2>5. \E q \in Request : q.do = "view" /\ req' = [req EXCEPT ![r] = q]
    BY <1>1, Awaits DEF CreateUser, Statements
  <2>6. userSeq' \in Nat /\ UNCHANGED <<spaces, spaceSeq, grants>>
    BY <1>0, <1>1 DEF CreateUser
  <2> QED
    BY Zenon, <2>4, <2>5, <2>6, Idles, AccountStep
<1>2. CASE UpdateUser(r, u, role)
  <2>1. users[u] \in UserRow
    BY <1>0, <1>2 DEF UpdateUser
  <2>2. PICK row : row = [users[u] EXCEPT !.role = role]
    BY Zenon
  <2>3. row \in UserRow /\ row.id = users[u].id /\ row.born = users[u].born
    BY <2>1, <2>2 DEF UserRow
  <2>4. users' = [users EXCEPT ![u] = row]
    BY <1>2, <2>2, Zenon DEF UpdateUser
  <2>5. users' \in [Users -> UserRow \cup {None}] /\ RowsNumbered'
    BY <1>0, <1>2, <2>3, <2>4 DEF RowsNumbered, UpdateUser
  <2>6. \E q \in Request : q.do = "view" /\ req' = [req EXCEPT ![r] = q]
    BY <1>2, Awaits DEF UpdateUser, Statements
  <2>7. userSeq' \in Nat /\ UNCHANGED <<spaces, spaceSeq, grants>>
    BY <1>0, <1>2 DEF UpdateUser
  <2> QED
    BY Zenon, <2>5, <2>6, <2>7, Idles, AccountStep
<1> QED
  BY <1>1, <1>2

LEMMA DropStep ==
  ASSUME IInv, NEW r \in Requests, DropUser(r)
  PROVE  IInv'
<1>0. users \in [Users -> UserRow \cup {None}] /\ userSeq \in Nat /\ RowsNumbered
  BY DEF IInv, Shape
<1>1. /\ users' = [users EXCEPT ![req[r].user] = None]
      /\ grants' \subseteq grants /\ Answer(r)
      /\ UNCHANGED <<spaces, spaceSeq, userSeq>>
  BY DEF DropUser
<1>2. users' \in [Users -> UserRow \cup {None}] /\ RowsNumbered'
  BY Zenon, <1>0, <1>1 DEF RowsNumbered
<1> QED
  BY Zenon, <1>0, <1>1, <1>2, FreeHolds, AccountStep DEF Answer

(* Permissions.                                                            *)
LEMMA PermissionSteps ==
  ASSUME IInv, NEW r \in Requests,
         GetNamespace(r) \/ SetPermissions(r) \/ \E u \in Users, s \in Spaces : GetUser(r, u, s)
  PROVE  IInv'
<1> USE NoneAssumption
<1>0. /\ users \in [Users -> UserRow \cup {None}] /\ userSeq \in Nat /\ RowsNumbered
      /\ spaces \in [Spaces -> Nat \cup {None}] /\ SpacesNumbered
      /\ req \in [Requests -> Request] /\ req[r] \in Request /\ Holds(req[r])
  BY DEF IInv, Shape, ReadsHold
<1>1. ASSUME NEW u \in Users, NEW s \in Spaces, GetUser(r, u, s)
      PROVE  IInv'
  <2>1. users[u] \in UserRow /\ users[u].id = users[u].born
    BY <1>0, <1>1 DEF GetUser, RowsNumbered
  <2>2. users[u].id \in Nat /\ users[u].born \in Nat
    BY <2>1 DEF UserRow
  <2>3. PICK q : q = [do |-> "space", user |-> u, space |-> s, uid |-> users[u].id,
                      sid |-> None, born |-> users[u].born]
    BY Zenon
  <2>4. q.do = "space" /\ q.uid = q.born /\ q.space \in Spaces
    BY <2>1, <2>3
  <2>5. q \in Request
    BY <2>2, <2>3, Zenon DEF Request, Statements
  <2>6. Holds(q)
    BY <2>4 DEF Holds
  <2>7. /\ UNCHANGED <<spaces, spaceSeq, users, userSeq, grants>>
        /\ req' = [req EXCEPT ![r] = q]
    BY <1>1, <2>3, Zenon DEF GetUser
  <2> QED
    BY <2>5, <2>6, <2>7, RequestStep, Zenon
<1>2. CASE GetNamespace(r)
  <2>1. UNCHANGED <<spaces, spaceSeq, users, userSeq, grants>>
    BY <1>2 DEF GetNamespace
  <2>2. CASE spaces[req[r].space] = None
    BY <1>2, <2>1, <2>2, FreeHolds, RequestStep DEF GetNamespace, Answer
  <2>3. CASE spaces[req[r].space] # None
    <3>1. PICK q : q = [req[r] EXCEPT !.do = "set", !.sid = spaces[req[r].space]]
      BY Zenon
    <3>2. req[r].do = "space" /\ req' = [req EXCEPT ![r] = q]
      BY <1>2, <2>3, <3>1, Zenon DEF GetNamespace
    <3>3. req[r].uid = req[r].born /\ req[r].space \in Spaces
      BY <1>0, <3>2 DEF Holds
    <3>4. spaces[req[r].space] \in Nat /\ Names(spaces[req[r].space], req[r].space)
      BY <1>0, <2>3, <3>3 DEF SpacesNumbered, Names
    <3>5. q \in Request
      BY <1>0, <3>1, <3>4, Zenon DEF Request, Statements
    <3>6. /\ q.do = "set" /\ q.uid = req[r].uid /\ q.born = req[r].born
          /\ q.space = req[r].space /\ q.sid = spaces[req[r].space]
      BY <1>0, <3>1 DEF Request
    <3>7. Holds(q)
      BY <3>3, <3>4, <3>6 DEF Holds
    <3> QED
      BY <2>1, <3>2, <3>5, <3>7, RequestStep, Zenon
  <2> QED
    BY <2>2, <2>3
<1>3. CASE SetPermissions(r)
  <2>1. PICK g : g = [uid |-> req[r].uid, sid |-> req[r].sid, born |-> req[r].born,
                      space |-> req[r].space]
    BY Zenon
  <2>2. req[r].uid = req[r].born /\ Names(req[r].sid, req[r].space)
    BY <1>0, <1>3 DEF SetPermissions, Holds
  <2>3. /\ req[r].uid \in Nat \cup {None} /\ req[r].sid \in Nat \cup {None}
        /\ req[r].born \in Nat \cup {None} /\ req[r].space \in Spaces \cup {None}
    BY <1>0, Zenon DEF Request
  <2>4. g \in Grant
    BY <2>1, <2>3, Zenon DEF Grant
  <2>5. Right(g)
    BY <2>1, <2>2 DEF Right
  <2>6. /\ \A h \in grants' : h \in grants \/ h = g
        /\ Answer(r) /\ UNCHANGED <<spaces, spaceSeq, users, userSeq>>
    BY <1>3, <2>1, Zenon DEF SetPermissions
  <2>7. users' \in [Users -> UserRow \cup {None}] /\ RowsNumbered' /\ userSeq' \in Nat
    BY <1>0, <2>6 DEF RowsNumbered
  <2> QED
    BY Zenon, <2>4, <2>5, <2>6, <2>7, FreeHolds, AccountStep DEF Answer
<1> QED
  BY <1>1, <1>2, <1>3

(* Namespaces: an id is new, or goes away.                                 *)
LEMMA SpaceSteps ==
  ASSUME IInv, NEW r \in Requests, NEW s \in Spaces,
         CreateNamespace(r, s) \/ DeleteNamespace(r, s)
  PROVE  IInv'
<1> USE NoneAssumption
<1>1. /\ UNCHANGED <<users, userSeq, req>> /\ grants' \subseteq grants
      /\ spaceSeq' \in Nat /\ spaceSeq <= spaceSeq'
      /\ spaces' \in [Spaces -> Nat \cup {None}] /\ SpacesNumbered'
  BY DEF CreateNamespace, DeleteNamespace, IInv, Shape, SpacesNumbered
<1>2. \A t \in Spaces : spaces'[t] # None => spaces'[t] = spaces[t] \/ spaces'[t] > spaceSeq
  BY DEF CreateNamespace, DeleteNamespace, IInv, Shape
<1>3. spaceSeq \in Nat /\ spaces \in [Spaces -> Nat \cup {None}]
  BY DEF IInv, Shape
<1>4. \A n, name : Names(n, name) => Names(n, name)'
  BY <1>1, <1>2, <1>3 DEF Names
<1>5. ReadsHold' /\ GrantsHold'
  BY <1>1, <1>4 DEF IInv, ReadsHold, GrantsHold, Holds, Right
<1>6. Shape' /\ RowsNumbered'
  BY <1>1 DEF IInv, Shape, RowsNumbered
<1> QED
  BY <1>1, <1>5, <1>6 DEF IInv

LEMMA Inductive ==
  ASSUME IInv, [Next]_vars
  PROVE  IInv'
<1>1. CASE UNCHANGED vars
  BY <1>1 DEF vars, IInv, Shape, RowsNumbered, SpacesNumbered, ReadsHold, GrantsHold,
              Holds, Right, Names
<1>2. ASSUME NEW r \in Requests, NEW u \in Users, NEW role \in Roles,
             CreateUser(r, u, role) \/ UpdateUser(r, u, role)
      PROVE  IInv'
  BY <1>2, UserSteps
<1>3. ASSUME NEW r \in Requests, NEW s \in Spaces,
             CreateNamespace(r, s) \/ DeleteNamespace(r, s)
      PROVE  IInv'
  BY <1>3, SpaceSteps
<1> QED
  BY <1>1, <1>2, <1>3, DropStep, ReadSteps, PermissionSteps DEF Next

(* Whatever requests overlap, and whatever they still hold of rows that    *)
(* are gone, a listing shows an account in a namespace only permissions    *)
(* that were asked for these two: ids are never given out twice.           *)
THEOREM PermissionsAsAsked == Spec => []GrantsAsAsked
<1>1. IInv => GrantsAsAsked
  BY DEF IInv, GrantsAsAsked, RowsNumbered, GrantsHold, Right, Names
<1>2. Init => IInv
  BY Initially
<1>3. IInv /\ [Next]_vars => IInv'
  BY Inductive
<1> QED
  BY <1>1, <1>2, <1>3, PTL DEF Spec

-----------------------------------------------------------------------------
(* Credentials and tokens.                                                 *)

(* The administrator's password is the one in the file, or about to be.    *)
Credentials ==
  /\ life \in Nat
  /\ cred # Absent => admin = cred
  /\ pc = "credentials" /\ NewCredentials => admin = life
  /\ pc = "password" => admin = life

(* The key in use is the one in the file, and tokens are signed with it;   *)
(* a new one is made only while no token is at large.                      *)
Keys ==
  /\ keyFile # Absent => keyFile \in Nat
  /\ pc = "up" => keyStore = keyFile
  /\ pc \in {"seed", "credentials", "password", "load", "save"} => keyStore = Absent
  /\ pc = "save" => keyFile = Absent
  /\ \A t \in tokens : keyFile # Absent /\ t.by = keyFile

StartupInv == Credentials /\ Keys

LEMMA CredentialsStep ==
  ASSUME Credentials, StartupNext
  PROVE  Credentials'
<1> USE AbsentAssumption
<1> USE DEF Credentials
<1>1. CASE \E given \in BOOLEAN : Start(given)
  BY <1>1 DEF Start, account
<1>2. CASE Seed
  BY Zenon, <1>2 DEF Seed, NewCredentials
<1>3. CASE TruncateCredentials
  BY <1>3 DEF TruncateCredentials, NewCredentials
<1>4. CASE WriteCredentials
  BY <1>4 DEF WriteCredentials
<1>5. CASE LoadKey \/ SaveKey \/ Crash
  BY <1>5 DEF LoadKey, SaveKey, Crash, account
<1>6. CASE Login \/ RefreshTokens \/ ChangePassword \/ Tick
  BY <1>6 DEF Login, RefreshTokens, ChangePassword, Tick, account, NewCredentials
<1> QED
  BY <1>1, <1>2, <1>3, <1>4, <1>5, <1>6 DEF StartupNext

LEMMA HandOutSigned ==
  ASSUME ~Secret, Keys, pc = "up", HandOut, UNCHANGED <<pc, keyFile, keyStore>>
  PROVE  Keys'
<1>1. Signer # Absent => Signer = keyFile
  BY DEF Signer, Keys
<1>2. \A t \in tokens' : t \in tokens \/ t.by = Signer
  BY DEF HandOut
<1> QED
  BY <1>1, <1>2 DEF Keys, HandOut

LEMMA KeysStep ==
  ASSUME ~Secret, "read" \notin Mishaps, "power" \notin Mishaps,
         life \in Nat, Keys, StartupNext
  PROVE  Keys'
<1> USE AbsentAssumption
<1>1. CASE \E given \in BOOLEAN : Start(given)
  BY <1>1 DEF Keys, Start, clients
<1>2. CASE Seed \/ TruncateCredentials \/ WriteCredentials
  BY <1>2 DEF Keys, Seed, TruncateCredentials, WriteCredentials, clients
<1>3. CASE LoadKey
  BY <1>3 DEF Keys, LoadKey, clients
<1>4. CASE SaveKey
  BY <1>4 DEF Keys, SaveKey, clients
<1>5. CASE Crash
  BY <1>5 DEF Keys, Crash, clients
<1>6. CASE Login \/ RefreshTokens
  BY <1>6, HandOutSigned DEF Login, RefreshTokens
<1>7. CASE ChangePassword \/ Tick
  BY <1>7 DEF Keys, ChangePassword, Tick, clients
<1> QED
  BY <1>1, <1>2, <1>3, <1>4, <1>5, <1>6, <1>7 DEF StartupNext

LEMMA Signed ==
  ASSUME StartupInv
  PROVE  AccessSurvives
<1> USE AbsentAssumption
<1>1. CredentialsOpen
  BY DEF StartupInv, Credentials, CredentialsOpen
<1>2. TokensAccepted
  BY DEF StartupInv, Keys, TokensAccepted, VerifyAccessToken, Signer
<1> QED
  BY <1>1, <1>2 DEF AccessSurvives

(* However often the broker is started, and wherever a start is cut short  *)
(* or cannot write its files, a credentials file opens the account it was  *)
(* written for and no token that is still valid is refused.                *)
THEOREM RestartsKeepAccess ==
  ASSUME ~Secret, "read" \notin Mishaps, "power" \notin Mishaps
  PROVE  StartupSpec => []AccessSurvives
<1> USE AbsentAssumption
<1>1. StartupInit => StartupInv
  BY DEF StartupInit, StartupInv, Credentials, Keys
<1>2. StartupInv /\ [StartupNext]_startupVars => StartupInv'
  <2>1. CASE UNCHANGED startupVars
    BY <2>1 DEF startupVars, StartupInv, Credentials, Keys, NewCredentials
  <2> QED
    BY <2>1, CredentialsStep, KeysStep DEF StartupInv, Credentials
<1>3. StartupInv => AccessSurvives
  BY Signed
<1> QED
  BY <1>1, <1>2, <1>3, PTL DEF StartupSpec
=============================================================================
