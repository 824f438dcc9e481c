------------------------------ MODULE Accounts ------------------------------
(***************************************************************************)
(* Accounts, namespaces and the permissions that link them, changed by     *)
(* requests to the API that run at the same time. Each SQL statement is    *)
(* one step, and a transaction is one step; what a request has read may be *)
(* stale at its next statement (internal/api/v1/users.go, namespaces.go,   *)
(* db/users.go, db/namespaces.go).                                         *)
(***************************************************************************)
EXTENDS Naturals, FiniteSets

CONSTANTS Requests, \* requests that may run at the same time
          Users,    \* user names
          Spaces,   \* namespace names
          MaxUsers, \* bound on the user rows ever inserted
          MaxSpaces, \* bound on the namespace rows ever inserted
          Kinds,    \* what may happen, some of: "overlap", "demote", "error"
          None

VARIABLES users,      \* name -> its row: id, role and (history) which row ever; or None
          spaces,     \* name -> its row: the id, or None
          userSeq,    \* the ids that AUTOINCREMENT has given out
          spaceSeq,
          grants,     \* user_namespace_permissions, and the rows they were asked for
          enforced,   \* the driver enforces foreign keys
          req         \* request -> its next statement and what it has read

vars == <<users, spaces, userSeq, spaceSeq, grants, enforced, req>>

Roles == {"admin", "other"}

(* A row of users.                                                         *)
UserRow == [id : Nat, role : Roles, born : Nat]

(* None is not a row, nor an id.                                           *)
ASSUME NoneAssumption == None \notin UserRow /\ None \notin Nat

Free == [do |-> "none", user |-> None, space |-> None,
         uid |-> None, sid |-> None, born |-> None]

Admins == {u \in Users : users[u] # None /\ users[u].role = "admin"}

Idle == \A r \in Requests : req[r].do \in {"none", "panic"}

Go(r, do) == req' = [req EXCEPT ![r].do = do]

Answer(r) == req' = [req EXCEPT ![r] = Free]

(* A request that passed requireAuth and the permission check; its first   *)
(* statement is the first that matters to anybody else.                    *)
Receive(r) == req[r] = Free /\ ("overlap" \in Kinds \/ Idle)

Await(r, do, u) == req' = [req EXCEPT ![r].do = do, ![r].user = u]

(* A statement fails, and the request with it: nothing has been changed.   *)
Fail(r) ==
  /\ "error" \in Kinds
  /\ req[r].do \notin {"none", "panic", "view"}
  /\ Answer(r)
  /\ UNCHANGED <<users, spaces, userSeq, spaceSeq, grants, enforced>>

-----------------------------------------------------------------------------
\* Mutant of NextUser: the table is declared without AUTOINCREMENT.
NextUserReused ==
  CHOOSE n \in 1..MaxUsers : \A u \in Users : users[u] # None => users[u].id < n

(* INTEGER PRIMARY KEY AUTOINCREMENT: an id is never given out again.      *)
NextUser == userSeq + 1

CreateUser(r, u, role) ==
  /\ Receive(r) /\ userSeq < MaxUsers
  /\ users[u] = None
  /\ users' = [users EXCEPT ![u] = [id |-> NextUser, role |-> role, born |-> userSeq + 1]]
  /\ userSeq' = userSeq + 1
  /\ Await(r, "view", u)
  /\ UNCHANGED <<spaces, spaceSeq, grants, enforced>>

(* UpdateUser, one transaction.                                            *)
UpdateUser(r, u, role) ==
  /\ Receive(r) /\ "demote" \in Kinds
  /\ users[u] # None
  /\ users' = [users EXCEPT ![u].role = role]
  /\ Await(r, "view", u)
  /\ UNCHANGED <<spaces, userSeq, spaceSeq, grants, enforced>>

(* The reply shows the row, read once more: nothing to show, and the       *)
(* handler takes the contents of a nil pointer.                            *)
ViewUser(r) ==
  /\ req[r].do = "view"
  /\ IF users[req[r].user] = None THEN Go(r, "panic") ELSE Answer(r)
  /\ UNCHANGED <<users, spaces, userSeq, spaceSeq, grants, enforced>>

-----------------------------------------------------------------------------
(* DeleteUser: the user is read, ...                                       *)
FindUser(r, u) ==
  /\ Receive(r)
  /\ users[u] # None
  /\ Await(r, IF u \in Admins THEN "count" ELSE "drop", u)
  /\ UNCHANGED <<users, spaces, userSeq, spaceSeq, grants, enforced>>

(* ... administrators are counted, ...                                     *)
CountAdmins(r) ==
  /\ req[r].do = "count"
  /\ IF Cardinality(Admins) <= 1 THEN Answer(r) ELSE Go(r, "drop")
  /\ UNCHANGED <<users, spaces, userSeq, spaceSeq, grants, enforced>>

(* ... and whoever has the name by now is deleted, with the permissions if *)
(* foreign keys are enforced.                                              *)
DropUser(r) ==
  /\ req[r].do = "drop"
  /\ LET row == users[req[r].user]
     IN  grants' = IF enforced /\ row # None THEN {g \in grants : g.uid # row.id}
                   ELSE grants
  /\ users' = [users EXCEPT ![req[r].user] = None]
  /\ Answer(r)
  /\ UNCHANGED <<spaces, userSeq, spaceSeq, enforced>>

-----------------------------------------------------------------------------
(* SetUserNamespacePermissionsByName, also to revoke: the ids of the two   *)
(* names, one after the other, ...                                         *)
GetUser(r, u, s) ==
  /\ Receive(r)
  /\ users[u] # None
  /\ req' = [req EXCEPT ![r] = [do |-> "space", user |-> u, space |-> s,
                                uid |-> users[u].id, sid |-> None,
                                born |-> users[u].born]]
  /\ UNCHANGED <<users, spaces, userSeq, spaceSeq, grants, enforced>>

GetNamespace(r) ==
  /\ req[r].do = "space"
  /\ IF spaces[req[r].space] = None THEN Answer(r)
     ELSE req' = [req EXCEPT ![r].do = "set", ![r].sid = spaces[req[r].space]]
  /\ UNCHANGED <<users, spaces, userSeq, spaceSeq, grants, enforced>>

(* Both ids are still those of a row.                                      *)
KeysHold(r) ==
  /\ \E u \in Users : users[u] # None /\ users[u].id = req[r].uid
  /\ \E s \in Spaces : spaces[s] = req[r].sid

(* ... and INSERT OR REPLACE of the row that links the ids.                *)
SetPermissions(r) ==
  /\ req[r].do = "set"
  /\ grants' = IF enforced /\ ~KeysHold(r) THEN grants
               ELSE {g \in grants : <<g.uid, g.sid>> # <<req[r].uid, req[r].sid>>}
                      \cup {[uid |-> req[r].uid, sid |-> req[r].sid,
                             born |-> req[r].born, space |-> req[r].space]}
  /\ Answer(r)
  /\ UNCHANGED <<users, spaces, userSeq, spaceSeq, enforced>>

-----------------------------------------------------------------------------
CreateNamespace(r, s) ==
  /\ Receive(r) /\ spaceSeq < MaxSpaces
  /\ spaces[s] = None
  /\ spaces' = [spaces EXCEPT ![s] = spaceSeq + 1]
  /\ spaceSeq' = spaceSeq + 1
  /\ UNCHANGED <<users, userSeq, grants, enforced, req>>

DeleteNamespace(r, s) ==
  /\ Receive(r)
  /\ spaces[s] # None
  /\ grants' = IF enforced THEN {g \in grants : g.sid # spaces[s]} ELSE grants
  /\ spaces' = [spaces EXCEPT ![s] = None]
  /\ UNCHANGED <<users, userSeq, spaceSeq, enforced, req>>

(* seedDefaultData: one administrator, one namespace.                      *)
Init ==
  /\ \E u \in Users :
       users = [v \in Users |-> IF v = u THEN [id |-> 1, role |-> "admin", born |-> 1] ELSE None]
  /\ \E s \in Spaces : spaces = [t \in Spaces |-> IF t = s THEN 1 ELSE None]
  /\ userSeq = 1 /\ spaceSeq = 1
  /\ grants = {} /\ enforced \in BOOLEAN
  /\ req = [r \in Requests |-> Free]

Next ==
  \E r \in Requests :
    \/ \E u \in Users, role \in Roles : CreateUser(r, u, role) \/ UpdateUser(r, u, role)
    \/ \E u \in Users : FindUser(r, u)
    \/ \E u \in Users, s \in Spaces : GetUser(r, u, s)
    \/ \E s \in Spaces : CreateNamespace(r, s) \/ DeleteNamespace(r, s)
    \/ ViewUser(r) \/ CountAdmins(r) \/ DropUser(r)
    \/ GetNamespace(r) \/ SetPermissions(r) \/ Fail(r)

Spec == Init /\ [][Next]_vars

-----------------------------------------------------------------------------
TypeOK ==
  /\ \A u \in Users : users[u] = None \/ users[u] \in [id : 1..userSeq, role : Roles, born : 1..userSeq]
  /\ \A s \in Spaces : spaces[s] = None \/ spaces[s] \in 1..spaceSeq
  /\ userSeq \in 1..MaxUsers /\ spaceSeq \in 1..MaxSpaces

(* GetUserNamespacePermissions shows an account in a namespace only the    *)
(* permissions that were asked for these two: never those of an account or *)
(* of a namespace that was deleted while a request still held its id, nor  *)
(* those left behind where foreign keys are not enforced.                  *)
GrantsAsAsked ==
  \A g \in grants, u \in Users, s \in Spaces :
    users[u] # None /\ users[u].id = g.uid /\ spaces[s] = g.sid
      => g.born = users[u].born /\ g.space = s

(* "Prevent removing the last admin - the system would become              *)
(* unmanageable".                                                          *)
AdminRemains == Admins # {}

(* Every request is answered by its handler.                               *)
NoPanic == \A r \in Requests : req[r].do # "panic"
=============================================================================
