-------------------------------- MODULE Rbac --------------------------------
(***************************************************************************)
(* Roles and permissions of a tenant (role.service.ts), and the guard of   *)
(* the admin endpoints that reads them (permissions.guard.ts).  A role is  *)
(* named by its name, which is unique.  Nothing removes a row.             *)
(***************************************************************************)
EXTENDS Audit

CONSTANTS
  Accounts,   \* users, who all exist
  Roles, Permissions,
  Seeded,     \* the role and the permission seed-admin.js creates
  Required,   \* the permissions of admin/sessions/:id, { sessions:write }
  Sessions

ASSUME RbacAssumption ==
  Required \subseteq Permissions /\ Seeded \subseteq Roles \union Permissions

VARIABLES
  made,   \* the rows of roles and of permissions
  links,  \* role_permissions and user_roles
  ended,  \* <<admin, session>>: the sessions revoked here, and by whom
  told    \* ghost: what was said to be there already (409)

rbacVars == <<made, links, ended, told>>

\* The seed script may have been run, and died before it linked the two.
RbacInit == made \in {{}, Seeded} /\ links = {} /\ ended = {} /\ told = {}

-----------------------------------------------------------------------------
(* Roles and permissions are created alike.                                *)

\* createRole, createPermission: the name is taken, or free.
CreateRow(w, x) ==
  /\ \/ x \in made /\ told' = told \union {x} /\ UNCHANGED auditVars
     \/ /\ x \notin made /\ UNCHANGED told
        /\ Begin(w, [Blank EXCEPT !.op = "create", !.on = x], "insert")
  /\ UNCHANGED <<made, links, ended>>

\* The key is unique: who comes second gets a 500.
InsertRow(w) ==
  /\ pc[w] = "insert"
  /\ IF req[w].on \in made THEN Refuse(w) /\ UNCHANGED made
     ELSE made' = made \union {req[w].on} /\ Answer(w)
  /\ UNCHANGED <<links, ended, told>>

\* assignPermissionToRole and assignRoleToUser: x gets y.  The first of them is
\* looked up, ...
Assign(w, x, y) ==
  /\ x \in made \union Accounts
  /\ Begin(w, [Blank EXCEPT !.op = "assign", !.on = x, !.to = y], "second")
  /\ UNCHANGED rbacVars

\* One try around the lookups and the create.
SlipFindSecond(w) ==
  /\ pc[w] = "second"
  /\ IF req[w].to \in made THEN Step(w, "link", {}) /\ UNCHANGED told
     ELSE Refuse(w) /\ told' = told \union {<<req[w].on, req[w].to>>}
  /\ UNCHANGED <<made, links, ended>>

\* ... then the second: 404 or on.
FindSecond(w) ==
  /\ pc[w] = "second"
  /\ IF req[w].to \in made THEN Step(w, "link", {}) ELSE Refuse(w)
  /\ UNCHANGED rbacVars

\* Whatever keeps the row from being created is reported as a 409.
Link(w) ==
  /\ pc[w] = "link"
  /\ LET l == <<req[w].on, req[w].to>>
     IN \/ l \in links /\ Refuse(w) /\ told' = told \union {l} /\ UNCHANGED links
        \/ l \notin links /\ Answer(w) /\ links' = links \union {l} /\ UNCHANGED told
        \/ Fault(w) /\ told' = told \union {l} /\ UNCHANGED links
  /\ UNCHANGED <<made, ended>>

-----------------------------------------------------------------------------
(* The guard, and the one admin endpoint that writes.                      *)

\* The user is left out of the query.
SlipReadRoles(w, u, s) ==
  /\ Begin(w, [Blank EXCEPT !.op = "end", !.who = u, !.on = s,
                            !.read = {r \in Roles : \E a \in Accounts : <<a, r>> \in links}],
           "guard")
  /\ UNCHANGED rbacVars

\* findMany with include is a query for the user's roles ...
ReadRoles(w, u, s) ==
  /\ Begin(w, [Blank EXCEPT !.op = "end", !.who = u, !.on = s,
                            !.read = {r \in Roles : <<u, r>> \in links}],
           "guard")
  /\ UNCHANGED rbacVars

\* ... and one for the permissions of these.
ReadPermissions(w) ==
  /\ pc[w] = "guard"
  /\ IF \A p \in Required : \E r \in req[w].read : <<r, p>> \in links
     THEN Step(w, "end", {}) ELSE Refuse(w)
  /\ UNCHANGED rbacVars

EndSession(w) ==
  /\ pc[w] = "end"
  /\ ended' = ended \union {<<req[w].who, req[w].on>>}
  /\ Answer(w)
  /\ UNCHANGED <<made, links, told>>

-----------------------------------------------------------------------------
RbacArrive(w) ==
  \/ \E x \in Roles \union Permissions : CreateRow(w, x)
  \/ \E x \in Roles, y \in Permissions : Assign(w, x, y)
  \/ \E x \in Accounts, y \in Roles : Assign(w, x, y)
  \/ \E u \in Accounts, s \in Sessions : ReadRoles(w, u, s)

RbacContinue(w) ==
  \/ InsertRow(w)
  \/ FindSecond(w)
  \/ Link(w)
  \/ ReadPermissions(w)
  \/ EndSession(w)

-----------------------------------------------------------------------------
\* A 409 is true: the row is there, unless the create failed for another reason.
ConflictIsTrue == \A x \in told : x \in made \union links \/ faults > 0

\* A session is revoked by an admin only if roles that were given to this user
\* hold every required permission, although the guard reads them by two queries
\* while others change them.
EndedByEntitled ==
  \A e \in ended : \A p \in Required : \E r \in Roles : {<<e[1], r>>, <<r, p>>} \subseteq links
=============================================================================
