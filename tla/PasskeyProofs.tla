--------------------------- MODULE PasskeyProofs ---------------------------
(* Proofs about Passkey, that is Identity, DpopKey and the passkeys together, *)
(* for any number of users, requests, credentials, provider accounts and     *)
(* requests that die.                                                        *)
EXTENDS Passkey, FiniteSetTheorems, TLAPS

Stored ==
  /\ mail \in [Users -> Mails \union {None}] /\ name \in [Users -> Names \union {None}]
  /\ hash \in [Users -> Passwords \union {None}]
  /\ migration \in [Users -> {"absent", "active", "legacy", "migrated"}]
  /\ locked \subseteq Users
  /\ link \in [Subjects -> Users \union {None}]
  /\ holder \in [Creds -> Users \union {None}]
  /\ events \subseteq {"UserCreated", "UserMigrated"} \X Users
  /\ opened \subseteq Users \X (Subjects \union {"password"})

Typed ==
  /\ Stored
  /\ pc \in [Workers -> Places] /\ req \in [Workers -> Locals]
  /\ graced \subseteq Workers

\* Rows are filled from the first.
RowsInv == \E n \in 0..MaxUsers : Rows = 1..n

Migratable(u) == migration[u] \in {"legacy", "migrated"}
Migrated(u) == migration[u] = "migrated" /\ hash[u] \in LegacyAccepts

\* What a request at place p has established, with locals r.
Fits(p, r) ==
  /\ p \in Places /\ r \in Locals
  /\ p = "hash" => r.op \in {"register", "verify"}
  /\ p \in {"checkName", "register"} => r.op = "register"
  /\ r.op = "register" \/ p \in {"findMail", "provision"} => r.name \in Names \union {None}
  /\ p \in {"migrate", "emitMigrated"} \/ (p = "hash" /\ r.op = "verify")
       => r.user \in Users /\ Migratable(r.user) /\ r.pw \in LegacyAccepts
  /\ p = "emitMigrated" => Migrated(r.user)
  /\ p \in {"findMail", "provision", "link"} => r.by \in Subjects /\ r.mail = ProfileMail[r.by]
  /\ p = "link" => r.user \in Rows /\ mail[r.user] = r.mail
  /\ p = "verify" => r.by = "password" /\ r.user \in Users
  /\ p = "open" => /\ r.user \in Users /\ r.by \in Subjects \union {"password"}
                   /\ r.by \in Subjects => link[r.by] = r.user
  /\ p \in PkPlaces => r.user \in Users /\ r.by \in Creds \union {None}
  /\ p \in {"createPasskey", "clear"} => r.op = "attest"
  /\ p \in {"createPasskey", "clear"} \/ (p = "send" /\ r.op = "attest") => r.by \in Creds

LinkInv == \A s \in Subjects : link[s] # None => link[s] \in Rows /\ mail[link[s]] = ProfileMail[s]

Facts == LinkInv /\ UserEventsAreTrue /\ FederatedSessionIsLinked

Inv ==
  /\ Typed /\ RowsInv /\ Facts /\ LockStopsPasswords
  /\ \A w \in Workers : Fits(pc[w], req[w])

-----------------------------------------------------------------------------
\* Nothing that requests rely on is taken back.
Grows ==
  /\ \A u \in Users : migration[u] # "absent" => mail'[u] = mail[u] /\ migration'[u] # "absent"
  /\ \A u \in Users : migration[u] = "active" => migration'[u] = "active"
  /\ \A u \in Users : Migratable(u) => Migratable(u)'
  /\ \A u \in Users : Migrated(u) => Migrated(u)'
  /\ \A s \in Subjects : link[s] # None => link'[s] = link[s]
  /\ \A k \in Creds : holder[k] # None => holder'[k] = holder[k]

LEMMA NoneIsNoUser == None \notin Users
  BY IdentityAssumption DEF Users, IdentityAssumption

LEMMA FitsStays ==
  ASSUME Typed, Grows, NEW p, NEW r, Fits(p, r)
  PROVE  Fits(p, r)'
<1> USE NoneIsNoUser
<1>1. /\ p \in Places /\ r \in Locals
      /\ p = "hash" => r.op \in {"register", "verify"}
      /\ p \in {"checkName", "register"} => r.op = "register"
      /\ r.op = "register" \/ p \in {"findMail", "provision"} => r.name \in Names \union {None}
      /\ p \in {"findMail", "provision", "link"} => r.by \in Subjects /\ r.mail = ProfileMail[r.by]
      /\ p = "verify" => r.by = "password" /\ r.user \in Users
      /\ p \in PkPlaces => r.user \in Users /\ r.by \in Creds \union {None}
      /\ p \in {"createPasskey", "clear"} => r.op = "attest"
      /\ p \in {"createPasskey", "clear"} \/ (p = "send" /\ r.op = "attest") => r.by \in Creds
  BY DEF Fits
<1>2. /\ p \in {"migrate", "emitMigrated"} \/ (p = "hash" /\ r.op = "verify")
           => r.user \in Users /\ Migratable(r.user)' /\ r.pw \in LegacyAccepts
      /\ p = "emitMigrated" => Migrated(r.user)'
  BY DEF Fits, Grows
<1>3. p = "link" => r.user \in Rows' /\ mail'[r.user] = r.mail
  BY DEF Fits, Grows, Rows, Absent
<1>4. p = "open" => /\ r.user \in Users /\ r.by \in Subjects \union {"password"}
                    /\ r.by \in Subjects => link'[r.by] = r.user
  BY DEF Fits, Grows
<1> QED
  BY <1>1, <1>2, <1>3, <1>4 DEF Fits

LEMMA FactsKept ==
  ASSUME Typed, Facts, Grows, UNCHANGED <<link, opened>>
  PROVE  LinkInv' /\ FederatedSessionIsLinked'
<1> USE NoneIsNoUser
<1>1. LinkInv'
  BY DEF Facts, LinkInv, Grows, Rows, Absent
<1>2. FederatedSessionIsLinked'
  <2>1. SUFFICES ASSUME NEW o \in opened, o[2] \in Subjects
                 PROVE  link'[o[2]] = o[1] /\ mail'[o[1]] = ProfileMail[o[2]]
    BY DEF FederatedSessionIsLinked
  <2>2. o[1] \in Users /\ link[o[2]] = o[1] /\ mail[o[1]] = ProfileMail[o[2]]
    <3>1. o \in Users \X (Subjects \union {"password"})
      BY DEF Typed, Stored
    <3>2. o[1] \in Users
      BY <3>1
    <3> QED
      BY <2>1, <3>2 DEF Facts, FederatedSessionIsLinked
  <2>3. o[1] \in Rows
    BY <2>1, <2>2 DEF Facts, LinkInv
  <2> QED
    BY <2>2, <2>3 DEF Grows, Rows, Absent
<1> QED
  BY <1>1, <1>2

LEMMA FactsStay ==
  ASSUME Typed, Facts, Grows, UNCHANGED <<link, events, opened>>
  PROVE  Facts'
<1>1. UserEventsAreTrue'
  BY DEF Facts, UserEventsAreTrue, Grows, Migrated
<1> QED
  BY <1>1, FactsKept DEF Facts

LEMMA BlankFits == Blank \in Locals /\ Blank.by = None /\ Blank.op = "none" /\ Fits("idle", Blank)
<1>1. Blank \in Locals /\ Blank.by = None /\ Blank.op = "none"
  BY DEF Blank, Locals
<1> QED
  BY <1>1 DEF Fits, Places, PkPlaces

\* One request moves to place p with locals r.
LEMMA StepKeeps ==
  ASSUME Inv, NEW w \in Workers, NEW p, NEW r,
         pc' = [pc EXCEPT ![w] = p], req' = [req EXCEPT ![w] = r],
         Fits(p, r)', Grows, Stored', Facts', RowsInv', UNCHANGED locked,
         graced' \in {graced, graced \ {w}},
         r.by = "password" => r.user \notin locked \/ (r = req[w] /\ graced' = graced)
  PROVE  Inv'
<1>1. p \in Places /\ r \in Locals
  BY DEF Fits
<1>2. Typed'
  BY <1>1 DEF Inv, Typed
<1>3. ASSUME NEW v \in Workers PROVE Fits(pc[v], req[v])'
  <2>1. CASE v = w
    BY <2>1 DEF Inv, Typed
  <2>2. CASE v # w
    <3>1. PICK q, t : q = pc[v] /\ t = req[v]
      OBVIOUS
    <3>2. Fits(q, t)'
      BY <3>1, FitsStays DEF Inv
    <3>3. pc'[v] = q /\ req'[v] = t
      BY <2>2, <3>1 DEF Inv, Typed
    <3> QED
      BY <3>2, <3>3
  <2> QED
    BY <2>1, <2>2
<1>4. LockStopsPasswords'
  <2>1. SUFFICES ASSUME NEW v \in Workers, req'[v].by = "password", req'[v].user \in locked
                 PROVE  v \in graced'
    BY DEF LockStopsPasswords
  <2>2. CASE v = w
    <3>1. req'[v] = r
      BY <2>2 DEF Inv, Typed
    <3>2. r = req[v] /\ graced' = graced
      BY <2>1, <2>2, <3>1
    <3> QED
      BY <2>1, <3>1, <3>2 DEF Inv, LockStopsPasswords
  <2>3. CASE v # w
    <3>1. req'[v] = req[v]
      BY <2>3 DEF Inv, Typed
    <3> QED
      BY <2>1, <2>3, <3>1 DEF Inv, LockStopsPasswords
  <2> QED
    BY <2>2, <2>3
<1> QED
  BY <1>2, <1>3, <1>4 DEF Inv

\* The tables stay as they are, but for those that do not matter here.
LEMMA TablesStay ==
  ASSUME Inv, UNCHANGED <<userRows, link, events, opened, holder>>, locked' \subseteq Users
  PROVE  Stored' /\ Grows /\ Facts' /\ RowsInv'
<1> USE DEF userRows
<1>1. Grows
  BY DEF Grows, Migratable, Migrated
<1>2. RowsInv'
  BY DEF Inv, RowsInv, Rows, Absent
<1>3. Facts'
  BY <1>1, FactsStay DEF Inv
<1>4. Stored'
  BY DEF Inv, Typed, Stored
<1> QED
  BY <1>1, <1>2, <1>3, <1>4 DEF Inv

LEMMA QuietKeeps ==
  ASSUME Inv, UNCHANGED <<tables, holder>>, NEW w \in Workers, NEW p, NEW r,
         pc' = [pc EXCEPT ![w] = p], req' = [req EXCEPT ![w] = r], Fits(p, r),
         graced' \in {graced, graced \ {w}},
         r.by = "password" => r.user \notin locked \/ (r = req[w] /\ graced' = graced)
  PROVE  Inv'
<1>1. locked \subseteq Users /\ UNCHANGED <<userRows, locked, link, events, opened, holder>>
  BY DEF Inv, Typed, Stored, tables
<1>2. Stored' /\ Grows /\ Facts' /\ RowsInv'
  BY <1>1, TablesStay
<1>3. Fits(p, r)'
  BY <1>2, FitsStays DEF Inv
<1> QED
  BY <1>1, <1>2, <1>3, StepKeeps

LEMMA ReturnStep ==
  ASSUME Inv, Grows, Stored', Facts', RowsInv', UNCHANGED locked, NEW w \in Workers, Return(w)
  PROVE  Inv'
<1>1. PICK r : r = Blank
  OBVIOUS
<1>2. r.by # "password" /\ Fits("idle", r)
  BY <1>1, BlankFits, IdentityAssumption DEF IdentityAssumption
<1>3. /\ pc' = [pc EXCEPT ![w] = "idle"] /\ req' = [req EXCEPT ![w] = r]
      /\ graced' = graced \ {w}
  BY <1>1 DEF Return, Goto
<1>4. Fits("idle", r)'
  BY <1>2, FitsStays DEF Inv
<1> QED
  BY <1>2, <1>3, <1>4, StepKeeps

LEMMA ReturnKeeps ==
  ASSUME Inv, UNCHANGED <<tables, holder>>, NEW w \in Workers, Return(w)
  PROVE  Inv'
<1>1. locked \subseteq Users /\ UNCHANGED <<userRows, locked, link, events, opened, holder>>
  BY DEF Inv, Typed, Stored, tables
<1> QED
  BY <1>1, TablesStay, ReturnStep

LEMMA StandKeeps ==
  ASSUME Inv, Grows, Stored', Facts', RowsInv', UNCHANGED <<pc, req>>, graced \subseteq graced',
         graced' \subseteq Workers,
         \A w \in Workers : req[w].user \in locked' => req[w].user \in locked \/ w \in graced'
  PROVE  Inv'
<1>1. ASSUME NEW v \in Workers PROVE Fits(pc[v], req[v])'
  <2>1. PICK q, t : q = pc[v] /\ t = req[v]
    OBVIOUS
  <2>2. Fits(q, t)'
    BY <2>1, FitsStays DEF Inv
  <2>3. pc'[v] = q /\ req'[v] = t
    BY <2>1
  <2> QED
    BY <2>2, <2>3
<1>2. LockStopsPasswords'
  BY DEF Inv, LockStopsPasswords
<1> QED
  BY <1>1, <1>2 DEF Inv, Typed

-----------------------------------------------------------------------------
(* Registration and migration.                                             *)

\* The row that is created is a new one.
LEMMA CreateGrows ==
  ASSUME Inv, NEW u, NEW m, NEW n, NEW p, NEW g, Create(u, m, n, p, g),
         m \in Mails \union {None}, n \in Names \union {None}, p \in Passwords \union {None},
         g \in {"active", "legacy"}, UNCHANGED <<link, holder>>
  PROVE  /\ Grows /\ RowsInv' /\ u \in Users /\ u \in Rows' /\ u \notin Rows
         /\ mail'[u] = m /\ migration'[u] = g
         /\ mail' \in [Users -> Mails \union {None}] /\ name' \in [Users -> Names \union {None}]
         /\ hash' \in [Users -> Passwords \union {None}]
         /\ migration' \in [Users -> {"absent", "active", "legacy", "migrated"}]
<1>1. PICK k \in 0..MaxUsers : Rows = 1..k
  BY DEF Inv, RowsInv
<1>2. MaxUsers \in Nat /\ k \in Nat
  BY <1>1, IdentityAssumption DEF IdentityAssumption
<1>3. Cardinality(Rows) = k
  BY <1>1, <1>2, FS_Interval
<1>4. u \in Users /\ u = k + 1 /\ u \in 1..MaxUsers
  BY <1>3 DEF Create, NextUser, Users
<1>5. u \notin Rows
  BY <1>1, <1>2, <1>4
<1>6. migration[u] = "absent"
  BY <1>4, <1>5 DEF Rows, Absent
<1>7. /\ mail' = [mail EXCEPT ![u] = m] /\ name' = [name EXCEPT ![u] = n]
      /\ hash' = [hash EXCEPT ![u] = p] /\ migration' = [migration EXCEPT ![u] = g]
  BY DEF Create
<1>8. /\ mail \in [Users -> Mails \union {None}] /\ name \in [Users -> Names \union {None}]
      /\ hash \in [Users -> Passwords \union {None}]
      /\ migration \in [Users -> {"absent", "active", "legacy", "migrated"}]
  BY DEF Inv, Typed, Stored
<1>9. Grows
  BY <1>4, <1>6, <1>7, <1>8 DEF Grows, Migratable, Migrated
<1>10. Rows' = Rows \union {u}
  BY <1>4, <1>6, <1>7, <1>8 DEF Rows, Absent
<1>11. RowsInv'
  <2>1. Rows' = 1..(k + 1) /\ k + 1 \in 0..MaxUsers
    BY <1>1, <1>2, <1>4, <1>10
  <2> QED
    BY <2>1 DEF RowsInv
<1> QED
  BY <1>4, <1>5, <1>7, <1>8, <1>9, <1>10, <1>11

LEMMA RegisterKeeps ==
  ASSUME Inv, UNCHANGED holder, NEW w \in Workers, NEW m \in Mails \union {None},
         NEW n \in Names \union {None}, NEW p \in Passwords \union {None}, Register(w, m, n, p)
  PROVE  Inv'
<1>1. PICK r : r = [Blank EXCEPT !.op = "register", !.mail = m, !.name = n, !.pw = p]
  OBVIOUS
<1>2. r \in Locals /\ r.op = "register" /\ r.name = n /\ r.by = None
  BY <1>1 DEF Blank, Locals
<1>3. PICK q \in {"checkName", "hash", "register"} : pc' = [pc EXCEPT ![w] = q]
  BY DEF Register, Begin, Goto
<1>4. Fits(q, r)
  BY <1>2 DEF Fits, Places, PkPlaces
<1>5. /\ req' = [req EXCEPT ![w] = r] /\ graced' = graced /\ UNCHANGED tables
      /\ r.by # "password"
  BY <1>1, <1>2, IdentityAssumption DEF Register, Begin, IdentityAssumption
<1> QED
  BY <1>3, <1>4, <1>5, QuietKeeps

\* The place of a request changes, its locals do not.
LEMMA MoveKeeps ==
  ASSUME Inv, UNCHANGED <<tables, holder, req, graced>>, NEW w \in Workers, NEW p,
         Goto(w, p), Fits(p, req[w])
  PROVE  Inv'
<1>1. PICK r : r = req[w]
  OBVIOUS
<1>2. req' = [req EXCEPT ![w] = r] /\ Fits(p, r) /\ pc' = [pc EXCEPT ![w] = p]
  BY <1>1 DEF Inv, Typed, Goto
<1>3. r.by = "password" => r.user \notin locked \/ (r = req[w] /\ graced' = graced)
  BY <1>1
<1> QED
  BY <1>2, <1>3, QuietKeeps

LEMMA CheckNameKeeps ==
  ASSUME Inv, UNCHANGED holder, NEW w \in Workers, CheckName(w)
  PROVE  Inv'
<1>1. CASE Return(w)
  BY <1>1, ReturnKeeps DEF CheckName
<1>2. CASE ~Return(w)
  <2>1. PICK p \in {"hash", "register"} : Goto(w, p)
    BY <1>2 DEF CheckName
  <2>2. Fits(pc[w], req[w]) /\ pc[w] = "checkName"
    BY DEF Inv, CheckName
  <2>3. Fits(p, req[w])
    BY <2>2 DEF Fits, Places, PkPlaces
  <2>4. UNCHANGED <<tables, holder, req, graced>>
    BY <1>2 DEF CheckName
  <2> QED
    BY <2>1, <2>3, <2>4, MoveKeeps
<1> QED
  BY <1>1, <1>2

LEMMA ArgonKeeps ==
  ASSUME Inv, UNCHANGED holder, NEW w \in Workers, NEW p, Argon(w, p), Fits(p, req[w])
  PROVE  Inv'
  BY ReturnKeeps, MoveKeeps DEF Argon

LEMMA HashKeeps ==
  ASSUME Inv, UNCHANGED holder, NEW w \in Workers, HashPassword(w)
  PROVE  Inv'
<1>1. Fits("hash", req[w]) /\ req[w] \in Locals
  BY DEF Inv, HashPassword, Typed
<1>2. req[w].op = "register" => Fits("register", req[w])
  BY <1>1 DEF Fits, Places, PkPlaces
<1>3. req[w].op # "register" => Fits("migrate", req[w])
  BY <1>1 DEF Fits, Places, PkPlaces
<1> QED
  BY <1>2, <1>3, ArgonKeeps DEF HashPassword

LEMMA VerifyKeeps ==
  ASSUME Inv, UNCHANGED holder, NEW w \in Workers, VerifyPassword(w)
  PROVE  Inv'
<1>1. Fits("verify", req[w])
  BY DEF Inv, VerifyPassword
<1>2. Fits("open", req[w])
  BY <1>1, IdentityAssumption, PasskeyAssumption
     DEF Fits, Places, PkPlaces, IdentityAssumption, PasskeyAssumption
<1> QED
  BY <1>2, ArgonKeeps DEF VerifyPassword

LEMMA CreateUserKeeps ==
  ASSUME Inv, UNCHANGED holder, NEW w \in Workers, CreateUser(w)
  PROVE  Inv'
<1>1. UNCHANGED <<locked, link, opened, holder>> /\ Return(w)
  BY DEF CreateUser
<1>2. CASE UNCHANGED <<userRows, events>>
  BY <1>1, <1>2, ReturnKeeps DEF tables
<1>3. CASE ~UNCHANGED <<userRows, events>>
  <2>1. Fits("register", req[w])
    BY DEF Inv, CreateUser
  <2>2. PICK m, n, p : m = req[w].mail /\ n = req[w].name /\ p = req[w].pw
    OBVIOUS
  <2>3. /\ m \in Mails \union {None} /\ n \in Names \union {None}
        /\ p \in Passwords \union {None}
    BY <2>1, <2>2 DEF Fits, Locals
  <2>4. PICK u \in Users : Create(u, m, n, p, "active") /\ Emit("UserCreated", u)
    BY <1>3, <2>2 DEF CreateUser
  <2>5. PICK g : g = "active"
    OBVIOUS
  <2>6. /\ Grows /\ RowsInv' /\ migration'[u] = "active"
        /\ mail' \in [Users -> Mails \union {None}] /\ name' \in [Users -> Names \union {None}]
        /\ hash' \in [Users -> Passwords \union {None}]
        /\ migration' \in [Users -> {"absent", "active", "legacy", "migrated"}]
    BY <1>1, <2>3, <2>4, <2>5, CreateGrows
  <2>7. events' = events \union {<<"UserCreated", u>>}
    BY <2>4 DEF Emit
  <2>8. Stored'
    BY <1>1, <2>6, <2>7 DEF Inv, Typed, Stored
  <2>9. Facts'
    <3>1. LinkInv' /\ FederatedSessionIsLinked'
      BY <1>1, <2>6, FactsKept DEF Inv
    <3>2. UserEventsAreTrue'
      BY <2>6, <2>7 DEF Inv, Facts, UserEventsAreTrue, Grows, Migrated
    <3> QED
      BY <3>1, <3>2 DEF Facts
  <2> QED
    BY <1>1, <2>6, <2>8, <2>9, ReturnStep
<1> QED
  BY <1>2, <1>3

LEMMA ImportKeeps ==
  ASSUME Inv, UNCHANGED holder, NEW u \in Users, NEW m \in Mails, Import(u, m)
  PROVE  Inv'
<1>1. PICK n, p, g : n = None /\ p = None /\ g = "legacy"
  OBVIOUS
<1>2. Create(u, m, n, p, g) /\ UNCHANGED <<locked, link, events, opened, pc, req, graced>>
  BY <1>1 DEF Import
<1>3. /\ m \in Mails \union {None} /\ n \in Names \union {None}
      /\ p \in Passwords \union {None} /\ g \in {"active", "legacy"}
  BY <1>1
<1>4. /\ Grows /\ RowsInv'
      /\ mail' \in [Users -> Mails \union {None}] /\ name' \in [Users -> Names \union {None}]
      /\ hash' \in [Users -> Passwords \union {None}]
      /\ migration' \in [Users -> {"absent", "active", "legacy", "migrated"}]
  BY <1>2, <1>3, CreateGrows
<1>5. Stored'
  BY <1>2, <1>4 DEF Inv, Typed, Stored
<1>6. Facts'
  BY <1>2, <1>4, FactsStay DEF Inv
<1> QED
  BY <1>2, <1>4, <1>5, <1>6, StandKeeps DEF Inv, Typed

LEMMA VerifyCredentialsKeeps ==
  ASSUME Inv, UNCHANGED holder, NEW w \in Workers, NEW u \in Users, NEW id,
         NEW p \in Passwords, VerifyCredentials(w, u, id, p)
  PROVE  Inv'
<1>1. PICK r : r = [Blank EXCEPT !.op = "verify", !.user = u, !.pw = p]
  OBVIOUS
<1>2. r \in Locals /\ r.op = "verify" /\ r.user = u /\ r.pw = p /\ r.by = None
  BY <1>1 DEF Blank, Locals
<1>3. migration[u] = "legacy" /\ p \in LegacyAccepts
  BY DEF VerifyCredentials
<1>4. Fits("hash", r)
  BY <1>2, <1>3 DEF Fits, Places, PkPlaces, Migratable
<1>5. /\ pc' = [pc EXCEPT ![w] = "hash"] /\ req' = [req EXCEPT ![w] = r]
      /\ graced' = graced /\ UNCHANGED tables /\ r.by # "password"
  BY <1>1, <1>2, IdentityAssumption DEF VerifyCredentials, Begin, Goto, IdentityAssumption
<1> QED
  BY <1>4, <1>5, QuietKeeps

LEMMA MigrateKeeps ==
  ASSUME Inv, UNCHANGED holder, NEW w \in Workers, Migrate(w)
  PROVE  Inv'
<1>1. PICK r : r = req[w]
  OBVIOUS
<1>2. /\ r \in Locals /\ r.user \in Users /\ Migratable(r.user) /\ r.pw \in LegacyAccepts
      /\ Fits("migrate", r)
  BY <1>1 DEF Inv, Migrate, Fits
<1>3. /\ hash' = [hash EXCEPT ![r.user] = r.pw]
      /\ migration' = [migration EXCEPT ![r.user] = "migrated"]
      /\ UNCHANGED <<mail, name, locked, link, events, opened, req, graced, holder>>
      /\ pc' = [pc EXCEPT ![w] = "emitMigrated"] /\ req' = [req EXCEPT ![w] = r]
  BY <1>1 DEF Migrate, Goto, Stay, Inv, Typed
<1>4. Stored /\ r.pw \in Passwords
  BY <1>2, IdentityAssumption DEF Inv, Typed, IdentityAssumption
<1>5. Stored'
  BY <1>2, <1>3, <1>4 DEF Stored
<1>6. Grows
  BY <1>2, <1>3, <1>4 DEF Grows, Migratable, Migrated, Stored
<1>7. Rows' = Rows
  BY <1>2, <1>3, <1>4 DEF Rows, Absent, Migratable, Stored
<1>8. RowsInv'
  BY <1>7 DEF Inv, RowsInv
<1>9. Facts'
  BY <1>3, <1>6, FactsStay DEF Inv
<1>10. Migrated(r.user)' /\ Migratable(r.user)'
  BY <1>2, <1>3, <1>4 DEF Migrated, Migratable, Stored
<1>11. Fits("emitMigrated", r)'
  BY <1>2, <1>10 DEF Fits, Places, PkPlaces
<1>12. r.by = "password" => r = req[w] /\ graced' = graced
  BY <1>1, <1>3
<1> QED
  BY <1>3, <1>5, <1>6, <1>8, <1>9, <1>11, <1>12, StepKeeps

LEMMA EmitMigratedKeeps ==
  ASSUME Inv, UNCHANGED holder, NEW w \in Workers, EmitMigrated(w)
  PROVE  Inv'
<1>1. PICK u : u = req[w].user
  OBVIOUS
<1>2. u \in Users /\ Migrated(u)
  BY <1>1 DEF Inv, EmitMigrated, Fits
<1>3. /\ events' = events \union {<<"UserMigrated", u>>} /\ Return(w)
      /\ UNCHANGED <<mail, name, hash, migration, locked, link, opened, holder>>
  BY <1>1 DEF EmitMigrated, Emit, userRows
<1>4. Stored'
  BY <1>2, <1>3 DEF Inv, Typed, Stored
<1>5. Grows
  BY <1>3 DEF Grows, Migratable, Migrated
<1>6. RowsInv'
  BY <1>3 DEF Inv, RowsInv, Rows, Absent
<1>7. UserEventsAreTrue'
  BY <1>2, <1>3 DEF Inv, Facts, UserEventsAreTrue, Migrated
<1>8. Facts'
  BY <1>3, <1>5, <1>7, FactsKept DEF Inv, Facts
<1> QED
  BY <1>3, <1>4, <1>5, <1>6, <1>8, ReturnStep

-----------------------------------------------------------------------------
(* Federated and password sign-in.                                         *)

LEMMA CallbackKeeps ==
  ASSUME Inv, UNCHANGED holder, NEW w \in Workers, NEW s \in Subjects, Callback(w, s)
  PROVE  Inv'
<1>1. PICK r : r = [Blank EXCEPT !.op = "callback", !.user = link[s], !.mail = ProfileMail[s],
                                 !.name = LocalPart[ProfileMail[s]], !.by = s]
  OBVIOUS
<1>2. link[s] \in Users \union {None} /\ ProfileMail[s] \in Mails
      /\ LocalPart[ProfileMail[s]] \in Names
  BY IdentityAssumption DEF Inv, Typed, Stored, IdentityAssumption
<1>3. /\ r \in Locals /\ r.op = "callback" /\ r.user = link[s] /\ r.mail = ProfileMail[s]
      /\ r.name \in Names /\ r.by = s
  BY <1>1, <1>2 DEF Blank, Locals
<1>4. PICK p : p = IF link[s] = None THEN "findMail" ELSE "open"
  OBVIOUS
<1>5. s # None /\ s # "password" /\ s \notin Creds
  BY IdentityAssumption, PasskeyAssumption DEF IdentityAssumption, PasskeyAssumption
<1>6. Fits(p, r)
  BY <1>2, <1>3, <1>4, <1>5 DEF Fits, Places, PkPlaces
<1>7. /\ pc' = [pc EXCEPT ![w] = p] /\ req' = [req EXCEPT ![w] = r]
      /\ graced' = graced /\ UNCHANGED tables
  BY <1>1, <1>4 DEF Callback, Begin, Goto
<1> QED
  BY <1>3, <1>5, <1>6, <1>7, QuietKeeps

LEMMA FindMailKeeps ==
  ASSUME Inv, UNCHANGED holder, NEW w \in Workers, FindMail(w)
  PROVE  Inv'
<1>1. Fits("findMail", req[w]) /\ UNCHANGED <<tables, graced>>
  BY DEF Inv, FindMail, Stay
<1>2. CASE Goto(w, "provision") /\ UNCHANGED req
  <2>1. Fits("provision", req[w])
    BY <1>1 DEF Fits, Places, PkPlaces
  <2> QED
    BY <1>1, <1>2, <2>1, MoveKeeps
<1>3. CASE ~(Goto(w, "provision") /\ UNCHANGED req)
  <2>1. PICK u \in Rows : /\ mail[u] = req[w].mail /\ req' = [req EXCEPT ![w].user = u]
                          /\ Goto(w, "link")
    BY <1>3 DEF FindMail
  <2>2. PICK r : r = [req[w] EXCEPT !.user = u]
    OBVIOUS
  <2>3. u \in Users
    BY DEF Rows
  <2>4. /\ r \in Locals /\ r.by = req[w].by /\ r.mail = req[w].mail /\ r.user = u
        /\ r.op = req[w].op /\ r.name = req[w].name
    BY <1>1, <2>2, <2>3 DEF Fits, Locals
  <2>5. Fits("link", r)
    BY <1>1, <2>1, <2>4 DEF Fits, Places, PkPlaces
  <2>6. r.by # "password"
    BY <1>1, <2>4, IdentityAssumption DEF Fits, IdentityAssumption
  <2>7. pc' = [pc EXCEPT ![w] = "link"] /\ req' = [req EXCEPT ![w] = r]
    BY <2>1, <2>2 DEF Goto, Inv, Typed
  <2> QED
    BY <1>1, <2>5, <2>6, <2>7, QuietKeeps
<1> QED
  BY <1>2, <1>3

LEMMA ProvisionKeeps ==
  ASSUME Inv, UNCHANGED holder, NEW w \in Workers, Provision(w)
  PROVE  Inv'
<1>1. UNCHANGED <<locked, link, events, opened, holder>> /\ Fits("provision", req[w])
  BY DEF Inv, Provision
<1>2. CASE Return(w) /\ UNCHANGED userRows
  BY <1>1, <1>2, ReturnKeeps DEF tables
<1>3. CASE ~(Return(w) /\ UNCHANGED userRows)
  <2>1. PICK m, n, p, g : m = req[w].mail /\ n = req[w].name /\ p = None /\ g = "active"
    OBVIOUS
  <2>2. /\ m \in Mails \union {None} /\ n \in Names \union {None}
        /\ p \in Passwords \union {None} /\ g \in {"active", "legacy"}
    BY <1>1, <2>1 DEF Fits, Locals
  <2>3. PICK u \in Users : Create(u, m, n, p, g) /\ req' = [req EXCEPT ![w].user = u]
    BY <1>3, <2>1 DEF Provision
  <2>4. Goto(w, "link") /\ UNCHANGED graced
    BY <1>3 DEF Provision
  <2>5. /\ Grows /\ RowsInv' /\ u \in Rows' /\ mail'[u] = m
        /\ mail' \in [Users -> Mails \union {None}] /\ name' \in [Users -> Names \union {None}]
        /\ hash' \in [Users -> Passwords \union {None}]
        /\ migration' \in [Users -> {"absent", "active", "legacy", "migrated"}]
    BY <1>1, <2>2, <2>3, CreateGrows
  <2>6. Stored'
    BY <1>1, <2>5 DEF Inv, Typed, Stored
  <2>7. Facts'
    BY <1>1, <2>5, FactsStay DEF Inv
  <2>8. PICK r : r = [req[w] EXCEPT !.user = u]
    OBVIOUS
  <2>9. /\ r \in Locals /\ r.by = req[w].by /\ r.mail = m /\ r.user = u
        /\ r.op = req[w].op /\ r.name = n
    BY <1>1, <2>1, <2>8 DEF Fits, Locals
  <2>10. Fits("link", r)'
    BY <1>1, <2>1, <2>5, <2>9 DEF Fits, Places, PkPlaces
  <2>11. r.by # "password"
    BY <1>1, <2>9, IdentityAssumption DEF Fits, IdentityAssumption
  <2>12. pc' = [pc EXCEPT ![w] = "link"] /\ req' = [req EXCEPT ![w] = r]
    BY <2>3, <2>4, <2>8 DEF Goto, Inv, Typed
  <2> QED
    BY <1>1, <2>4, <2>5, <2>6, <2>7, <2>10, <2>11, <2>12, StepKeeps
<1> QED
  BY <1>2, <1>3

LEMMA CreateLinkKeeps ==
  ASSUME Inv, UNCHANGED holder, NEW w \in Workers, CreateLink(w)
  PROVE  Inv'
<1>1. UNCHANGED <<userRows, locked, events, opened, holder>> /\ Fits("link", req[w])
  BY DEF Inv, CreateLink
<1>2. CASE Return(w) /\ UNCHANGED link
  BY <1>1, <1>2, ReturnKeeps DEF tables
<1>3. CASE ~(Return(w) /\ UNCHANGED link)
  <2>1. PICK r : r = req[w]
    OBVIOUS
  <2>2. /\ r.by \in Subjects /\ r.user \in Rows /\ mail[r.user] = ProfileMail[r.by]
        /\ r.user \in Users /\ r \in Locals
    BY <1>1, <2>1 DEF Fits, Rows
  <2>3. /\ link[r.by] = None /\ link' = [link EXCEPT ![r.by] = r.user]
        /\ pc' = [pc EXCEPT ![w] = "open"] /\ req' = [req EXCEPT ![w] = r]
        /\ UNCHANGED <<req, graced, mail, name, hash, migration>>
    BY <1>1, <1>3, <2>1 DEF CreateLink, Goto, Inv, Typed, userRows
  <2>4. Stored /\ Facts
    BY DEF Inv, Typed
  <2>5. Stored'
    BY <1>1, <2>2, <2>3, <2>4 DEF Stored
  <2>6. Grows
    BY <1>1, <2>2, <2>3, <2>4 DEF Grows, Migratable, Migrated, Stored
  <2>7. RowsInv' /\ Rows' = Rows
    BY <2>3 DEF Inv, RowsInv, Rows, Absent
  <2>8. LinkInv'
    BY <2>2, <2>3, <2>4, <2>7 DEF Facts, LinkInv, Stored
  <2>9. UserEventsAreTrue'
    BY <1>1, <2>3, <2>4 DEF Facts, UserEventsAreTrue
  <2>10. FederatedSessionIsLinked'
    <3>1. SUFFICES ASSUME NEW o \in opened, o[2] \in Subjects
                   PROVE  link'[o[2]] = o[1] /\ mail[o[1]] = ProfileMail[o[2]]
      BY <1>1, <2>3 DEF FederatedSessionIsLinked
    <3>2. o \in Users \X (Subjects \union {"password"})
      BY <2>4 DEF Stored
    <3>3. o[1] \in Users
      BY <3>2
    <3>4. link[o[2]] = o[1] /\ mail[o[1]] = ProfileMail[o[2]]
      BY <2>4, <3>1 DEF Facts, FederatedSessionIsLinked
    <3> QED
      BY <2>3, <2>4, <3>1, <3>3, <3>4, NoneIsNoUser DEF Stored
  <2>11. r.by # None /\ r.by # "password" /\ link'[r.by] = r.user
    BY <2>2, <2>3, <2>4, IdentityAssumption, PasskeyAssumption
       DEF IdentityAssumption, PasskeyAssumption, Stored
  <2>12. r.op = "register" => r.name \in Names \union {None}
    BY <1>1, <2>1 DEF Fits
  <2>13. Fits("open", r)'
    BY <2>2, <2>11, <2>12 DEF Fits, Places, PkPlaces
  <2> QED
    BY <1>1, <2>3, <2>5, <2>6, <2>7, <2>8, <2>9, <2>10, <2>11, <2>13, StepKeeps DEF Facts
<1> QED
  BY <1>2, <1>3

LEMMA LoginKeeps ==
  ASSUME Inv, UNCHANGED holder, NEW w \in Workers, NEW u \in Users, NEW id,
         NEW p \in Passwords, Login(w, u, id, p)
  PROVE  Inv'
<1>1. PICK r : r = [Blank EXCEPT !.op = "login", !.user = u, !.pw = p, !.by = "password"]
  OBVIOUS
<1>2. r \in Locals /\ r.op = "login" /\ r.user = u /\ r.by = "password"
  BY <1>1 DEF Blank, Locals
<1>3. PICK q \in {"open", "verify"} : pc' = [pc EXCEPT ![w] = q]
  BY DEF Login, Begin, Goto
<1>4. Fits(q, r)
  BY <1>2, IdentityAssumption, PasskeyAssumption
     DEF Fits, Places, PkPlaces, IdentityAssumption, PasskeyAssumption
<1>5. /\ req' = [req EXCEPT ![w] = r] /\ graced' = graced /\ UNCHANGED tables
      /\ r.user \notin locked
  BY <1>1, <1>2 DEF Login, Begin
<1> QED
  BY <1>3, <1>4, <1>5, QuietKeeps

LEMMA OpenKeeps ==
  ASSUME Inv, UNCHANGED holder, NEW w \in Workers, Open(w)
  PROVE  Inv'
<1>1. PICK r : r = req[w]
  OBVIOUS
<1>2. /\ r.user \in Users /\ r.by \in Subjects \union {"password"}
      /\ r.by \in Subjects => link[r.by] = r.user
  BY <1>1 DEF Inv, Fits, Open
<1>3. /\ opened' = opened \union {<<r.user, r.by>>} /\ Return(w)
      /\ UNCHANGED <<mail, name, hash, migration, locked, link, events, holder>>
  BY <1>1 DEF Open, userRows
<1>4. Stored'
  BY <1>2, <1>3 DEF Inv, Typed, Stored
<1>5. Grows
  BY <1>3 DEF Grows, Migratable, Migrated
<1>6. RowsInv'
  BY <1>3 DEF Inv, RowsInv, Rows, Absent
<1>7. LinkInv' /\ UserEventsAreTrue'
  BY <1>3 DEF Inv, Facts, LinkInv, UserEventsAreTrue, Rows, Absent
<1>8. FederatedSessionIsLinked'
  BY <1>2, <1>3, NoneIsNoUser DEF Inv, Facts, LinkInv, FederatedSessionIsLinked
<1> QED
  BY <1>3, <1>4, <1>5, <1>6, <1>7, <1>8, ReturnStep DEF Facts

LEMMA LockKeeps ==
  ASSUME Inv, UNCHANGED holder, NEW u \in Users, Lock(u)
  PROVE  Inv'
<1>1. locked' \subseteq Users /\ UNCHANGED <<userRows, link, events, opened, holder, pc, req>>
  BY DEF Lock, Inv, Typed, Stored
<1>2. graced \subseteq graced' /\ graced' \subseteq Workers
  BY DEF Lock, Inv, Typed
<1>3. \A w \in Workers : req[w].user \in locked' => req[w].user \in locked \/ w \in graced'
  BY DEF Lock
<1> QED
  BY <1>1, <1>2, <1>3, TablesStay, StandKeeps

LEMMA AbortKeeps ==
  ASSUME Inv, UNCHANGED holder, NEW w \in Workers, Abort(w)
  PROVE  Inv'
  BY ReturnKeeps DEF Abort

LEMMA IdStepKeeps == Inv /\ IdStep => Inv'
<1> SUFFICES ASSUME Inv, IdStep PROVE Inv'
  OBVIOUS
<1>1. UNCHANGED holder
  BY DEF IdStep, pkVars
<1>2. ASSUME NEW w \in Workers, IdArrive(w) PROVE Inv'
  BY <1>1, <1>2, RegisterKeeps, VerifyCredentialsKeeps, LoginKeeps, CallbackKeeps DEF IdArrive
<1>3. ASSUME NEW w \in Workers, IdContinue(w) PROVE Inv'
  BY <1>1, <1>3, CheckNameKeeps, HashKeeps, CreateUserKeeps, MigrateKeeps, EmitMigratedKeeps,
     FindMailKeeps, ProvisionKeeps, CreateLinkKeeps, VerifyKeeps, OpenKeeps DEF IdContinue
<1>4. ASSUME NEW w \in Workers, Abort(w) PROVE Inv'
  BY <1>1, <1>4, AbortKeeps
<1>5. ASSUME NEW u \in Users, NEW m \in Mails, Import(u, m) PROVE Inv'
  BY <1>1, <1>5, ImportKeeps
<1>6. ASSUME NEW u \in Users, Lock(u) PROVE Inv'
  BY <1>1, <1>6, LockKeeps
<1> QED
  BY <1>2, <1>3, <1>4, <1>5, <1>6 DEF IdStep

-----------------------------------------------------------------------------
(* Passkeys.                                                               *)

\* A step from one place of a passkey request to another.
LEMMA MovesKeep ==
  ASSUME Inv, UNCHANGED holder, NEW w \in Workers, NEW p, Moves(w, p), Fits(p, req[w])
  PROVE  Inv'
  BY MoveKeeps DEF Moves, Stay

LEMMA LeavesKeep ==
  ASSUME Inv, UNCHANGED holder, NEW w \in Workers, Leaves(w)
  PROVE  Inv'
  BY ReturnKeeps DEF Leaves

LEMMA RegisterPasskeyKeeps ==
  ASSUME Inv, NEW w \in Workers, NEW u \in Users, RegisterPasskey(w, u)
  PROVE  Inv'
<1>1. PICK r : r = [Blank EXCEPT !.op = "attest", !.user = u]
  OBVIOUS
<1>2. r \in Locals /\ r.op = "attest" /\ r.user = u /\ r.by = None
  BY <1>1 DEF Blank, Locals
<1>3. PICK p \in {"store", "generate"} : pc' = [pc EXCEPT ![w] = p]
  BY DEF RegisterPasskey, Begin, Goto
<1>4. Fits(p, r) /\ r.by # "password"
  BY <1>2, IdentityAssumption, PasskeyAssumption
     DEF Fits, Places, PkPlaces, IdentityAssumption, PasskeyAssumption
<1>5. req' = [req EXCEPT ![w] = r] /\ graced' = graced /\ UNCHANGED <<tables, holder>>
  BY <1>1 DEF RegisterPasskey, Begin
<1> QED
  BY <1>3, <1>4, <1>5, QuietKeeps

LEMMA LoginWithPasskeyKeeps ==
  ASSUME Inv, NEW w \in Workers, NEW u \in Users, NEW id \in Mails \union Names,
         LoginWithPasskey(w, u, id)
  PROVE  Inv'
<1>1. PICK r : r = [Blank EXCEPT !.op = "assert", !.user = u, !.name = id]
  OBVIOUS
<1>2. r \in Locals /\ r.op = "assert" /\ r.user = u /\ r.by = None
  BY <1>1 DEF Blank, Locals
<1>3. Fits("store", r) /\ r.by # "password"
  BY <1>2, IdentityAssumption DEF Fits, Places, PkPlaces, IdentityAssumption
<1>4. /\ pc' = [pc EXCEPT ![w] = "store"] /\ req' = [req EXCEPT ![w] = r]
      /\ graced' = graced /\ UNCHANGED <<tables, holder>>
  BY <1>1 DEF LoginWithPasskey, Begin, Goto
<1> QED
  BY <1>3, <1>4, QuietKeeps

LEMMA BrowserKeeps ==
  ASSUME Inv, NEW w \in Workers,
         GenerateKey(w) \/ ExportKey(w) \/ Digest(w) \/ StoreChallenge(w)
  PROVE  Inv'
<1>1. PICK p \in {"export", "digest", "store", "sign", "send"} :
        Moves(w, p) /\ (p = "send" => req[w].op # "attest")
  BY DEF GenerateKey, ExportKey, Digest, StoreChallenge
<1>2. pc[w] \in {"generate", "export", "digest", "store"} /\ UNCHANGED holder
  BY DEF GenerateKey, ExportKey, Digest, StoreChallenge, pkVars
<1>3. Fits(p, req[w])
  BY <1>1, <1>2 DEF Inv, Fits, Places, PkPlaces
<1> QED
  BY <1>1, <1>2, <1>3, MovesKeep

LEMMA SignKeeps ==
  ASSUME Inv, minted \subseteq Creds, NEW w \in Workers, Attest(w) \/ SignChallenge(w)
  PROVE  Inv'
<1>1. UNCHANGED <<holder, tables, graced>> /\ Fits("sign", req[w])
  BY DEF Inv, Attest, SignChallenge, Stay, pkVars
<1>3. PICK k \in Creds : req' = [req EXCEPT ![w].by = k]
  BY DEF Attest, SignChallenge
<1>4. PICK r : r = [req[w] EXCEPT !.by = k]
  OBVIOUS
<1>5. PICK p \in {"send", "generate"} : pc' = [pc EXCEPT ![w] = p]
  BY DEF Attest, SignChallenge, Goto
<1>6. /\ r \in Locals /\ r.by = k /\ r.user = req[w].user
      /\ r.op = req[w].op /\ r.name = req[w].name
  BY <1>1, <1>4 DEF Fits, Locals
<1>7. Fits(p, r) /\ r.by # "password"
  BY <1>1, <1>6, PasskeyAssumption DEF Fits, Places, PkPlaces, PasskeyAssumption
<1>8. req' = [req EXCEPT ![w] = r]
  BY <1>3, <1>4
<1> QED
  BY <1>1, <1>5, <1>7, <1>8, QuietKeeps

LEMMA RedeliverKeeps ==
  ASSUME Inv, NEW w \in Workers, NEW v \in Workers, Redeliver(w, v)
  PROVE  Inv'
<1>1. PICK r : r = req[v]
  OBVIOUS
<1>2. Fits(pc[v], r) /\ pc[v] \in {"createPasskey", "clear"}
  BY <1>1 DEF Inv, Redeliver
<1>3. Fits("createPasskey", r) /\ r.by # "password"
  BY <1>2, PasskeyAssumption DEF Fits, Places, PkPlaces, PasskeyAssumption
<1>4. /\ pc' = [pc EXCEPT ![w] = "createPasskey"] /\ req' = [req EXCEPT ![w] = r]
      /\ graced' = graced /\ UNCHANGED <<tables, holder>>
  BY <1>1 DEF Redeliver, Begin, Goto
<1> QED
  BY <1>3, <1>4, QuietKeeps

LEMMA AnswerKeeps ==
  ASSUME Inv, NEW w \in Workers, SendAttestation(w)
  PROVE  Inv'
<1>1. UNCHANGED holder /\ Fits("send", req[w]) /\ req[w].op = "attest" /\ pc[w] = "send"
  BY DEF Inv, SendAttestation, pkVars
<1>2. CASE Leaves(w)
  BY <1>1, <1>2, LeavesKeep
<1>3. CASE Moves(w, "createPasskey")
  <2>1. Fits("createPasskey", req[w])
    BY <1>1 DEF Fits, Places, PkPlaces
  <2> QED
    BY <1>1, <1>3, <2>1, MovesKeep
<1> QED
  BY <1>2, <1>3 DEF SendAttestation

LEMMA CreatePasskeyKeeps ==
  ASSUME Inv, NEW w \in Workers, CreatePasskey(w)
  PROVE  Inv'
<1>1. Fits("createPasskey", req[w])
  BY DEF Inv, CreatePasskey
<1>2. CASE Leaves(w) /\ UNCHANGED holder
  BY <1>2, LeavesKeep
<1>3. CASE ~(Leaves(w) /\ UNCHANGED holder)
  <2>1. PICK r : r = req[w]
    OBVIOUS
  <2>2. r.by \in Creds /\ r.user \in Users /\ r \in Locals /\ r.op = "attest"
    BY <1>1, <2>1 DEF Fits, PkPlaces
  <2>3. /\ holder[r.by] = None /\ holder' = [holder EXCEPT ![r.by] = r.user]
        /\ pc' = [pc EXCEPT ![w] = "clear"] /\ req' = [req EXCEPT ![w] = r]
        /\ UNCHANGED <<req, graced, locked, mail, name, hash, migration, link, events, opened>>
    BY <1>3, <2>1 DEF CreatePasskey, Moves, Goto, Stay, Inv, Typed, tables, userRows
  <2>4. Stored /\ Facts
    BY DEF Inv, Typed
  <2>5. Stored'
    BY <2>2, <2>3, <2>4 DEF Stored
  <2>6. Grows
    BY <2>2, <2>3, <2>4 DEF Grows, Migratable, Migrated, Stored
  <2>7. RowsInv'
    BY <2>3 DEF Inv, RowsInv, Rows, Absent
  <2>8. Facts'
    BY <2>3, <2>6, FactsStay DEF Inv
  <2>9. Fits("clear", r)'
    BY <2>2 DEF Fits, Places, PkPlaces
  <2>10. r.by # "password"
    BY <2>2, PasskeyAssumption DEF PasskeyAssumption
  <2> QED
    BY <2>3, <2>5, <2>6, <2>7, <2>8, <2>9, <2>10, StepKeeps
<1> QED
  BY <1>2, <1>3

LEMMA EndsKeep ==
  ASSUME Inv, NEW w \in Workers,
         Refuse(w) \/ Decline(w) \/ FindPasskey(w) \/ ClearChallenge(w)
  PROVE  Inv'
  BY LeavesKeep DEF Refuse, Decline, FindPasskey, ClearChallenge, pkVars

LEMMA NextKeeps == Inv /\ minted \subseteq Creds /\ [Next]_allVars => Inv'
<1> SUFFICES ASSUME Inv, minted \subseteq Creds, [Next]_allVars PROVE Inv'
  OBVIOUS
<1>1. CASE IdStep
  BY <1>1, IdStepKeeps
<1>2. ASSUME NEW w \in Workers, PkArrive(w) PROVE Inv'
  BY <1>2, RegisterPasskeyKeeps, LoginWithPasskeyKeeps, RedeliverKeeps DEF PkArrive
<1>3. ASSUME NEW w \in Workers, PkContinue(w) PROVE Inv'
  BY <1>3, BrowserKeeps, SignKeeps, AnswerKeeps, CreatePasskeyKeeps, EndsKeep DEF PkContinue
<1>4. CASE Reload \/ UNCHANGED allVars
  <2>1. UNCHANGED <<userRows, link, events, opened, holder, pc, req, locked, graced>>
    BY <1>4 DEF Reload, allVars, idVars, tables, pkVars
  <2>2. locked' \subseteq Users /\ graced' \subseteq Workers
    BY <2>1 DEF Inv, Typed, Stored
  <2> QED
    BY <2>1, <2>2, TablesStay, StandKeeps
<1> QED
  BY <1>1, <1>2, <1>3, <1>4 DEF Next

LEMMA InitHolds == PkInit => Inv
<1> SUFFICES ASSUME PkInit PROVE Inv
  OBVIOUS
<1> USE DEF PkInit, IdInit
<1>1. Stored
  BY DEF Stored
<1>2. \A w \in Workers : Fits(pc[w], req[w])
  BY BlankFits
<1>3. Typed
  BY <1>1, BlankFits DEF Typed, Places
<1>4. Rows = {} /\ RowsInv
  <2>1. Rows = {}
    BY DEF Rows, Absent
  <2>2. MaxUsers \in Nat /\ 0 \in 0..MaxUsers /\ 1..0 = {}
    BY IdentityAssumption DEF IdentityAssumption
  <2> QED
    BY <2>1, <2>2 DEF RowsInv
<1>5. Facts
  BY DEF Facts, LinkInv, UserEventsAreTrue, FederatedSessionIsLinked
<1>6. LockStopsPasswords
  BY DEF LockStopsPasswords
<1> QED
  BY <1>2, <1>3, <1>4, <1>5, <1>6 DEF Inv

-----------------------------------------------------------------------------
(* Credentials.                                                            *)

\* The request is a registration that has its credential.
Attested(w) == req[w].op = "attest" /\ req[w].by \in Creds

\* A credential is made for one call, and with its second deliveries for one user.
MintInv ==
  /\ minted \subseteq Creds
  /\ \A k \in Creds : holder[k] # None => k \in minted
  /\ \A w \in Workers : Attested(w) =>
       req[w].by \in minted /\ holder[req[w].by] \in {None, req[w].user}
  /\ \A v, w \in Workers :
       Attested(v) /\ Attested(w) /\ req[v].by = req[w].by => req[v].user = req[w].user

\* Whoever is a registration with its credential after the step was so before.
LEMMA MintStays ==
  ASSUME MintInv, UNCHANGED <<holder, minted>>,
         \A w \in Workers : ~Attested(w)' \/ req'[w] = req[w]
  PROVE  MintInv'
  BY DEF MintInv, Attested

LEMMA IdStepAttests ==
  ASSUME Inv, IdStep, NEW v \in Workers
  PROVE  ~Attested(v)' \/ req'[v] = req[v]
<1> USE IdentityAssumption, PasskeyAssumption
    DEF IdentityAssumption, PasskeyAssumption, Attested, Inv, Typed
<1>1. ASSUME NEW w \in Workers, IdArrive(w) PROVE ~Attested(v)' \/ req'[v] = req[v]
  <2>1. PICK r : req' = [req EXCEPT ![w] = r] /\ r.op # "attest"
    <3>1. ASSUME NEW m, NEW n, NEW p, Register(w, m, n, p)
          PROVE  \E r : req' = [req EXCEPT ![w] = r] /\ r.op # "attest"
      <4>1. [Blank EXCEPT !.op = "register", !.mail = m, !.name = n, !.pw = p].op # "attest"
        BY DEF Blank
      <4> QED
        BY <3>1, <4>1 DEF Register, Begin
    <3>2. ASSUME NEW u, NEW id, NEW p, VerifyCredentials(w, u, id, p)
          PROVE  \E r : req' = [req EXCEPT ![w] = r] /\ r.op # "attest"
      <4>1. [Blank EXCEPT !.op = "verify", !.user = u, !.pw = p].op # "attest"
        BY DEF Blank
      <4> QED
        BY <3>2, <4>1 DEF VerifyCredentials, Begin
    <3>3. ASSUME NEW u, NEW id, NEW p, Login(w, u, id, p)
          PROVE  \E r : req' = [req EXCEPT ![w] = r] /\ r.op # "attest"
      <4>1. [Blank EXCEPT !.op = "login", !.user = u, !.pw = p, !.by = "password"].op # "attest"
        BY DEF Blank
      <4> QED
        BY <3>3, <4>1 DEF Login, Begin
    <3>4. ASSUME NEW s, Callback(w, s)
          PROVE  \E r : req' = [req EXCEPT ![w] = r] /\ r.op # "attest"
      <4>1. [Blank EXCEPT !.op = "callback", !.user = link[s], !.mail = ProfileMail[s],
                          !.name = LocalPart[ProfileMail[s]], !.by = s].op # "attest"
        BY DEF Blank
      <4> QED
        BY <3>4, <4>1 DEF Callback, Begin
    <3> QED
      BY <1>1, <3>1, <3>2, <3>3, <3>4 DEF IdArrive
  <2> QED
    BY <2>1
<1>2. ASSUME NEW w \in Workers, IdContinue(w) PROVE ~Attested(v)' \/ req'[v] = req[v]
  <2>1. CASE Return(w)
    BY <2>1 DEF Return, Blank
  <2>2. CASE ~Return(w)
    <3>1. \/ UNCHANGED req
          \/ /\ pc[w] \in {"findMail", "provision"}
             /\ \E u : req' = [req EXCEPT ![w] = [req[w] EXCEPT !.user = u]]
      BY <1>2, <2>2 DEF IdContinue, CheckName, HashPassword, CreateUser, Migrate, EmitMigrated,
                        FindMail, Provision, CreateLink, VerifyPassword, Open, Argon
    <3>2. pc[w] \in {"findMail", "provision"} => req[w].by \notin Creds /\ req[w] \in Locals
      BY DEF Fits
    <3> QED
      BY <3>1, <3>2 DEF Locals
  <2> QED
    BY <2>1, <2>2
<1>3. ASSUME NEW w \in Workers, Abort(w) PROVE ~Attested(v)' \/ req'[v] = req[v]
  BY <1>3 DEF Abort, Return, Blank
<1>4. ASSUME NEW u \in Users, (\E m \in Mails : Import(u, m)) \/ Lock(u)
      PROVE  ~Attested(v)' \/ req'[v] = req[v]
  BY <1>4 DEF Import, Lock
<1> QED
  BY <1>1, <1>2, <1>3, <1>4 DEF IdStep

LEMMA MintKeeps == Inv /\ MintInv /\ [Next]_allVars => MintInv'
<1> SUFFICES ASSUME Inv, MintInv, [Next]_allVars PROVE MintInv'
  OBVIOUS
<1> USE DEF Inv, Typed
<1>1. CASE IdStep
  BY <1>1, IdStepAttests, MintStays DEF IdStep, pkVars
<1>2. CASE Reload \/ UNCHANGED allVars
  BY <1>2, MintStays DEF Reload, allVars, idVars, pkVars
<1>3. ASSUME NEW w \in Workers, PkArrive(w), \A v \in Workers : ~Redeliver(w, v) PROVE MintInv'
  <2>1. PICK r : req' = [req EXCEPT ![w] = r] /\ r.by = None
    <3>1. ASSUME NEW u, RegisterPasskey(w, u)
          PROVE  \E r : req' = [req EXCEPT ![w] = r] /\ r.by = None
      <4>1. [Blank EXCEPT !.op = "attest", !.user = u].by = None
        BY DEF Blank
      <4> QED
        BY <3>1, <4>1 DEF RegisterPasskey, Begin
    <3>2. ASSUME NEW u, NEW id, LoginWithPasskey(w, u, id)
          PROVE  \E r : req' = [req EXCEPT ![w] = r] /\ r.by = None
      <4>1. [Blank EXCEPT !.op = "assert", !.user = u, !.name = id].by = None
        BY DEF Blank
      <4> QED
        BY <3>2, <4>1 DEF LoginWithPasskey, Begin
    <3> QED
      BY <1>3, <3>1, <3>2 DEF PkArrive
  <2>2. UNCHANGED <<holder, minted>>
    BY <1>3 DEF PkArrive, RegisterPasskey, LoginWithPasskey
  <2> QED
    BY <2>1, <2>2, MintStays, PasskeyAssumption DEF Attested, PasskeyAssumption
<1>4. ASSUME NEW w \in Workers, NEW v \in Workers, Redeliver(w, v) PROVE MintInv'
  BY <1>4 DEF Redeliver, Begin, MintInv, Attested
<1>5. ASSUME NEW w \in Workers,
             GenerateKey(w) \/ ExportKey(w) \/ Digest(w) \/ StoreChallenge(w)
      PROVE  MintInv'
  BY <1>5, MintStays DEF GenerateKey, ExportKey, Digest, StoreChallenge, Moves, pkVars
<1>6. ASSUME NEW w \in Workers,
             Refuse(w) \/ Decline(w) \/ SendAttestation(w) \/ FindPasskey(w) \/ ClearChallenge(w)
      PROVE  MintInv'
  <2>1. UNCHANGED <<holder, minted>> /\ (Return(w) \/ UNCHANGED req)
    BY <1>6 DEF Refuse, Decline, SendAttestation, FindPasskey, ClearChallenge, Moves, Leaves,
                pkVars
  <2> QED
    BY <2>1, MintStays DEF Return, Blank, Attested
<1>7. ASSUME NEW w \in Workers, SignChallenge(w) PROVE MintInv'
  <2>1. PICK k : req' = [req EXCEPT ![w] = [req[w] EXCEPT !.by = k]]
    BY <1>7 DEF SignChallenge
  <2>2. UNCHANGED <<holder, minted>> /\ req[w].op = "assert" /\ req[w] \in Locals
    BY <1>7 DEF SignChallenge, pkVars
  <2> QED
    BY <2>1, <2>2, MintStays DEF Attested, Locals
<1>8. ASSUME NEW w \in Workers, Attest(w) PROVE MintInv'
  <2>1. PICK k \in Creds \ minted : /\ minted' = minted \union {k}
                                    /\ req' = [req EXCEPT ![w] = [req[w] EXCEPT !.by = k]]
                                    /\ UNCHANGED holder
    BY <1>8 DEF Attest
  <2>2. holder[k] = None /\ \A v \in Workers : Attested(v) => req[v].by # k
    BY <2>1 DEF MintInv
  <2>3. req'[w].by = k /\ \A v \in Workers : v # w => req'[v] = req[v]
    BY <2>1 DEF Locals
  <2>4. \A v \in Workers : v # w => (Attested(v)' <=> Attested(v))
    BY <2>3 DEF Attested
  <2>5. \A v \in Workers : Attested(v)' =>
          req'[v].by \in minted' /\ holder'[req'[v].by] \in {None, req'[v].user}
    BY <2>1, <2>2, <2>3, <2>4 DEF MintInv
  <2>6. \A u, v \in Workers :
          Attested(u)' /\ Attested(v)' /\ req'[u].by = req'[v].by => req'[u].user = req'[v].user
    BY <2>2, <2>3, <2>4 DEF MintInv
  <2> QED
    BY <2>1, <2>5, <2>6 DEF MintInv
<1>9. ASSUME NEW w \in Workers, CreatePasskey(w) PROVE MintInv'
  <2>1. CASE Leaves(w) /\ UNCHANGED holder
    BY <1>9, <2>1, MintStays DEF CreatePasskey, Leaves, Return, Blank, Attested
  <2>2. CASE ~(Leaves(w) /\ UNCHANGED holder)
    <3>1. Attested(w)
      BY <1>9 DEF CreatePasskey, Fits, Attested
    <3>2. PICK k, u : k = req[w].by /\ u = req[w].user
      OBVIOUS
    <3>3. /\ holder' = [holder EXCEPT ![k] = u] /\ UNCHANGED <<req, minted>>
          /\ k \in Creds /\ k \in minted /\ holder \in [Creds -> Users \union {None}]
      BY <1>9, <2>2, <3>1, <3>2 DEF CreatePasskey, Moves, MintInv, Attested, Stored
    <3>4. \A v \in Workers : Attested(v) /\ req[v].by = k => req[v].user = u
      BY <3>1, <3>2 DEF MintInv
    <3> QED
      BY <3>3, <3>4 DEF MintInv, Attested
  <2> QED
    BY <2>1, <2>2
<1> QED
  BY <1>1, <1>2, <1>3, <1>4, <1>5, <1>6, <1>7, <1>8, <1>9 DEF Next, PkArrive, PkContinue

LEMMA MintInit == PkInit => MintInv
  BY PasskeyAssumption
     DEF PkInit, IdInit, Blank, MintInv, Attested, PasskeyAssumption

\* The bounds of the behaviours.
Bounded == started \in 0..MaxRequests /\ aborts \in 0..MaxAborts

LEMMA BoundsKeep == Bounded /\ [Next]_allVars => Bounded'
<1> SUFFICES ASSUME Bounded, [Next]_allVars PROVE Bounded'
  OBVIOUS
<1>1. ASSUME NEW w \in Workers, NEW r, NEW p, Begin(w, r, p) PROVE Bounded'
  BY <1>1, IdentityAssumption DEF Begin, Bounded, IdentityAssumption
<1>2. ASSUME UNCHANGED <<started, aborts>> PROVE Bounded'
  BY <1>2 DEF Bounded
<1>3. ASSUME NEW w \in Workers, Abort(w) PROVE Bounded'
  BY <1>3, IdentityAssumption DEF Abort, Bounded, IdentityAssumption
<1>4. ASSUME NEW w \in Workers, IdArrive(w) PROVE Bounded'
  BY <1>1, <1>4 DEF IdArrive, Register, VerifyCredentials, Login, Callback
<1>5. ASSUME NEW w \in Workers, IdContinue(w) PROVE Bounded'
  BY <1>2, <1>5 DEF IdContinue, CheckName, HashPassword, CreateUser, Migrate, EmitMigrated, FindMail,
                    Provision, CreateLink, VerifyPassword, Open, Argon, Stay
<1>6. ASSUME NEW u \in Users, (\E m \in Mails : Import(u, m)) \/ Lock(u) PROVE Bounded'
  BY <1>2, <1>6 DEF Import, Lock
<1>7. ASSUME NEW w \in Workers, PkArrive(w) PROVE Bounded'
  BY <1>1, <1>7 DEF PkArrive, RegisterPasskey, LoginWithPasskey, Redeliver
<1>8. ASSUME NEW w \in Workers, PkContinue(w) PROVE Bounded'
  BY <1>2, <1>8 DEF PkContinue, GenerateKey, ExportKey, Digest, StoreChallenge, Refuse, Attest,
                    SignChallenge, Decline, SendAttestation, FindPasskey, CreatePasskey, ClearChallenge,
                    Moves, Leaves, Stay
<1>9. CASE Reload \/ UNCHANGED allVars
  BY <1>2, <1>9 DEF Reload, allVars, idVars
<1> QED
  BY <1>3, <1>4, <1>5, <1>6, <1>7, <1>8, <1>9 DEF Next, IdStep

LEMMA BoundsInit == PkInit => Bounded
  BY IdentityAssumption DEF PkInit, IdInit, Bounded, IdentityAssumption

LEMMA InvHolds == Spec => [](Inv /\ MintInv)
<1>1. MintInv => minted \subseteq Creds
  BY DEF MintInv
<1> QED
  BY InitHolds, NextKeeps, MintInit, MintKeeps, <1>1, PTL DEF Spec

\* What the outbox says of users is so, for any number of registrations and
\* migrations at a time.
THEOREM UserEventsHold == Spec => []UserEventsAreTrue
<1>1. Inv => UserEventsAreTrue
  BY DEF Inv, Facts
<1> QED
  BY InvHolds, <1>1, PTL

\* A session opened through a provider belongs to the user linked to the account.
THEOREM LinkHolds == Spec => []FederatedSessionIsLinked
<1>1. Inv => FederatedSessionIsLinked
  BY DEF Inv, Facts
<1> QED
  BY InvHolds, <1>1, PTL

\* After a lock only password sign-ins that were under way can go on.
THEOREM LockHolds == Spec => []LockStopsPasswords
<1>1. Inv => LockStopsPasswords
  BY DEF Inv
<1> QED
  BY InvHolds, <1>1, PTL

\* A registration that was verified ends with its row, or with a fault: the unique
\* key only stops a second delivery, whose row is there already.
THEOREM StoredHolds == Spec => VerifiedIsStored
<1>1. ASSUME Inv, MintInv, [Next]_allVars, NEW w \in Workers,
             pc[w] = "createPasskey", pc'[w] # "createPasskey"
      PROVE  holder'[req[w].by] = req[w].user \/ aborts' = aborts + 1
  <2> USE DEF Inv, Typed
  <2>1. CASE IdStep
    <3>1. ASSUME NEW v \in Workers, IdArrive(v) PROVE pc'[w] = pc[w]
      BY <1>1, <3>1 DEF IdArrive, Register, VerifyCredentials, Login, Callback, Begin, Goto
    <3>2. ASSUME NEW v \in Workers, IdContinue(v) PROVE pc'[w] = pc[w]
      BY <1>1, <3>2 DEF IdContinue, CheckName, HashPassword, CreateUser, Migrate, EmitMigrated,
                        FindMail, Provision, CreateLink, VerifyPassword, Open, Argon, Return, Goto
    <3>3. ASSUME NEW v \in Workers, Abort(v) PROVE aborts' = aborts + 1
      BY <3>3 DEF Abort
    <3>4. ASSUME NEW u \in Users, (\E m \in Mails : Import(u, m)) \/ Lock(u) PROVE pc'[w] = pc[w]
      BY <3>4 DEF Import, Lock
    <3> QED
      BY <1>1, <2>1, <3>1, <3>2, <3>3, <3>4 DEF IdStep
  <2>2. ASSUME NEW v \in Workers, PkArrive(v) PROVE pc'[w] = pc[w]
    BY <1>1, <2>2 DEF PkArrive, RegisterPasskey, LoginWithPasskey, Redeliver, Begin, Goto
  <2>3. ASSUME NEW v \in Workers, PkContinue(v), v # w PROVE pc'[w] = pc[w]
    BY <1>1, <2>3 DEF PkContinue, GenerateKey, ExportKey, Digest, StoreChallenge, Refuse, Attest,
       SignChallenge, Decline, SendAttestation, FindPasskey, CreatePasskey, ClearChallenge, Moves,
       Leaves, Return, Goto
  <2>4. CASE PkContinue(w)
    <3>1. CreatePasskey(w)
      BY <1>1, <2>4 DEF PkContinue, GenerateKey, ExportKey, Digest, StoreChallenge, Refuse,
         Attest, SignChallenge, Decline, SendAttestation, FindPasskey, ClearChallenge
    <3>2. Attested(w) /\ holder \in [Creds -> Users \union {None}]
      BY <1>1 DEF Fits, Attested, Stored
    <3>3. holder[req[w].by] \in {None, req[w].user}
      BY <1>1, <3>2 DEF MintInv
    <3> QED
      BY <3>1, <3>2, <3>3 DEF CreatePasskey, Attested
  <2>5. CASE Reload \/ UNCHANGED allVars
    BY <1>1, <2>5 DEF Reload, allVars, idVars
  <2> QED
    BY <1>1, <2>1, <2>2, <2>3, <2>4, <2>5 DEF Next
<1>2. Bounded /\ aborts' = aborts + 1 => aborts' > aborts
  BY IdentityAssumption DEF Bounded, IdentityAssumption
<1>3. Inv /\ MintInv /\ Bounded /\ [Next]_allVars =>
        [\A w \in Workers :
           pc[w] = "createPasskey" /\ pc'[w] # "createPasskey"
             => holder'[req[w].by] = req[w].user \/ aborts' > aborts]_allVars
  BY <1>1, <1>2
<1> QED
  BY InvHolds, BoundsInit, BoundsKeep, <1>3, PTL DEF Spec, VerifiedIsStored

-----------------------------------------------------------------------------
(* Challenges.                                                             *)

\* A challenge is in one slot at most, and none comes back.
SlotInv ==
  /\ drawn \in Nat
  /\ challenge \in [Users -> 0..drawn] /\ retired \subseteq 1..drawn
  /\ \A u, v \in Users : challenge[u] = challenge[v] /\ challenge[u] # 0 => u = v
  /\ RetiredStaysRetired

LEMMA SlotKeeps == Inv /\ SlotInv /\ [Next]_allVars => SlotInv'
<1> SUFFICES ASSUME Inv, SlotInv, [Next]_allVars PROVE SlotInv'
  OBVIOUS
<1>1. CASE UNCHANGED <<challenge, drawn, retired>>
  BY <1>1 DEF SlotInv, RetiredStaysRetired
<1>2. ASSUME NEW w \in Workers, StoreChallenge(w) PROVE SlotInv'
  <2>1. PICK u : u = req[w].user
    OBVIOUS
  <2>2. u \in Users
    BY <1>2, <2>1 DEF Inv, Fits, StoreChallenge, PkPlaces
  <2>3. /\ drawn' = drawn + 1 /\ challenge' = [challenge EXCEPT ![u] = drawn + 1]
        /\ retired' = retired \union ({challenge[u]} \ {0})
    BY <1>2, <2>1 DEF StoreChallenge, Retire
  <2>4. /\ drawn' \in Nat /\ challenge' \in [Users -> 0..drawn'] /\ retired' \subseteq 1..drawn'
    <3>1. challenge[u] \in 0..drawn /\ drawn \in Nat
      BY <2>2 DEF SlotInv
    <3>2. \A c \in 1..drawn : c \in 1..(drawn + 1)
      BY <3>1
    <3>3. \A c \in 0..drawn : c \in 0..(drawn + 1)
      BY <3>1
    <3>4. retired' \subseteq 1..drawn'
      <4>1. PICK c \in 0..drawn : c = challenge[u]
        BY <3>1
      <4>2. retired' = retired \union ({c} \ {0}) /\ retired \subseteq 1..drawn
        BY <2>3, <4>1 DEF SlotInv
      <4>3. {c} \ {0} \subseteq 1..drawn
        BY <3>1, <4>1
      <4>4. 1..drawn \subseteq 1..(drawn + 1)
        BY <3>2
      <4> QED
        BY <2>3, <4>2, <4>3, <4>4
    <3>5. challenge' \in [Users -> 0..drawn']
      BY <2>2, <2>3, <3>1, <3>3 DEF SlotInv
    <3> QED
      BY <2>3, <3>1, <3>4, <3>5
  <2>5. \A v \in Users : challenge[v] # drawn + 1
    BY DEF SlotInv
  <2>6. \A v \in Users : v # u => challenge'[v] = challenge[v] /\ challenge'[u] = drawn + 1
    BY <2>2, <2>3 DEF SlotInv
  <2>7. \A v, x \in Users : challenge'[v] = challenge'[x] /\ challenge'[v] # 0 => v = x
    BY <2>2, <2>3, <2>5 DEF SlotInv
  <2>8. drawn + 1 \notin retired'
    BY <2>2, <2>3, <2>5 DEF SlotInv
  <2>9. RetiredStaysRetired'
    BY <2>2, <2>3, <2>8 DEF SlotInv, RetiredStaysRetired
  <2> QED
    BY <2>4, <2>7, <2>9 DEF SlotInv
<1>3. ASSUME NEW w \in Workers, ClearChallenge(w) PROVE SlotInv'
  <2>1. PICK u : u = req[w].user
    OBVIOUS
  <2>2. u \in Users
    BY <1>3, <2>1 DEF Inv, Fits, ClearChallenge, PkPlaces
  <2>3. /\ drawn' = drawn /\ challenge' = [challenge EXCEPT ![u] = 0]
        /\ retired' = retired \union ({challenge[u]} \ {0})
    BY <1>3, <2>1 DEF ClearChallenge, Retire
  <2>4. 0 \in 0..drawn
    BY DEF SlotInv
  <2>5. challenge' \in [Users -> 0..drawn'] /\ retired' \subseteq 1..drawn'
    <3>1. challenge[u] \in 0..drawn /\ drawn \in Nat
      BY <2>2 DEF SlotInv
    <3>2. retired' \subseteq 1..drawn
      <4>1. PICK c \in 0..drawn : c = challenge[u]
        BY <3>1
      <4>2. retired' = retired \union ({c} \ {0}) /\ retired \subseteq 1..drawn
        BY <2>3, <4>1 DEF SlotInv
      <4>3. {c} \ {0} \subseteq 1..drawn
        BY <3>1, <4>1
      <4> QED
        BY <4>2, <4>3
    <3>3. challenge' \in [Users -> 0..drawn]
      BY <2>2, <2>3, <2>4 DEF SlotInv
    <3> QED
      BY <2>3, <3>2, <3>3
  <2>6. \A v, x \in Users : challenge'[v] = challenge'[x] /\ challenge'[v] # 0 => v = x
    BY <2>2, <2>3 DEF SlotInv
  <2>7. 0 \notin retired'
    BY <2>3 DEF SlotInv
  <2>8. RetiredStaysRetired'
    BY <2>2, <2>3, <2>7 DEF SlotInv, RetiredStaysRetired
  <2> QED
    BY <2>3, <2>5, <2>6, <2>8 DEF SlotInv
<1> QED
  BY <1>1, <1>2, <1>3
     DEF Next, IdStep, PkArrive, PkContinue, RegisterPasskey, LoginWithPasskey, Redeliver,
         GenerateKey, ExportKey, Digest, Refuse, Attest, SignChallenge, Decline, SendAttestation,
         FindPasskey, CreatePasskey, Reload, pkVars, allVars

LEMMA SlotInit == PkInit => SlotInv
  BY DEF PkInit, SlotInv, RetiredStaysRetired

\* A challenge that was answered or superseded never comes back.
THEOREM RetiredHolds == Spec => []RetiredStaysRetired
<1>1. SlotInv => RetiredStaysRetired
  BY DEF SlotInv
<1> QED
  BY InvHolds, SlotInit, SlotKeeps, <1>1, PTL DEF Spec

-----------------------------------------------------------------------------
(* The page's key.                                                         *)

\* Every export under way is of its own call, which waits for it, and of a key made;
\* at most one is of the newest key, and if none is it has overtaken the others.
ExportInv ==
  /\ pair \in Nat /\ jwk \in 0..pair
  /\ exports \subseteq Workers \X (1..pair)
  /\ \A e \in exports : pc[e[1]] = "export"
  /\ \A e, f \in exports : e[1] = f[1] \/ (e[2] = pair /\ f[2] = pair) => e = f
  /\ exports # {} => (overtaken <=> \A e \in exports : e[2] # pair)
  /\ KeysAgree

LEMMA GeneratedKeeps ==
  ASSUME Typed, ExportInv, NEW w \in Workers, GenerateKey(w)
  PROVE  ExportInv'
<1>1. /\ pair' = pair + 1 /\ jwk' = jwk /\ overtaken' = FALSE
      /\ exports' = exports \union {<<w, pair + 1>>}
      /\ pc[w] = "generate" /\ pc' = [pc EXCEPT ![w] = "export"]
  BY DEF GenerateKey, Generated, Moves, Goto
<1>2. \A e \in exports : e[1] \in Workers /\ e[2] \in 1..pair
  BY DEF ExportInv
<1>3. pair \in Nat /\ pair' \in Nat /\ jwk' \in 0..pair'
  BY <1>1 DEF ExportInv
<1>4. PICK n : n = <<w, pair + 1>>
  OBVIOUS
<1>5. n[1] = w /\ n[2] = pair' /\ n \in exports' /\ exports' = exports \union {n}
  BY <1>1, <1>4
<1>6. \A e \in exports : e[1] # w /\ e[2] # pair' /\ pc'[e[1]] = "export"
  BY <1>1, <1>2, <1>3 DEF ExportInv, Typed
<1>7. exports' \subseteq Workers \X (1..pair')
  <2>1. 1..pair \subseteq 1..pair' /\ pair + 1 \in 1..pair'
    BY <1>1, <1>3
  <2> QED
    BY <1>1, <2>1 DEF ExportInv
<1>8. \A e \in exports' : pc'[e[1]] = "export"
  BY <1>1, <1>5, <1>6 DEF Typed
<1>9. \A e, f \in exports' : e[1] = f[1] \/ (e[2] = pair' /\ f[2] = pair') => e = f
  BY <1>5, <1>6 DEF ExportInv
<1>10. KeysAgree' /\ (overtaken' <=> \A e \in exports' : e[2] # pair')
  BY <1>1, <1>5 DEF KeysAgree
<1> QED
  BY <1>3, <1>7, <1>8, <1>9, <1>10 DEF ExportInv

LEMMA ExportedKeeps ==
  ASSUME Typed, ExportInv, NEW w \in Workers, ExportKey(w)
  PROVE  ExportInv'
<1>1. PICK e \in exports : e[1] = w /\ jwk' = e[2] /\ exports' = exports \ {e}
                          /\ overtaken' = (IF e[2] = pair THEN exports' # {} ELSE overtaken)
                          /\ pair' = pair /\ pc' = [pc EXCEPT ![w] = "digest"]
  BY DEF ExportKey, Exported, Moves, Goto
<1>2. \A f \in exports : f[1] \in Workers /\ f[2] \in 1..pair
  BY DEF ExportInv
<1>3. pair \in Nat /\ jwk' \in 0..pair'
  BY <1>1, <1>2 DEF ExportInv
<1>4. \A f \in exports' : f \in exports /\ f # e /\ f[1] # w
  BY <1>1 DEF ExportInv
<1>5. \A f \in exports' : pc'[f[1]] = "export"
  BY <1>1, <1>2, <1>4 DEF ExportInv, Typed
<1>6. \A f, g \in exports' : f[1] = g[1] \/ (f[2] = pair' /\ g[2] = pair') => f = g
  BY <1>1, <1>4 DEF ExportInv
<1>7. KeysAgree' /\ (exports' # {} => (overtaken' <=> \A f \in exports' : f[2] # pair'))
  <2>1. CASE e[2] = pair
    <3>1. \A f \in exports' : f[2] # pair'
      BY <1>1, <1>4, <2>1 DEF ExportInv
    <3> QED
      BY <1>1, <2>1, <3>1 DEF KeysAgree
  <2>2. CASE e[2] # pair
    <3>1. overtaken' = overtaken
      BY <1>1, <2>2
    <3>2. (\A f \in exports' : f[2] # pair') <=> (\A f \in exports : f[2] # pair)
      BY <1>1, <2>2
    <3>3. overtaken <=> \A f \in exports : f[2] # pair
      BY <1>1 DEF ExportInv
    <3>4. exports' = {} => overtaken
      BY <3>2, <3>3
    <3> QED
      BY <1>1, <2>2, <3>1, <3>2, <3>3, <3>4 DEF KeysAgree
  <2> QED
    BY <2>1, <2>2
<1>8. exports' \subseteq Workers \X (1..pair')
  BY <1>1 DEF ExportInv
<1> QED
  BY <1>1, <1>3, <1>5, <1>6, <1>7, <1>8 DEF ExportInv

\* Whoever waits for an export stays there but for its completion.
LEMMA OthersKeepExports ==
  ASSUME ExportInv, UNCHANGED keyVars,
         \A v \in Workers : pc[v] = "export" => pc'[v] = "export"
  PROVE  ExportInv'
<1>1. UNCHANGED <<pair, jwk, exports, overtaken>>
  BY DEF keyVars
<1>2. \A e \in exports : e[1] \in Workers
  BY DEF ExportInv
<1> QED
  BY <1>1, <1>2 DEF ExportInv, KeysAgree

\* The page's key is only touched by the steps of its calls: whoever else moves
\* was not waiting for an export.
Elsewhere == \/ UNCHANGED pc
             \/ \E w \in Workers, p \in Places : pc[w] # "export" /\ pc' = [pc EXCEPT ![w] = p]

LEMMA KeySteps ==
  ASSUME Inv, [Next]_allVars
  PROVE  \/ \E w \in Workers : GenerateKey(w) \/ ExportKey(w)
         \/ Reload
         \/ UNCHANGED keyVars /\ Elsewhere
<1> USE DEF Places, PkPlaces
<1>1. CASE UNCHANGED allVars
  BY <1>1 DEF allVars, idVars, Elsewhere
<1>2. CASE IdStep
  <2>1. ASSUME NEW w \in Workers, IdArrive(w) PROVE Elsewhere
    <3>1. pc[w] = "idle" /\ \E p \in Places : Goto(w, p)
      BY <2>1 DEF IdArrive, Register, VerifyCredentials, Login, Callback, Begin
    <3> QED
      BY <3>1 DEF Elsewhere, Goto
  <2>2. ASSUME NEW w \in Workers, IdContinue(w) PROVE Elsewhere
    <3>1. pc[w] # "export"
      BY <2>2 DEF IdContinue, CheckName, HashPassword, CreateUser, Migrate, EmitMigrated,
                  FindMail, Provision, CreateLink, VerifyPassword, Open
    <3>2. \E p \in Places : Goto(w, p)
      BY <2>2 DEF IdContinue, CheckName, HashPassword, CreateUser, Migrate, EmitMigrated,
                  FindMail, Provision, CreateLink, VerifyPassword, Open, Argon, Return
    <3> QED
      BY <3>1, <3>2 DEF Elsewhere, Goto
  <2>3. ASSUME NEW w \in Workers, pc[w] \notin {"generate", "export", "digest"}, Abort(w)
        PROVE  Elsewhere
    BY <2>3 DEF Abort, Return, Goto, Elsewhere
  <2>4. ASSUME NEW u \in Users, (\E m \in Mails : Import(u, m)) \/ Lock(u) PROVE Elsewhere
    BY <2>4 DEF Import, Lock, Elsewhere
  <2> QED
    BY <1>2, <2>1, <2>2, <2>3, <2>4 DEF IdStep
<1>3. ASSUME NEW w \in Workers, PkArrive(w) PROVE UNCHANGED keyVars /\ Elsewhere
  <2>1. UNCHANGED keyVars /\ pc[w] = "idle" /\ \E p \in Places : Goto(w, p)
    BY <1>3 DEF PkArrive, RegisterPasskey, LoginWithPasskey, Redeliver, Begin
  <2> QED
    BY <2>1 DEF Elsewhere, Goto
<1>4. ASSUME NEW w \in Workers, PkContinue(w), ~GenerateKey(w), ~ExportKey(w)
      PROVE  UNCHANGED keyVars /\ Elsewhere
  <2>1. UNCHANGED keyVars /\ pc[w] # "export"
    BY <1>4 DEF PkContinue, Digest, StoreChallenge, Refuse, Attest, SignChallenge, Decline,
                SendAttestation, FindPasskey, CreatePasskey, ClearChallenge
  <2>2. \E p \in Places : Goto(w, p)
    BY <1>4 DEF PkContinue, Digest, StoreChallenge, Refuse, Attest, SignChallenge, Decline,
                SendAttestation, FindPasskey, CreatePasskey, ClearChallenge, Moves, Leaves, Return
  <2> QED
    BY <2>1, <2>2 DEF Elsewhere, Goto
<1> QED
  BY <1>1, <1>2, <1>3, <1>4 DEF Next, IdStep, allVars

LEMMA ReloadKeeps ==
  ASSUME ExportInv, Reload
  PROVE  ExportInv'
<1>1. /\ pair' = 0 /\ jwk' = 0 /\ overtaken' = FALSE /\ exports' = exports
      /\ \A v \in Workers : pc[v] # "export"
  BY DEF Reload, Forgotten
<1>2. exports = {}
  BY <1>1 DEF ExportInv
<1> QED
  BY <1>1, <1>2 DEF ExportInv, KeysAgree

LEMMA ExportKeeps == Inv /\ ExportInv /\ [Next]_allVars => ExportInv'
<1> SUFFICES ASSUME Inv, ExportInv, [Next]_allVars PROVE ExportInv'
  OBVIOUS
<1>1. CASE UNCHANGED keyVars /\ Elsewhere
  <2>1. \A v \in Workers : pc[v] = "export" => pc'[v] = "export"
    BY <1>1 DEF Elsewhere, Inv, Typed
  <2> QED
    BY <1>1, <2>1, OthersKeepExports
<1> QED
  BY <1>1, GeneratedKeeps, ExportedKeeps, ReloadKeeps, KeySteps DEF Inv

LEMMA ExportInit == PkInit => ExportInv
  BY DEF PkInit, KeyInit, ExportInv, KeysAgree

\* Header and signature of DPoP proofs come to agree, for any number of parallel
\* first calls and in whatever order WebCrypto completes them, except when the
\* newest key's export has overtaken another.
THEOREM KeysHold == Spec => []KeysAgree
<1>1. ExportInv => KeysAgree
  BY DEF ExportInv
<1> QED
  BY InvHolds, ExportInit, ExportKeeps, <1>1, PTL DEF Spec

-----------------------------------------------------------------------------
(* Types.                                                                  *)

OptionsInv == options \in [Workers -> Options]

LEMMA OptionsKeep == Inv /\ SlotInv /\ OptionsInv /\ [Next]_allVars => OptionsInv'
<1> SUFFICES ASSUME Inv, SlotInv, OptionsInv, [Next]_allVars PROVE OptionsInv'
  OBVIOUS
<1> USE DEF OptionsInv
<1>1. CASE UNCHANGED <<options, drawn>>
  BY <1>1 DEF Options
<1>2. ASSUME NEW w \in Workers, StoreChallenge(w) PROVE OptionsInv'
  <2>1. drawn' = drawn + 1 /\ options' = [options EXCEPT ![w] = [options[w] EXCEPT !.chal = drawn + 1]]
    BY <1>2 DEF StoreChallenge
  <2>2. drawn \in Nat /\ 0..drawn \subseteq 0..drawn' /\ drawn + 1 \in 0..drawn'
    BY <2>1 DEF SlotInv
  <2>3. Options \subseteq Options' /\ [options[w] EXCEPT !.chal = drawn + 1] \in Options'
    BY <2>2 DEF Options
  <2> QED
    BY <2>1, <2>3
<1>3. ASSUME NEW w \in Workers, PkArrive(w) PROVE OptionsInv'
  <2>1. drawn' = drawn /\ 0 \in 0..drawn /\ Options' = Options
    <3>1. drawn' = drawn
      BY <1>3 DEF PkArrive, RegisterPasskey, LoginWithPasskey, Redeliver
    <3>2. drawn \in Nat
      BY DEF SlotInv
    <3> QED
      BY <3>1, <3>2 DEF Options
  <2>2. \A u \in Users : Listed(u) \in SUBSET {StoredId(k) : k \in Creds}
    BY DEF Listed
  <2>3. PICK o : options' = [options EXCEPT ![w] = o] /\ o \in Options
    BY <1>3, <2>1, <2>2
       DEF PkArrive, RegisterPasskey, LoginWithPasskey, Redeliver, NoOptions, Options
  <2> QED
    BY <2>1, <2>3
<1> QED
  BY <1>1, <1>2, <1>3
     DEF Next, IdStep, PkContinue, GenerateKey, ExportKey, Digest, Refuse, Attest, SignChallenge,
         Decline, SendAttestation, FindPasskey, CreatePasskey, ClearChallenge, Reload, pkVars,
         allVars

LEMMA OptionsInit == PkInit => OptionsInv
  BY DEF PkInit, OptionsInv, NoOptions, Options

\* Accounts, passkeys, keys and requests keep their types.
THEOREM TypeCorrect == Spec => []TypeOK
<1>1. Inv /\ MintInv /\ SlotInv /\ ExportInv /\ OptionsInv /\ Bounded => TypeOK
  <2> SUFFICES ASSUME Inv, MintInv, SlotInv, ExportInv, OptionsInv, Bounded PROVE TypeOK
    OBVIOUS
  <2>1. options \in [Workers -> Options]
    BY DEF OptionsInv
  <2>2. minted \subseteq Creds
    BY DEF MintInv
  <2>3. challenge \in [Users -> 0..drawn] /\ retired \subseteq 1..drawn
    BY DEF SlotInv
  <2>4. jwk <= pair
    BY DEF ExportInv
  <2>5. started \in 0..MaxRequests /\ aborts \in 0..MaxAborts
    BY DEF Bounded
  <2> QED
    BY <2>1, <2>2, <2>3, <2>4, <2>5 DEF Inv, Typed, Stored, TypeOK
<1> QED
  BY InvHolds, SlotInit, SlotKeeps, ExportInit, ExportKeeps, OptionsInit, OptionsKeep,
     BoundsInit, BoundsKeep, <1>1, PTL DEF Spec
=============================================================================
