-------------------------- MODULE UserAdminProofs --------------------------
(***************************************************************************)
(* Proofs about UserAdmin, for any number of consoles, accounts and        *)
(* requests.                                                               *)
(*                                                                         *)
(* A handler looks up and writes in different transactions, so what it has *)
(* looked up may be out of date when it writes.  The invariant keeps what  *)
(* does not go out of date: that the asker was an administrator, that the  *)
(* role asked for is one of the table's, that the account is still there.  *)
(***************************************************************************)
EXTENDS UserAdmin, TLAPS

\* What a handler in progress may rely on.
HandlerOK(c) ==
    op[c] # Idle =>
        /\ op[c].stage \in {"authorised", "checked"} /\ op[c].req \in Requests
        /\ IsAdmin(op[c].by)
        /\ op[c].stage = "checked" /\ op[c].req.kind = "create" => op[c].req.role \in ValidRoles
        /\ op[c].stage = "checked" /\ op[c].req.kind = "update" =>
              op[c].req.role \in ValidRoles \union {None} /\ Exists(op[c].req.uid)

TablesOK ==
    /\ users \in [Uids -> Users \union {Absent}]
    /\ seed \in Names \union {"idle"}
    /\ created \subseteq Names \X Uids

NamesOK ==
    /\ \A x \in created : Exists(x[2]) /\ users[x[2]].username = x[1]
    /\ \A u, v \in Uids : (Exists(u) /\ Exists(v) /\ users[u].username = users[v].username) => u = v

IInv ==
    /\ TablesOK /\ NamesOK
    /\ DOMAIN op = Clients /\ \A c \in Clients : HandlerOK(c)

-----------------------------------------------------------------------------
\* What a request asks for is of its kind.
LEMMA RequestFacts ==
    ASSUME NEW req \in Requests
    PROVE  /\ req.kind = "create" => req.username \in Names
           /\ req.kind = "update" => req.uid \in Uids /\ req.is_active \in {"yes", "no", None}
  BY UserAdminAssumption DEF RequestRecords

\* A row is no absence of one.
LEMMA RowFacts ==
    /\ \A row \in Users : row # Absent
    /\ \A name \in Names, role \in ValidRoles : NewUser(name, role) \in Users
    /\ \A row \in Users : row.username \in Names
  BY DEF Users, Absent, NewUser

\* A patch with a role of the table leaves a row a row, of the same name.
LEMMA PatchedFacts ==
    ASSUME NEW row \in Users, NEW req, req.role \in ValidRoles \union {None}
    PROVE  Patched(row, req) \in Users /\ Patched(row, req).username = row.username
  <1>1. (req.is_active = "yes") \in BOOLEAN
    OBVIOUS
  <1>2. QED
    BY <1>1 DEF Patched, Users

\* Only an administrator may manage users.
LEMMA PermissionFacts ==
    ASSUME NEW row \in Users, row.is_active, has_permission(row.role, "users:manage")
    PROVE  IsAdmin(row)
  <1>1. row.role \in {"developer", "accountant", "admin"}
    BY DEF Users, ValidRoles
  <1>2. row.role # "developer" /\ row.role # "accountant"
    BY DEF has_permission, ROLE_PERMISSIONS
  <1>3. QED
    BY <1>1, <1>2, RowFacts DEF IsAdmin
-----------------------------------------------------------------------------
(***************************************************************************)
(* The invariant.                                                          *)
(***************************************************************************)
\* The table as it is at the beginning, and no request.
LEMMA IInvInit == Init => IInv
  BY UserAdminAssumption, InitialNamesDiffer
     DEF Init, IInv, TablesOK, NamesOK, HandlerOK, Exists

\* What a handler relies on stays true when accounts are only added and patched.
LEMMA HandlerKept ==
    ASSUME NEW c \in Clients, HandlerOK(c), op'[c] = op[c],
           \A u \in Uids : Exists(u) => Exists(u)'
    PROVE  HandlerOK(c)'
  <1>1. CASE op[c] = Idle
    BY <1>1 DEF HandlerOK
  <1>2. CASE op[c] # Idle
    <2>1. op[c].req.kind = "update" => op[c].req.uid \in Uids
      BY <1>2, RequestFacts DEF HandlerOK
    <2>2. QED
      BY <1>2, <2>1 DEF HandlerOK
  <1>3. QED
    BY <1>1, <1>2

\* A step of one handler that leaves the tables alone.
LEMMA LookStep ==
    ASSUME IInv, NEW c \in Clients, NEW o,
           op' = [op EXCEPT ![c] = o], UNCHANGED <<users, created>>,
           seed' \in Names \union {"idle"},
           HandlerOK(c)'
    PROVE  IInv'
  <1>1. TablesOK' /\ NamesOK'
    BY DEF IInv, TablesOK, NamesOK, Exists
  <1>2. DOMAIN op' = Clients
    BY DEF IInv
  <1>3. ASSUME NEW d \in Clients, d # c PROVE HandlerOK(d)'
    <2>1. op'[d] = op[d] /\ HandlerOK(d)
      BY <1>3 DEF IInv
    <2>2. \A u \in Uids : Exists(u) => Exists(u)'
      BY DEF Exists
    <2>3. QED
      BY <2>1, <2>2, HandlerKept
  <1>4. QED
    BY <1>1, <1>2, <1>3 DEF IInv

\* A new account under a name that is not taken.
LEMMA InsertTables ==
    ASSUME TablesOK, NamesOK, NEW u \in Uids, NEW row \in Users,
           ~Exists(u), ~Taken(row.username),
           users' = [users EXCEPT ![u] = row],
           created' = created \union {<<row.username, u>>},
           seed' \in Names \union {"idle"}
    PROVE  /\ TablesOK' /\ NamesOK'
           /\ \A v \in Uids : Exists(v) => Exists(v)'
  <1>1. /\ users \in [Uids -> Users \union {Absent}]
        /\ created \subseteq Names \X Uids
        /\ row.username \in Names /\ row # Absent
    BY RowFacts DEF TablesOK
  <1>2. users'[u] = row /\ \A v \in Uids \ {u} : users'[v] = users[v]
    BY <1>1
  <1>3. TablesOK'
    BY <1>1 DEF TablesOK
  <1>4. \A v \in Uids : Exists(v)' <=> Exists(v) \/ v = u
    BY <1>1, <1>2 DEF Exists
  <1>5. \A x \in created : x[2] \in Uids /\ x[2] # u
    BY <1>1 DEF NamesOK
  <1>6. ASSUME NEW x \in created' PROVE Exists(x[2])' /\ users'[x[2]].username = x[1]
    <2>1. CASE x \in created
      BY <1>2, <1>4, <1>5, <2>1 DEF NamesOK
    <2>2. CASE x = <<row.username, u>>
      BY <1>2, <1>4, <2>2
    <2>3. QED
      BY <2>1, <2>2
  <1>7. ASSUME NEW v \in Uids, NEW w \in Uids, Exists(v)', Exists(w)',
               users'[v].username = users'[w].username
        PROVE  v = w
    BY <1>2, <1>4, <1>7 DEF NamesOK, Taken
  <1>8. NamesOK'
    BY <1>6, <1>7 DEF NamesOK
  <1>9. QED
    BY <1>3, <1>4, <1>8

\* A change to an account that keeps its name.
LEMMA PatchTables ==
    ASSUME TablesOK, NamesOK, NEW u \in Uids, Exists(u), NEW row \in Users,
           row.username = users[u].username,
           users' = [users EXCEPT ![u] = row],
           UNCHANGED <<created, seed>>
    PROVE  /\ TablesOK' /\ NamesOK'
           /\ \A v \in Uids : Exists(v) => Exists(v)'
  <1>1. /\ users \in [Uids -> Users \union {Absent}]
        /\ created \subseteq Names \X Uids
        /\ row # Absent
    BY RowFacts DEF TablesOK
  <1>2. users'[u] = row /\ \A v \in Uids \ {u} : users'[v] = users[v]
    BY <1>1
  <1>3. TablesOK'
    BY <1>1 DEF TablesOK
  <1>4. \A v \in Uids : (Exists(v)' <=> Exists(v)) /\ users'[v].username = users[v].username
    BY <1>1, <1>2 DEF Exists
  <1>5. \A x \in created : x[2] \in Uids
    BY <1>1
  <1>6. NamesOK'
    BY <1>4, <1>5 DEF NamesOK
  <1>7. QED
    BY <1>3, <1>4, <1>6

\* A handler that is done relies on nothing.
LEMMA WriteStep ==
    ASSUME IInv, NEW c \in Clients, op' = [op EXCEPT ![c] = Idle],
           TablesOK', NamesOK', \A v \in Uids : Exists(v) => Exists(v)'
    PROVE  IInv'
  <1>1. DOMAIN op' = Clients /\ HandlerOK(c)'
    BY DEF IInv, HandlerOK
  <1>2. ASSUME NEW d \in Clients, d # c PROVE HandlerOK(d)'
    BY <1>2, HandlerKept DEF IInv
  <1>3. QED
    BY <1>1, <1>2 DEF IInv

\* Each step of a handler or of the script keeps the invariant.
LEMMA IInvStep == IInv /\ [Next]_vars => IInv'
  <1>1. SUFFICES ASSUME IInv, [Next]_vars PROVE IInv'
    OBVIOUS
  <1>2. /\ TablesOK /\ NamesOK /\ DOMAIN op = Clients
        /\ users \in [Uids -> Users \union {Absent}] /\ seed \in Names \union {"idle"}
    BY <1>1 DEF IInv, TablesOK
  <1>3. ASSUME NEW c \in Clients, NEW req \in Requests, Authorise(c, req) PROVE IInv'
    <2>1. /\ op' = [op EXCEPT ![c] = [stage |-> "authorised", req |-> req, by |-> users[session[c]]]]
          /\ UNCHANGED <<users, seed, created>>
      BY <1>3 DEF Authorise
    <2>2. IsAdmin(users[session[c]])
      BY <1>2, <1>3, UserAdminAssumption, PermissionFacts DEF Authorise, Exists
    <2>3. HandlerOK(c)'
      BY <1>2, <2>1, <2>2 DEF HandlerOK, IsAdmin
    <2>4. QED
      BY <1>1, <1>2, <2>1, <2>3, LookStep
  <1>4. ASSUME NEW c \in Clients, CheckCreate(c) PROVE IInv'
    <2>1. /\ op[c].stage = "authorised" /\ op[c].req.kind = "create"
          /\ UNCHANGED <<users, seed, created>>
      BY <1>4 DEF CheckCreate
    <2>2. op[c] # Idle /\ op[c].req \in Requests /\ IsAdmin(op[c].by)
      BY <1>1, <2>1 DEF IInv, HandlerOK, Idle
    <2>3. PICK o : /\ op' = [op EXCEPT ![c] = o]
                   /\ \/ o = Idle
                      \/ o = [op[c] EXCEPT !.stage = "checked"] /\ op[c].req.role \in ValidRoles
      BY <1>4 DEF CheckCreate
    <2>4. CASE o = Idle
      BY <1>1, <1>2, <2>1, <2>3, <2>4, LookStep DEF HandlerOK
    <2>5. CASE o = [op[c] EXCEPT !.stage = "checked"] /\ op[c].req.role \in ValidRoles
      <3>1. o.req = op[c].req /\ o.by = op[c].by /\ o.stage \in {"authorised", "checked"}
        BY <2>1, <2>2, <2>5
      <3>2. HandlerOK(c)'
        BY <1>2, <2>1, <2>2, <2>3, <2>5, <3>1 DEF HandlerOK, IsAdmin
      <3>3. QED
        BY <1>1, <1>2, <2>1, <2>3, <3>2, LookStep
    <2>6. QED
      BY <2>3, <2>4, <2>5
  <1>5. ASSUME NEW c \in Clients, CheckUpdate(c) PROVE IInv'
    <2>1. /\ op[c].stage = "authorised" /\ op[c].req.kind = "update"
          /\ UNCHANGED <<users, seed, created>>
      BY <1>5 DEF CheckUpdate
    <2>2. op[c] # Idle /\ op[c].req \in Requests /\ IsAdmin(op[c].by)
      BY <1>1, <2>1 DEF IInv, HandlerOK, Idle
    <2>3. PICK o : /\ op' = [op EXCEPT ![c] = o]
                   /\ \/ o = Idle
                      \/ /\ o = [stage |-> "checked", req |-> op[c].req, by |-> op[c].by,
                                 seen |-> users[op[c].req.uid]]
                         /\ op[c].req.role \in ValidRoles \union {None}
                         /\ Exists(op[c].req.uid)
      BY <1>5 DEF CheckUpdate
    <2>4. CASE o = Idle
      BY <1>1, <1>2, <2>1, <2>3, <2>4, LookStep DEF HandlerOK
    <2>5. CASE /\ o = [stage |-> "checked", req |-> op[c].req, by |-> op[c].by,
                       seen |-> users[op[c].req.uid]]
               /\ op[c].req.role \in ValidRoles \union {None}
               /\ Exists(op[c].req.uid)
      <3>1. HandlerOK(c)'
        BY <1>2, <2>1, <2>2, <2>3, <2>5 DEF HandlerOK, IsAdmin, Exists
      <3>2. QED
        BY <1>1, <1>2, <2>1, <2>3, <3>1, LookStep
    <2>6. QED
      BY <2>3, <2>4, <2>5
  <1>6. ASSUME NEW c \in Clients, InsertCollides(c) PROVE IInv'
    BY <1>1, <1>2, <1>6, WriteStep DEF InsertCollides, TablesOK, NamesOK, Exists
  <1>7. ASSUME NEW c \in Clients, NEW u \in Uids, Insert(c, u) PROVE IInv'
    <2> DEFINE row == NewUser(op[c].req.username, op[c].req.role)
    <2>1. /\ op[c].stage = "checked" /\ op[c].req.kind = "create"
          /\ ~Exists(u) /\ ~Taken(op[c].req.username)
          /\ users' = [users EXCEPT ![u] = row]
          /\ created' = created \union {<<op[c].req.username, u>>}
          /\ op' = [op EXCEPT ![c] = Idle] /\ seed' = seed
      BY <1>7 DEF Insert
    <2>2. op[c].req.username \in Names /\ op[c].req.role \in ValidRoles
      BY <1>1, <2>1, RequestFacts DEF IInv, HandlerOK, Idle
    <2>3. row \in Users /\ row.username = op[c].req.username
      BY <2>2, RowFacts DEF NewUser
    <2> HIDE DEF row
    <2>4. TablesOK' /\ NamesOK' /\ \A v \in Uids : Exists(v) => Exists(v)'
      BY <1>2, <2>1, <2>3, InsertTables
    <2>5. QED
      BY <1>1, <2>1, <2>4, WriteStep
  <1>8. ASSUME NEW c \in Clients, Update(c) PROVE IInv'
    <2> DEFINE u == op[c].req.uid
               row == Patched(users[u], op[c].req)
    <2>1. /\ op[c].stage = "checked" /\ op[c].req.kind = "update"
          /\ users' = [users EXCEPT ![u] = row]
          /\ op' = [op EXCEPT ![c] = Idle] /\ UNCHANGED <<seed, created>>
      BY <1>8 DEF Update
    <2>2. u \in Uids /\ Exists(u) /\ op[c].req.role \in ValidRoles \union {None}
      BY <1>1, <2>1, RequestFacts DEF IInv, HandlerOK, Idle
    <2>3. users[u] \in Users
      BY <1>2, <2>2 DEF Exists
    <2>4. row \in Users /\ row.username = users[u].username
      BY <2>2, <2>3, PatchedFacts
    <2> HIDE DEF u, row
    <2>5. TablesOK' /\ NamesOK' /\ \A v \in Uids : Exists(v) => Exists(v)'
      BY <1>2, <2>1, <2>2, <2>4, PatchTables
    <2>6. QED
      BY <1>1, <2>1, <2>5, WriteStep
  <1>9. ASSUME NEW name \in Names, SeedChecks(name) PROVE IInv'
    BY <1>1, <1>2, <1>9
       DEF SeedChecks, IInv, TablesOK, NamesOK, HandlerOK, Exists
  <1>10. ASSUME NEW u \in Uids, SeedInserts(u) PROVE IInv'
    <2> DEFINE row == NewUser(seed, "admin")
    <2>1. /\ seed # "idle" /\ ~Exists(u) /\ ~Taken(seed)
          /\ users' = [users EXCEPT ![u] = row]
          /\ created' = created \union {<<seed, u>>}
          /\ seed' = "idle" /\ op' = op
      BY <1>10 DEF SeedInserts
    <2>2. row \in Users /\ row.username = seed
      BY <1>2, <2>1, RowFacts DEF NewUser, ValidRoles
    <2> HIDE DEF row
    <2>3. TablesOK' /\ NamesOK' /\ \A v \in Uids : Exists(v) => Exists(v)'
      BY <1>2, <2>1, <2>2, InsertTables
    <2>4. \A c \in Clients : HandlerOK(c)'
      BY <1>1, <2>1, <2>3, HandlerKept DEF IInv
    <2>5. QED
      BY <1>2, <2>1, <2>3, <2>4 DEF IInv
  <1>11. CASE SeedCollides
    BY <1>1, <1>2, <1>11
       DEF SeedCollides, IInv, TablesOK, NamesOK, HandlerOK, Exists
  <1>12. CASE UNCHANGED vars
    BY <1>1, <1>12 DEF vars, IInv, TablesOK, NamesOK, HandlerOK, Exists
  <1>13. QED
    BY <1>1, <1>3, <1>4, <1>5, <1>6, <1>7, <1>8, <1>9, <1>10, <1>11, <1>12 DEF Next

\* So it holds for ever.
LEMMA InductiveInvariant == Spec => []IInv
  BY IInvInit, IInvStep, PTL DEF Spec

-----------------------------------------------------------------------------
(***************************************************************************)
(* What follows.                                                           *)
(***************************************************************************)
\* Every account has a role of ROLE_PERMISSIONS, whatever PATCH and POST ask for.
THEOREM TypeCorrect == Spec => []TypeOK
  <1>1. IInv => TypeOK
    BY DEF IInv, TablesOK, HandlerOK, TypeOK
  <1>2. QED
    BY <1>1, InductiveInvariant, PTL

\* However many consoles and scripts create a name at the same time, one is told
\* that it did, and of the account there is.
THEOREM NamesAreUnique == Spec => []OneAccountPerName
  <1>1. IInv => OneAccountPerName
    <2>1. SUFFICES ASSUME IInv PROVE OneAccountPerName
      OBVIOUS
    <2>2. /\ created \subseteq Names \X Uids /\ NamesOK
      BY <2>1 DEF IInv, TablesOK
    <2>3. ASSUME NEW x \in created, NEW y \in created, x[1] = y[1] PROVE x = y
      <3>1. x = <<x[1], x[2]>> /\ y = <<y[1], y[2]>> /\ x[2] \in Uids /\ y[2] \in Uids
        BY <2>2
      <3>2. x[2] = y[2]
        BY <2>2, <2>3, <3>1 DEF NamesOK
      <3>3. QED
        BY <2>3, <3>1, <3>2
    <2>4. QED
      BY <2>2, <2>3 DEF NamesOK, OneAccountPerName, Exists
  <1>2. QED
    BY <1>1, InductiveInvariant, PTL

\* The steps that write the table.
LEMMA Writers ==
    ASSUME Next, users' # users
    PROVE  \/ \E c \in Clients, u \in Uids : Insert(c, u)
           \/ \E c \in Clients : Update(c)
           \/ \E u \in Uids : SeedInserts(u)
  <1>1. ASSUME NEW c \in Clients
        PROVE  /\ \A req \in Requests : ~Authorise(c, req)
               /\ ~CheckCreate(c) /\ ~InsertCollides(c) /\ ~CheckUpdate(c)
    BY DEF Authorise, CheckCreate, InsertCollides, CheckUpdate
  <1>2. ~SeedCollides /\ \A name \in Names : ~SeedChecks(name)
    BY DEF SeedCollides, SeedChecks
  <1>3. QED
    BY <1>1, <1>2 DEF Next

\* Whoever changes the table was an active administrator when admitted, or runs
\* the script.
THEOREM OnlyAdmins == Spec => OnlyAdminsChangeUsers
  <1> DEFINE ByAdmin ==
         users' # users =>
             \/ seed # seed'
             \/ \E c \in Clients : op[c] # op'[c] /\ op[c].stage = "checked" /\ IsAdmin(op[c].by)
  <1>1. IInv /\ [Next]_vars => [ByAdmin]_vars
    <2>1. SUFFICES ASSUME IInv, Next, users' # users
                   PROVE  \/ seed # seed'
                          \/ \E c \in Clients : /\ op[c] # op'[c] /\ op[c].stage = "checked"
                                                /\ IsAdmin(op[c].by)
      OBVIOUS
    <2>2. ASSUME NEW c \in Clients, op[c].stage = "checked", op' = [op EXCEPT ![c] = Idle]
          PROVE  op[c] # op'[c] /\ IsAdmin(op[c].by)
      BY <2>1, <2>2 DEF IInv, HandlerOK, Idle
    <2>3. CASE \E c \in Clients, u \in Uids : Insert(c, u)
      BY <2>2, <2>3 DEF Insert
    <2>4. CASE \E c \in Clients : Update(c)
      BY <2>2, <2>4 DEF Update
    <2>5. CASE \E u \in Uids : SeedInserts(u)
      BY <2>5 DEF SeedInserts
    <2>6. QED
      BY <2>1, <2>3, <2>4, <2>5, Writers
  <1>2. Spec => [][ByAdmin]_vars
    BY <1>1, InductiveInvariant, PTL DEF Spec
  <1>3. QED
    BY <1>2 DEF OnlyAdminsChangeUsers

\* Of any number of patches of one user none takes back what another has set: a
\* column that changes takes the value an update names for it.
THEOREM UpdatesAreNarrow == Spec => UpdatesChangeOnlyWhatTheyName
  <1> DEFINE Asks(c, u) == /\ op[c].stage = "checked" /\ op'[c] = Idle
                           /\ op[c].req.kind = "update" /\ op[c].req.uid = u
             Narrow ==
         \A u \in Uids : Exists(u) =>
           /\ users'[u] # Absent /\ users'[u].username = users[u].username
           /\ users'[u].role # users[u].role =>
                 \E c \in Clients : /\ op[c].stage = "checked" /\ op'[c] = Idle
                                    /\ op[c].req.kind = "update" /\ op[c].req.uid = u
                                    /\ op[c].req.role = users'[u].role
           /\ users'[u].is_active # users[u].is_active =>
                 \E c \in Clients : /\ op[c].stage = "checked" /\ op'[c] = Idle
                                    /\ op[c].req.kind = "update" /\ op[c].req.uid = u
                                    /\ op[c].req.is_active =
                                          IF users'[u].is_active THEN "yes" ELSE "no"
  <1>1. IInv /\ [Next]_vars => [Narrow]_vars
    <2>1. SUFFICES ASSUME IInv, Next PROVE Narrow
      OBVIOUS
    <2>2. SUFFICES ASSUME NEW u \in Uids, Exists(u)
                   PROVE  /\ users'[u] # Absent /\ users'[u].username = users[u].username
                          /\ users'[u].role # users[u].role =>
                                \E c \in Clients : /\ Asks(c, u)
                                                   /\ op[c].req.role = users'[u].role
                          /\ users'[u].is_active # users[u].is_active =>
                                \E c \in Clients :
                                    /\ Asks(c, u)
                                    /\ op[c].req.is_active =
                                          IF users'[u].is_active THEN "yes" ELSE "no"
      OBVIOUS
    <2>3. users \in [Uids -> Users \union {Absent}] /\ users[u] \in Users
      BY <2>1, <2>2 DEF IInv, TablesOK, Exists
    <2>4. CASE users'[u] = users[u]
      BY <2>2, <2>4 DEF Exists
    <2>5. CASE users'[u] # users[u]
      <3>1. ~\E c \in Clients, v \in Uids : Insert(c, v)
        BY <2>2, <2>3, <2>5 DEF Insert
      <3>2. ~\E v \in Uids : SeedInserts(v)
        BY <2>2, <2>3, <2>5 DEF SeedInserts
      <3>3. PICK c \in Clients : Update(c)
        BY <2>1, <2>5, <3>1, <3>2, Writers
      <3>4. /\ op[c].stage = "checked" /\ op[c].req.kind = "update"
            /\ users' = [users EXCEPT ![op[c].req.uid] = Patched(users[op[c].req.uid], op[c].req)]
            /\ op' = [op EXCEPT ![c] = Idle]
        BY <3>3 DEF Update
      <3>5. /\ op[c].req.role \in ValidRoles \union {None} /\ op'[c] = Idle
            /\ op[c].req.is_active \in {"yes", "no", None}
        BY <2>1, <3>4, RequestFacts DEF IInv, HandlerOK, Idle
      <3>6. op[c].req.uid = u
        BY <2>3, <2>5, <3>4
      <3>7. users'[u] = Patched(users[u], op[c].req)
        BY <2>3, <3>4, <3>6
      <3>8. users'[u] \in Users /\ users'[u].username = users[u].username
        BY <2>3, <3>5, <3>7, PatchedFacts
      <3>9. users'[u].role # users[u].role => users'[u].role = op[c].req.role
        BY <2>3, <3>7 DEF Patched, Users
      <3>10. users'[u].is_active # users[u].is_active
                => op[c].req.is_active = IF users'[u].is_active THEN "yes" ELSE "no"
        BY <2>3, <3>5, <3>7 DEF Patched, Users
      <3>11. QED
        BY <3>4, <3>5, <3>6, <3>8, <3>9, <3>10, RowFacts
    <2>6. QED
      BY <2>4, <2>5
  <1>2. Spec => [][Narrow]_vars
    BY <1>1, InductiveInvariant, PTL DEF Spec
  <1>3. QED
    BY <1>2 DEF UpdatesChangeOnlyWhatTheyName

\* Once no administrator is left and no request under way, none comes back but
\* by seed_admin.py.
THEOREM LockoutLasts == Spec => LockoutEndsOnlyBySeeding
  <1> DEFINE Lasts == LockedOut => (LockedOut' \/ seed' # seed)
  <1>1. IInv /\ [Next]_vars => [Lasts]_vars
    <2>1. SUFFICES ASSUME IInv, Next, LockedOut, seed' = seed PROVE LockedOut'
      OBVIOUS
    <2>2. /\ \A u \in Uids : ~IsAdmin(users[u])
          /\ \A c \in Clients : op[c] = Idle
      BY <2>1 DEF LockedOut
    <2>3. ASSUME NEW c \in Clients, NEW req \in Requests PROVE ~Authorise(c, req)
      BY <2>1, <2>2, UserAdminAssumption, PermissionFacts
         DEF IInv, TablesOK, Authorise, Exists
    <2>4. ASSUME NEW c \in Clients
          PROVE  /\ ~CheckCreate(c) /\ ~InsertCollides(c) /\ ~CheckUpdate(c) /\ ~Update(c)
                 /\ \A u \in Uids : ~Insert(c, u)
      BY <2>2 DEF CheckCreate, InsertCollides, CheckUpdate, Update, Insert, Idle
    <2>5. \A u \in Uids : ~SeedInserts(u)
      BY <2>1 DEF SeedInserts
    <2>6. users' = users /\ op' = op
      BY <2>1, <2>3, <2>4, <2>5 DEF Next, SeedChecks, SeedCollides
    <2>7. QED
      BY <2>2, <2>6 DEF LockedOut, IsAdmin
  <1>2. Spec => [][Lasts]_vars
    BY <1>1, InductiveInvariant, PTL DEF Spec
  <1>3. QED
    BY <1>2 DEF LockoutEndsOnlyBySeeding
=============================================================================
