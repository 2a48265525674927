----------------------------- MODULE UserAdmin -----------------------------
(***************************************************************************)
(* Managing console users: POST and PATCH /admin/users and the script      *)
(* seed_admin.py (core/admin_routes.py, users.py, scripts/seed_admin.py).  *)
(*                                                                         *)
(* Each handler opens the database three times, every time in a            *)
(* transaction of its own: to look up who is asking, to look up what the   *)
(* request is about, and to write.  Other administrators, and the script   *)
(* in a process of its own, may act in between.                            *)
(*                                                                         *)
(* A client is an administrator's console whose session (see Sessions)     *)
(* names the user session[c].  Passwords are left out: update_user writes  *)
(* them as it writes the other columns.                                    *)
(***************************************************************************)
EXTENDS Roles

CONSTANTS
    Clients,        \* consoles
    session,        \* session[c]: the uid in the session cookie of c
    Uids,           \* bound: the ids that uuid4 may draw
    Names,          \* usernames
    Requests,       \* what clients may ask for (see RequestRecords)
    InitialUsers    \* the table at the beginning

None == "None"
Absent == [username |-> None]

Users == [username : Names, role : ValidRoles, is_active : BOOLEAN]

\* An omitted field of a PATCH is None and leaves its column alone.
RequestRecords ==
    [kind : {"create"}, username : Names, role : STRING]
    \union [kind : {"update"}, uid : Uids, role : STRING,
            is_active : {"yes", "no", None}]

ASSUME UserAdminAssumption ==
    /\ session \in [Clients -> Uids]
    /\ Requests \subseteq RequestRecords
    /\ InitialUsers \in [Uids -> Users \union {Absent}]

\* username is UNIQUE.
ASSUME InitialNamesDiffer ==
    \A u, v \in Uids :
        ( /\ InitialUsers[u] # Absent /\ InitialUsers[v] # Absent
          /\ InitialUsers[u].username = InitialUsers[v].username ) => u = v

VARIABLES
    users,      \* table users
    op,         \* op[c]: the request c has in progress
    seed,       \* seed_admin.py: "idle", or the username it has looked up
    created     \* auxiliary: <<username, uid>> of every create that succeeded

vars == <<users, op, seed, created>>

Idle == [stage |-> "idle"]

Exists(u) == users[u] # Absent
Taken(name) == \E u \in Uids : Exists(u) /\ users[u].username = name

\* Every account has a role that ROLE_PERMISSIONS knows, whatever was asked for;
\* a request in progress is one that clients make.
TypeOK ==
    /\ users \in [Uids -> Users \union {Absent}]
    /\ \A c \in Clients :
          \/ op[c] = Idle
          \/ op[c].stage \in {"authorised", "checked"} /\ op[c].req \in Requests
    /\ seed \in Names \union {"idle"}
    /\ created \subseteq Names \X Uids

-----------------------------------------------------------------------------
(***************************************************************************)
(* Depends(require_permission("users:manage")): the user of the session is *)
(* read again.  A request that fails a check ends, with 401 or 403 here    *)
(* and 400, 404 or 409 below, and changes nothing.                         *)
(***************************************************************************)
\* Mistakes: a deactivated user passes, or any user does.
AuthoriseSansActive(c, req) ==
    /\ op[c] = Idle
    /\ Exists(session[c])
    /\ has_permission(users[session[c]].role, "users:manage")
    /\ op' = [op EXCEPT ![c] = [stage |-> "authorised", req |-> req, by |-> users[session[c]]]]
    /\ UNCHANGED <<users, seed, created>>

AuthoriseAnyone(c, req) ==
    /\ op[c] = Idle
    /\ Exists(session[c]) /\ users[session[c]].is_active
    /\ op' = [op EXCEPT ![c] = [stage |-> "authorised", req |-> req, by |-> users[session[c]]]]
    /\ UNCHANGED <<users, seed, created>>

\* by is auxiliary: the row the authorisation rests on.
Authorise(c, req) ==
    /\ op[c] = Idle
    /\ Exists(session[c]) /\ users[session[c]].is_active
    /\ has_permission(users[session[c]].role, "users:manage")
    /\ op' = [op EXCEPT ![c] = [stage |-> "authorised", req |-> req, by |-> users[session[c]]]]
    /\ UNCHANGED <<users, seed, created>>

-----------------------------------------------------------------------------
(***************************************************************************)
(* create_user_ep.                                                         *)
(***************************************************************************)
NewUser(name, role) == [username |-> name, role |-> role, is_active |-> TRUE]

CheckCreate(c) ==
    /\ op[c].stage = "authorised" /\ op[c].req.kind = "create"
    /\ op' = [op EXCEPT ![c] =
                 IF op[c].req.role \in ValidRoles /\ ~Taken(op[c].req.username)
                 THEN [@ EXCEPT !.stage = "checked"]
                 ELSE Idle]
    /\ UNCHANGED <<users, seed, created>>

\* Mistake: the check made before is relied on, and the column is not UNIQUE.
InsertUnchecked(c, u) ==
    /\ op[c].stage = "checked" /\ op[c].req.kind = "create"
    /\ ~Exists(u)
    /\ users' = [users EXCEPT ![u] = NewUser(op[c].req.username, op[c].req.role)]
    /\ created' = created \union {<<op[c].req.username, u>>}
    /\ op' = [op EXCEPT ![c] = Idle]
    /\ UNCHANGED seed

\* The INSERT under a fresh id.
Insert(c, u) ==
    /\ op[c].stage = "checked" /\ op[c].req.kind = "create"
    /\ ~Exists(u)
    /\ ~Taken(op[c].req.username)
    /\ users' = [users EXCEPT ![u] = NewUser(op[c].req.username, op[c].req.role)]
    /\ created' = created \union {<<op[c].req.username, u>>}
    /\ op' = [op EXCEPT ![c] = Idle]
    /\ UNCHANGED seed

\* Another writer came first: the UNIQUE constraint raises, and the answer is
\* a 500 and not the 409 of a name found taken.
InsertCollides(c) ==
    /\ op[c].stage = "checked" /\ op[c].req.kind = "create"
    /\ Taken(op[c].req.username)
    /\ op' = [op EXCEPT ![c] = Idle]
    /\ UNCHANGED <<users, seed, created>>

-----------------------------------------------------------------------------
(***************************************************************************)
(* update_user_ep over users.update_user.                                  *)
(***************************************************************************)
\* Mistake: the role of a patch is not looked at.
CheckUpdateAnyRole(c) ==
    /\ op[c].stage = "authorised" /\ op[c].req.kind = "update"
    /\ op' = [op EXCEPT ![c] =
                 IF Exists(op[c].req.uid)
                 THEN [stage |-> "checked", req |-> @.req, by |-> @.by,
                       seen |-> users[op[c].req.uid]]
                 ELSE Idle]
    /\ UNCHANGED <<users, seed, created>>

CheckUpdate(c) ==
    /\ op[c].stage = "authorised" /\ op[c].req.kind = "update"
    /\ op' = [op EXCEPT ![c] =
                 IF op[c].req.role \in ValidRoles \union {None} /\ Exists(op[c].req.uid)
                 THEN [stage |-> "checked", req |-> @.req, by |-> @.by,
                       seen |-> users[op[c].req.uid]]
                 ELSE Idle]
    /\ UNCHANGED <<users, seed, created>>

Patched(row, req) ==
    [row EXCEPT !.role      = IF req.role = None THEN @ ELSE req.role,
                !.is_active = IF req.is_active = None THEN @ ELSE req.is_active = "yes"]

\* Mistake: the row looked up before is written back, patched.
UpdateFromSeen(c) ==
    /\ op[c].stage = "checked" /\ op[c].req.kind = "update"
    /\ users' = [users EXCEPT ![op[c].req.uid] = Patched(op[c].seen, op[c].req)]
    /\ op' = [op EXCEPT ![c] = Idle]
    /\ UNCHANGED <<seed, created>>

\* seen, the row the 404 check has read, is not used again.
Update(c) ==
    /\ op[c].stage = "checked" /\ op[c].req.kind = "update"
    /\ users' = [users EXCEPT ![op[c].req.uid] = Patched(@, op[c].req)]
    /\ op' = [op EXCEPT ![c] = Idle]
    /\ UNCHANGED <<seed, created>>

-----------------------------------------------------------------------------
(***************************************************************************)
(* seed_admin.py: an existing username is skipped, whatever its role and   *)
(* whether it is active or not.                                            *)
(***************************************************************************)
SeedChecks(name) ==
    /\ seed = "idle"
    /\ ~Taken(name)
    /\ seed' = name
    /\ UNCHANGED <<users, op, created>>

SeedInserts(u) ==
    /\ seed # "idle"
    /\ ~Exists(u)
    /\ ~Taken(seed)
    /\ users' = [users EXCEPT ![u] = NewUser(seed, "admin")]
    /\ created' = created \union {<<seed, u>>}
    /\ seed' = "idle"
    /\ UNCHANGED op

SeedCollides ==
    /\ seed # "idle"
    /\ Taken(seed)
    /\ seed' = "idle"
    /\ UNCHANGED <<users, op, created>>

-----------------------------------------------------------------------------
Init ==
    /\ users = InitialUsers
    /\ op = [c \in Clients |-> Idle]
    /\ seed = "idle"
    /\ created = {}

Next ==
    \/ \E c \in Clients :
          \/ \E req \in Requests : Authorise(c, req)
          \/ CheckCreate(c) \/ InsertCollides(c)
          \/ CheckUpdate(c) \/ Update(c)
    \/ \E c \in Clients, u \in Uids : Insert(c, u)
    \/ \E name \in Names : SeedChecks(name)
    \/ \E u \in Uids : SeedInserts(u)
    \/ SeedCollides

Spec == Init /\ [][Next]_vars

-----------------------------------------------------------------------------
(***************************************************************************)
(* Properties.                                                             *)
(***************************************************************************)

\* However many consoles and scripts create an account of the same name at the
\* same time, one of them is told that it did, and the account is the one it
\* was told of (create_user_ep looks first and inserts later).
OneAccountPerName ==
    /\ \A x, y \in created : x[1] = y[1] => x = y
    /\ \A x \in created : users[x[2]] # Absent /\ users[x[2]].username = x[1]
    /\ \A u, v \in Uids : (Exists(u) /\ Exists(v) /\ users[u].username = users[v].username) => u = v

IsAdmin(row) == row # Absent /\ row.role = "admin" /\ row.is_active

\* The table changes only in a request of one who was an active administrator
\* when it was admitted, or through the script.
OnlyAdminsChangeUsers ==
    [][ users' # users =>
          \/ seed # seed'
          \/ \E c \in Clients : op[c] # op'[c] /\ op[c].stage = "checked" /\ IsAdmin(op[c].by) ]_vars

\* A column changes only to the value that an update in progress names for it:
\* of two concurrent patches of one user neither takes back what the other has
\* set, one that names the role only leaves the account active or inactive as it
\* is, and nobody is renamed or removed.
UpdatesChangeOnlyWhatTheyName ==
    [][ \A u \in Uids : Exists(u) =>
          /\ users'[u] # Absent /\ users'[u].username = users[u].username
          /\ users'[u].role # users[u].role =>
                \E c \in Clients : /\ op[c].stage = "checked" /\ op'[c] = Idle
                                   /\ op[c].req.kind = "update" /\ op[c].req.uid = u
                                   /\ op[c].req.role = users'[u].role
          /\ users'[u].is_active # users[u].is_active =>
                \E c \in Clients : /\ op[c].stage = "checked" /\ op'[c] = Idle
                                   /\ op[c].req.kind = "update" /\ op[c].req.uid = u
                                   /\ op[c].req.is_active = IF users'[u].is_active THEN "yes" ELSE "no" ]_vars

\* The last administrator can be deactivated or demoted, by himself or by two
\* who do it to each other; from then on, once the requests already admitted
\* are through, nothing but the script brings an administrator back.
LockedOut ==
    /\ \A u \in Uids : ~IsAdmin(users[u])
    /\ \A c \in Clients : op[c] = Idle

LockoutEndsOnlyBySeeding == [][ LockedOut => (LockedOut' \/ seed' # seed) ]_vars
=============================================================================
