------------------------------ MODULE Sessions ------------------------------
(***************************************************************************)
(* Console sessions: login, logout and the check of every later request    *)
(* (core/session.py, user_auth.py, auth_routes.py, permissions.py).        *)
(*                                                                         *)
(* A session is a signed cookie and nothing else: no server keeps a list.  *)
(* The signature needs the SECRET_KEY of the worker process, which comes   *)
(* from the environment or is drawn anew by every process that starts.     *)
(* What a cookie cannot know is fetched from the users table for every     *)
(* request, between the cookie's check and the handler, while an           *)
(* administrator may be changing the row.                                  *)
(*                                                                         *)
(* One user and one client suffice: users meet only in the table, whose    *)
(* row the environment changes here at any moment (UserAdmin has the       *)
(* handlers that do it).  The client keeps its cookie past its max-age, as *)
(* a program may.  int(time.time()) cuts off a fraction of a second that   *)
(* the comparison with time.time() keeps, so the clock has TicksPerSecond  *)
(* positions within each second.                                           *)
(***************************************************************************)
EXTENDS Naturals, Roles

CONSTANTS
    Workers,        \* worker processes behind one address
    AssignedRoles,  \* bound: the roles the user is given here
    Passwords,      \* passwords that may be set or tried
    Permissions,    \* permissions that endpoints ask for
    MaxAge,         \* session.MAX_AGE_SEC, in seconds
    TicksPerSecond, \* how finely time.time() tells a second apart
    Horizon,        \* bound: the clock stops there
    MaxStarts       \* bound: process starts

ASSUME SessionsAssumption ==
    /\ MaxAge \in Nat \ {0}
    /\ TicksPerSecond \in Nat \ {0}
    /\ Horizon \in Nat
    /\ MaxStarts \in Nat
    /\ AssignedRoles \subseteq ValidRoles

VARIABLES
    now,            \* time.time(), in ticks
    fixed_key,      \* whether PLATFORM_SECRET_KEY is set
    secret,         \* secret[w]: SECRET_KEY of the process that runs as w
    starts,         \* how many processes have been started: the next fresh key
    row,            \* the user's row in table users
    jar,            \* the cookie the client holds
    op              \* the request in progress

vars == <<now, fixed_key, secret, starts, row, jar, op>>

NoCookie == [key |-> <<"none", 0>>]
Idle == [stage |-> "idle"]

\* allowed and barred are auxiliary: whether the row has, at some moment since
\* the request arrived, called for letting it through, or for turning it away.
Watch(o, ok) == [o EXCEPT !.allowed = @ \/ ok, !.barred = @ \/ ~ok]

\* What the row says of a request now.
Permits(o, r) ==
    IF o.kind = "login" THEN r.is_active /\ r.password = o.password
    ELSE r.is_active /\ has_permission(r.role, o.permission)

Observe(o, r) == IF o.stage = "idle" THEN o ELSE Watch(o, Permits(o, r))

-----------------------------------------------------------------------------
(***************************************************************************)
(* session.py.                                                             *)
(***************************************************************************)
Seconds(n)      == TicksPerSecond * n
WholeSeconds(t) == t - (t % TicksPerSecond)     \* int(time.time())

\* issued is auxiliary: the cookie carries uid, role and exp only.
create_session_cookie(w, role) ==
    [ key |-> secret[w], role |-> role,
      exp |-> WholeSeconds(now) + Seconds(MaxAge), issued |-> now ]

\* Mistake: the clock is cut to whole seconds here, too.
ReadInWholeSeconds(w, cookie) ==
    cookie # NoCookie /\ cookie.key = secret[w] /\ ~(cookie.exp < WholeSeconds(now))

read_session_cookie(w, cookie) ==
    cookie # NoCookie /\ cookie.key = secret[w] /\ ~(cookie.exp < now)

-----------------------------------------------------------------------------
(***************************************************************************)
(* auth_routes.py.  The row login has read decides, whatever becomes of it *)
(* while the password is being hashed.                                     *)
(***************************************************************************)
LoginReads(w, password) ==
    /\ op.stage = "idle"
    /\ op' = Watch([stage |-> "login", kind |-> "login", worker |-> w,
                    password |-> password, seen |-> row,
                    allowed |-> FALSE, barred |-> FALSE],
                   row.is_active /\ row.password = password)
    /\ UNCHANGED <<now, fixed_key, secret, starts, row, jar>>

LoginDecides ==
    /\ op.stage = "login"
    /\ IF op.seen.is_active /\ op.password = op.seen.password
       THEN /\ jar' = create_session_cookie(op.worker, op.seen.role)
            /\ op' = [op EXCEPT !.stage = "granted"]
       ELSE /\ op' = [op EXCEPT !.stage = "denied"]
            /\ UNCHANGED jar
    /\ UNCHANGED <<now, fixed_key, secret, starts, row>>

\* Logging out deletes the client's cookie; it stays valid.
Logout ==
    /\ op.stage = "idle"
    /\ jar # NoCookie
    /\ jar' = NoCookie
    /\ UNCHANGED <<now, fixed_key, secret, starts, row, op>>

-----------------------------------------------------------------------------
(***************************************************************************)
(* user_auth.get_current_user and permissions.require_permission, as the   *)
(* dependency of any endpoint.                                             *)
(***************************************************************************)
RequestArrives(w, permission) ==
    /\ op.stage = "idle"
    /\ op' = Watch([stage |-> "cookie", kind |-> "request", worker |-> w,
                    permission |-> permission, cookie |-> jar, reason |-> "",
                    allowed |-> FALSE, barred |-> FALSE],
                   row.is_active /\ has_permission(row.role, permission))
    /\ UNCHANGED <<now, fixed_key, secret, starts, row, jar>>

CookieChecked ==
    /\ op.stage = "cookie"
    /\ op' = IF read_session_cookie(op.worker, op.cookie)
             THEN [op EXCEPT !.stage = "reload"]
             ELSE [op EXCEPT !.stage = "denied",
                             !.reason = IF op.cookie = NoCookie THEN "UNAUTHENTICATED"
                                        ELSE "SESSION_INVALID"]
    /\ UNCHANGED <<now, fixed_key, secret, starts, row, jar>>

\* Mistakes: the role of the cookie is trusted, or is_active is not looked at.
UserFromCookie ==
    /\ op.stage = "reload"
    /\ op' = IF row.is_active /\ has_permission(op.cookie.role, op.permission)
             THEN [op EXCEPT !.stage = "granted"]
             ELSE [op EXCEPT !.stage = "denied", !.reason = "FORBIDDEN"]
    /\ UNCHANGED <<now, fixed_key, secret, starts, row, jar>>

UserSansActive ==
    /\ op.stage = "reload"
    /\ op' = IF has_permission(row.role, op.permission)
             THEN [op EXCEPT !.stage = "granted"]
             ELSE [op EXCEPT !.stage = "denied", !.reason = "FORBIDDEN"]
    /\ UNCHANGED <<now, fixed_key, secret, starts, row, jar>>

UserReloaded ==
    /\ op.stage = "reload"
    /\ op' = IF ~row.is_active
             THEN [op EXCEPT !.stage = "denied", !.reason = "UNAUTHENTICATED"]
             ELSE IF ~has_permission(row.role, op.permission)
             THEN [op EXCEPT !.stage = "denied", !.reason = "FORBIDDEN"]
             ELSE [op EXCEPT !.stage = "granted"]
    /\ UNCHANGED <<now, fixed_key, secret, starts, row, jar>>

\* The handler has run and the client has its answer, whatever it is.
Answered ==
    /\ op.stage \in {"granted", "denied"}
    /\ op' = Idle
    /\ UNCHANGED <<now, fixed_key, secret, starts, row, jar>>

-----------------------------------------------------------------------------
\* An administrator changes the row.
RowChanges ==
    /\ \E role \in AssignedRoles, is_active \in BOOLEAN, password \in Passwords :
          row' = [role |-> role, is_active |-> is_active, password |-> password]
    /\ row' # row
    /\ op' = Observe(op, row')
    /\ UNCHANGED <<now, fixed_key, secret, starts, jar>>

Tick ==
    /\ now < Horizon
    /\ now' = now + 1
    /\ UNCHANGED <<fixed_key, secret, starts, row, jar, op>>

\* Mistake: the environment is not asked after the first start.
RestartForgets(w) ==
    /\ starts < MaxStarts
    /\ starts' = starts + 1
    /\ secret' = [secret EXCEPT ![w] = <<"start", starts>>]
    /\ op' = IF op.stage # "idle" /\ op.worker = w THEN Idle ELSE op
    /\ UNCHANGED <<now, fixed_key, row, jar>>

\* A worker process ends and another takes its place; a request it was
\* working on is lost.  config.SECRET_KEY is evaluated once, at import.
Restart(w) ==
    /\ starts < MaxStarts
    /\ starts' = starts + 1
    /\ secret' = [secret EXCEPT ![w] = IF fixed_key THEN <<"env", 0>> ELSE <<"start", starts>>]
    /\ op' = IF op.stage # "idle" /\ op.worker = w THEN Idle ELSE op
    /\ UNCHANGED <<now, fixed_key, row, jar>>

-----------------------------------------------------------------------------
Init ==
    /\ now = 0
    /\ fixed_key \in BOOLEAN
    /\ starts = 0
    /\ secret \in IF fixed_key THEN {[w \in Workers |-> <<"env", 0>>]}
                  ELSE {[w \in Workers |-> <<"first", w>>]}
    /\ row \in [role : AssignedRoles, is_active : {TRUE}, password : Passwords]
    /\ jar = NoCookie
    /\ op = Idle

OpStep == LoginDecides \/ CookieChecked \/ UserReloaded \/ Answered

Next ==
    \/ \E w \in Workers, password \in Passwords : LoginReads(w, password)
    \/ \E w \in Workers, permission \in Permissions : RequestArrives(w, permission)
    \/ Logout
    \/ OpStep
    \/ RowChanges
    \/ Tick
    \/ \E w \in Workers : Restart(w)

\* A request once arrived is worked on to its end; nothing else has to happen.
Spec == Init /\ [][Next]_vars /\ WF_vars(OpStep)

-----------------------------------------------------------------------------
(***************************************************************************)
(* Properties.                                                             *)
(***************************************************************************)

\* A request gets through, or a password is accepted, only if the row called
\* for it at some moment while the request was in progress; it is turned away
\* because of the row only if the row called for that.  So a deactivation, a
\* change of role or of password holds from the next request on ("다음 요청부터
\* 차단됨"), in spite of the role and the eight hours written in the cookie.
DecisionsAreTimely ==
    /\ op.stage = "granted" => op.allowed
    /\ op.stage = "denied" /\ op.kind = "login" => op.barred
    /\ ( /\ op.stage = "denied" /\ op.kind = "request"
         /\ op.reason = "FORBIDDEN" \/ (op.reason = "UNAUTHENTICATED" /\ op.cookie # NoCookie) )
       => op.barred

\* No cookie is accepted longer than MAX_AGE_SEC after it was issued, and as long
\* as its key stands it is accepted until a second before that.  The second
\* cannot be spared: exp is cut to whole seconds, the clock it is compared with
\* is not, so a session begun late in a second is short of the rest of it.
SessionLifetime ==
    [][ (op.stage = "cookie" /\ op.cookie # NoCookie /\ op'.stage \in {"reload", "denied"}) =>
          LET age == now - op.cookie.issued IN
          /\ op'.stage = "reload" => age <= Seconds(MaxAge)
          /\ age + Seconds(1) <= Seconds(MaxAge) /\ op.cookie.key = secret[op.worker]
                => op'.stage = "reload" ]_vars

\* With PLATFORM_SECRET_KEY set neither a restart nor the choice of the worker
\* ends a session before its time.
FixedKeyKeepsSessions ==
    (fixed_key /\ op.stage = "denied" /\ op.kind = "request" /\ op.reason = "SESSION_INVALID")
        => now > op.cookie.exp

\* A user who is deactivated for good is shut out for good, however many
\* unexpired cookies there are.
DeactivationShutsOut == <>[](~row.is_active) => <>[](op.stage # "granted")
=============================================================================
