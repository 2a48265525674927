--------------------------- MODULE SessionsProofs ---------------------------
(***************************************************************************)
(* Proofs about Sessions, for any number of workers, roles, permissions    *)
(* and starts, any max-age and a clock as fine and as long as one likes.   *)
(*                                                                         *)
(* A decision rests on a row read at one moment, while the row changes at  *)
(* any other.  The invariant says that a request knows of every row it has *)
(* lived through: whatever the row calls for now has been noted, and what  *)
(* login has read was the row at that moment.                              *)
(***************************************************************************)
EXTENDS Sessions, TLAPS

Rows == [role : ValidRoles, is_active : BOOLEAN, password : Passwords]

\* What a cookie can be relied on for: its dates, and its key when all are one.
CookieOK(k) ==
    k # NoCookie =>
        /\ k.issued \in Nat /\ k.exp \in Nat
        /\ k.exp <= k.issued + Seconds(MaxAge)
        /\ k.issued + Seconds(MaxAge) < k.exp + TicksPerSecond
        /\ fixed_key => k.key = <<"env", 0>>

LoginOK(o) ==
    /\ o.kind = "login"
    /\ DOMAIN o = {"stage", "kind", "worker", "password", "seen", "allowed", "barred"}
    /\ o.stage \in {"login", "granted", "denied"}
    /\ o.worker \in Workers /\ o.seen \in Rows
    /\ o.allowed \in BOOLEAN /\ o.barred \in BOOLEAN
    /\ o.stage = "login" => IF o.seen.is_active /\ o.password = o.seen.password
                            THEN o.allowed ELSE o.barred
    /\ o.stage = "granted" => o.allowed
    /\ o.stage = "denied" => o.barred

\* A request has noted what the row calls for now; the rest is what its checks
\* have established.
RequestOK(o) ==
    /\ o.kind = "request"
    /\ DOMAIN o = {"stage", "kind", "worker", "permission", "cookie", "reason",
                   "allowed", "barred"}
    /\ o.stage \in {"cookie", "reload", "granted", "denied"}
    /\ o.worker \in Workers /\ CookieOK(o.cookie)
    /\ o.allowed \in BOOLEAN /\ o.barred \in BOOLEAN
    /\ IF row.is_active /\ has_permission(row.role, o.permission) THEN o.allowed ELSE o.barred
    /\ o.stage = "granted" => o.allowed
    /\ ( /\ o.stage = "denied"
         /\ o.reason = "FORBIDDEN" \/ (o.reason = "UNAUTHENTICATED" /\ o.cookie # NoCookie) )
       => o.barred
    /\ (o.stage = "denied" /\ o.reason = "SESSION_INVALID" /\ fixed_key)
       => o.cookie # NoCookie /\ now > o.cookie.exp

OpOK == op = Idle \/ LoginOK(op) \/ RequestOK(op)

WorldOK ==
    /\ now \in Nat /\ row \in Rows
    /\ DOMAIN secret = Workers
    /\ fixed_key => \A w \in Workers : secret[w] = <<"env", 0>>

IInv == WorldOK /\ CookieOK(jar) /\ OpOK

-----------------------------------------------------------------------------
\* Seconds are counted in ticks, and cutting a time to whole seconds takes less
\* than one of them away.
LEMMA WholeSecondsFacts ==
    ASSUME NEW t \in Nat
    PROVE  /\ WholeSeconds(t) \in Nat
           /\ WholeSeconds(t) <= t /\ t < WholeSeconds(t) + TicksPerSecond
  <1>1. TicksPerSecond \in Nat /\ TicksPerSecond > 0
    BY SessionsAssumption
  <1>2. t % TicksPerSecond \in 0..(TicksPerSecond - 1) /\ t % TicksPerSecond <= t
    BY <1>1
  <1>3. QED
    BY <1>1, <1>2 DEF WholeSeconds

\* A number of seconds is a number of ticks, one second is TicksPerSecond.
LEMMA SecondsFacts ==
    /\ TicksPerSecond \in Nat \ {0}
    /\ Seconds(MaxAge) \in Nat
    /\ Seconds(1) = TicksPerSecond
  BY SessionsAssumption DEF Seconds

\* A new cookie carries the dates and the key it should.
LEMMA NewCookie ==
    ASSUME WorldOK, NEW w \in Workers, NEW role
    PROVE  CookieOK(create_session_cookie(w, role))
  <1> DEFINE k == create_session_cookie(w, role)
  <1>1. /\ now \in Nat /\ Seconds(MaxAge) \in Nat
        /\ WholeSeconds(now) \in Nat
        /\ WholeSeconds(now) <= now /\ now < WholeSeconds(now) + TicksPerSecond
        /\ TicksPerSecond \in Nat
    BY SecondsFacts, WholeSecondsFacts DEF WorldOK
  <1>2. /\ k.issued = now /\ k.exp = WholeSeconds(now) + Seconds(MaxAge)
        /\ k.key = secret[w]
    BY DEF create_session_cookie
  <1>3. fixed_key => k.key = <<"env", 0>>
    BY <1>2 DEF WorldOK
  <1>4. k.exp \in Nat /\ k.exp <= k.issued + Seconds(MaxAge)
                      /\ k.issued + Seconds(MaxAge) < k.exp + TicksPerSecond
    BY <1>1, <1>2
  <1>5. QED
    BY <1>1, <1>2, <1>3, <1>4 DEF CookieOK

\* At the beginning nobody has a cookie and nothing is asked.
LEMMA IInvInit == Init => IInv
  <1>1. SUFFICES ASSUME Init PROVE IInv
    OBVIOUS
  <1>2. row \in Rows
    BY <1>1, SessionsAssumption DEF Init, Rows
  <1>3. DOMAIN secret = Workers /\ (fixed_key => \A w \in Workers : secret[w] = <<"env", 0>>)
    BY <1>1 DEF Init
  <1>4. QED
    BY <1>1, <1>2, <1>3 DEF Init, IInv, WorldOK, CookieOK, OpOK

-----------------------------------------------------------------------------
(***************************************************************************)
(* The invariant, action by action.                                        *)
(***************************************************************************)
\* A login notes the row it reads.
LEMMA LoginReadsStep ==
    ASSUME IInv, NEW w \in Workers, NEW password \in Passwords, LoginReads(w, password)
    PROVE  IInv'
  <1>1. UNCHANGED <<now, fixed_key, secret, starts, row, jar>>
    BY DEF LoginReads
  <1>2. row \in Rows /\ row.is_active \in BOOLEAN
    BY DEF IInv, WorldOK, Rows
  <1>3. op' = [stage |-> "login", kind |-> "login", worker |-> w, password |-> password,
               seen |-> row, allowed |-> row.is_active /\ row.password = password,
               barred |-> ~(row.is_active /\ row.password = password)]
    BY DEF LoginReads, Watch
  <1>4. LoginOK(op')
    BY <1>2, <1>3 DEF LoginOK
  <1>5. QED
    BY <1>1, <1>4 DEF IInv, WorldOK, CookieOK, OpOK, LoginOK

\* The decision follows the row read then, and was noted then.
LEMMA LoginDecidesStep == IInv /\ LoginDecides => IInv'
  <1>1. SUFFICES ASSUME IInv, LoginDecides PROVE IInv'
    OBVIOUS
  <1>2. op.stage = "login" /\ UNCHANGED <<now, fixed_key, secret, starts, row>>
    BY <1>1 DEF LoginDecides
  <1>3. LoginOK(op)
    BY <1>1, <1>2 DEF IInv, OpOK, RequestOK, Idle
  <1>4. WorldOK'
    BY <1>1, <1>2 DEF IInv, WorldOK
  <1>5. CASE op.seen.is_active /\ op.password = op.seen.password
    <2>1. /\ jar' = create_session_cookie(op.worker, op.seen.role)
          /\ op' = [op EXCEPT !.stage = "granted"]
      BY <1>1, <1>5 DEF LoginDecides
    <2>2. CookieOK(create_session_cookie(op.worker, op.seen.role))
      BY <1>1, <1>3, NewCookie DEF IInv, LoginOK
    <2>3. CookieOK(jar)'
      BY <1>2, <2>1, <2>2 DEF CookieOK
    <2>4. op.allowed
      BY <1>2, <1>3, <1>5 DEF LoginOK
    <2>5. /\ op'.stage = "granted" /\ DOMAIN op' = DOMAIN op /\ op'.kind = "login"
          /\ op'.worker = op.worker /\ op'.seen = op.seen
          /\ op'.allowed = op.allowed /\ op'.barred = op.barred
      BY <1>3, <2>1 DEF LoginOK
    <2>6. LoginOK(op')
      BY <1>3, <2>4, <2>5 DEF LoginOK
    <2>7. QED
      BY <1>4, <2>3, <2>6 DEF IInv, OpOK, LoginOK
  <1>6. CASE ~(op.seen.is_active /\ op.password = op.seen.password)
    <2>1. jar' = jar /\ op' = [op EXCEPT !.stage = "denied"]
      BY <1>1, <1>6 DEF LoginDecides
    <2>2. op.barred
      BY <1>2, <1>3, <1>6 DEF LoginOK
    <2>3. /\ op'.stage = "denied" /\ DOMAIN op' = DOMAIN op /\ op'.kind = "login"
          /\ op'.worker = op.worker /\ op'.seen = op.seen
          /\ op'.allowed = op.allowed /\ op'.barred = op.barred
      BY <1>3, <2>1 DEF LoginOK
    <2>4. LoginOK(op')
      BY <1>3, <2>2, <2>3 DEF LoginOK
    <2>5. QED
      BY <1>1, <1>2, <1>4, <2>1, <2>4 DEF IInv, OpOK, LoginOK, CookieOK
  <1>7. QED
    BY <1>5, <1>6

\* A request notes the row of the moment it arrives.
LEMMA RequestArrivesStep ==
    ASSUME IInv, NEW w \in Workers, NEW permission \in Permissions, RequestArrives(w, permission)
    PROVE  IInv'
  <1> DEFINE ok == row.is_active /\ has_permission(row.role, permission)
  <1>1. UNCHANGED <<now, fixed_key, secret, starts, row, jar>>
    BY DEF RequestArrives
  <1>2. op' = [stage |-> "cookie", kind |-> "request", worker |-> w, permission |-> permission,
               cookie |-> jar, reason |-> "", allowed |-> FALSE \/ ok, barred |-> FALSE \/ ~ok]
    BY DEF RequestArrives, Watch
  <1>3. RequestOK(op')
    <2>1. CookieOK(jar)
      BY DEF IInv
    <2>2. IF ok THEN op'.allowed ELSE op'.barred
      BY <1>2
    <2>3. op'.allowed \in BOOLEAN /\ op'.barred \in BOOLEAN
      BY <1>2
    <2>4. /\ op'.kind = "request"
          /\ DOMAIN op' = {"stage", "kind", "worker", "permission", "cookie", "reason",
                           "allowed", "barred"}
      BY <1>2
    <2>5. /\ op'.stage = "cookie" /\ op'.worker \in Workers /\ op'.cookie = jar
          /\ op'.permission = permission
      BY <1>2
    <2>6. QED
      BY <2>1, <2>2, <2>3, <2>4, <2>5 DEF RequestOK
  <1>4. QED
    BY <1>1, <1>3 DEF IInv, WorldOK, CookieOK, OpOK, RequestOK

\* The steps of a request in progress.
LEMMA RequestStep ==
    ASSUME IInv, CookieChecked \/ UserReloaded
    PROVE  IInv'
  <1>1. /\ op.stage \in {"cookie", "reload"}
        /\ UNCHANGED <<now, fixed_key, secret, starts, row, jar>>
    BY DEF CookieChecked, UserReloaded
  <1>2. RequestOK(op)
    BY <1>1 DEF IInv, OpOK, LoginOK, Idle
  <1>3. RequestOK(op')
    <2>1. CASE CookieChecked
      <3>1. CASE read_session_cookie(op.worker, op.cookie)
        <4>1. op' = [op EXCEPT !.stage = "reload"]
          BY <2>1, <3>1 DEF CookieChecked
        <4>2. QED
          BY <1>2, <4>1 DEF RequestOK
      <3>2. CASE op.cookie = NoCookie
        <4>1. op' = [op EXCEPT !.stage = "denied", !.reason = "UNAUTHENTICATED"]
          BY <2>1, <3>2 DEF CookieChecked, read_session_cookie
        <4>2. QED
          BY <1>2, <3>2, <4>1 DEF RequestOK
      <3>3. CASE op.cookie # NoCookie /\ ~read_session_cookie(op.worker, op.cookie)
        <4>1. op' = [op EXCEPT !.stage = "denied", !.reason = "SESSION_INVALID"]
          BY <2>1, <3>3 DEF CookieChecked
        <4>2. fixed_key => now > op.cookie.exp
          <5>1. fixed_key => op.cookie.key = secret[op.worker]
            BY <1>2, <3>3 DEF IInv, WorldOK, RequestOK, CookieOK
          <5>2. now \in Nat /\ op.cookie.exp \in Nat
            BY <1>2, <3>3 DEF IInv, WorldOK, RequestOK, CookieOK
          <5>3. QED
            BY <3>3, <5>1, <5>2 DEF read_session_cookie
        <4>3. QED
          BY <1>2, <3>3, <4>1, <4>2 DEF RequestOK
      <3>4. QED
        BY <3>1, <3>2, <3>3
    <2>2. CASE UserReloaded
      <3> DEFINE ok == row.is_active /\ has_permission(row.role, op.permission)
      <3>1. CASE ok
        <4>1. op' = [op EXCEPT !.stage = "granted"] /\ op.allowed
          BY <1>2, <2>2, <3>1 DEF UserReloaded, RequestOK
        <4>2. QED
          BY <1>2, <4>1 DEF RequestOK
      <3>2. CASE ~ok
        <4>1. PICK why \in {"UNAUTHENTICATED", "FORBIDDEN"} :
                  op' = [op EXCEPT !.stage = "denied", !.reason = why]
          BY <2>2, <3>2 DEF UserReloaded
        <4>2. op.barred
          BY <1>2, <3>2 DEF RequestOK
        <4>3. /\ op'.stage = "denied" /\ op'.reason = why /\ DOMAIN op' = DOMAIN op
              /\ op'.kind = "request" /\ op'.worker = op.worker /\ op'.cookie = op.cookie
              /\ op'.permission = op.permission
              /\ op'.allowed = op.allowed /\ op'.barred = op.barred
          BY <1>2, <4>1 DEF RequestOK
        <4>4. QED
          BY <1>2, <3>2, <4>2, <4>3 DEF RequestOK
      <3>3. QED
        BY <3>1, <3>2
    <2>3. QED
      BY <2>1, <2>2
  <1>4. QED
    BY <1>1, <1>3 DEF IInv, WorldOK, CookieOK, OpOK, RequestOK

\* Whatever is in progress notes the new row.
LEMMA RowChangesStep == IInv /\ RowChanges => IInv'
  <1>1. SUFFICES ASSUME IInv, RowChanges PROVE IInv'
    OBVIOUS
  <1>2. /\ op' = Observe(op, row')
        /\ UNCHANGED <<now, fixed_key, secret, starts, jar>>
    BY <1>1 DEF RowChanges
  <1>3. row' \in Rows
    BY <1>1, SessionsAssumption DEF RowChanges, Rows
  <1>4. CASE op = Idle
    BY <1>1, <1>2, <1>3, <1>4 DEF IInv, WorldOK, CookieOK, OpOK, Observe, Idle
  <1>5. CASE LoginOK(op)
    <2>1. /\ op' = [op EXCEPT !.allowed = op.allowed \/ Permits(op, row'),
                              !.barred = op.barred \/ ~Permits(op, row')]
      BY <1>2, <1>5 DEF Observe, Watch, LoginOK
    <2>2. LoginOK(op')
      BY <1>5, <2>1 DEF LoginOK
    <2>3. QED
      BY <1>1, <1>2, <1>3, <2>2 DEF IInv, WorldOK, CookieOK, OpOK, LoginOK
  <1>6. CASE RequestOK(op)
    <2> DEFINE ok == row'.is_active /\ has_permission(row'.role, op.permission)
    <2>1. op' = [op EXCEPT !.allowed = op.allowed \/ ok, !.barred = op.barred \/ ~ok]
      BY <1>2, <1>6 DEF Observe, Watch, Permits, RequestOK
    <2>2. /\ op' = [stage |-> op.stage, kind |-> "request", worker |-> op.worker,
                    permission |-> op.permission, cookie |-> op.cookie, reason |-> op.reason,
                    allowed |-> op.allowed \/ ok, barred |-> op.barred \/ ~ok]
      BY <1>6, <2>1 DEF RequestOK
    <2>3. CookieOK(op.cookie)'  <=> CookieOK(op'.cookie)
      BY <1>2 DEF CookieOK
    <2>4. RequestOK(op)'
      BY <1>2, <1>6, <2>2 DEF RequestOK, CookieOK
    <2>5. QED
      BY <1>1, <1>2, <1>3, <2>4 DEF IInv, WorldOK, CookieOK, OpOK
  <1>7. QED
    BY <1>1, <1>4, <1>5, <1>6 DEF IInv, OpOK

\* A restart loses what the worker was doing, and keeps the key if it is set.
LEMMA RestartStep ==
    ASSUME IInv, NEW w \in Workers, Restart(w)
    PROVE  IInv'
  <1>1. /\ UNCHANGED <<now, fixed_key, row, jar>>
        /\ secret' = [secret EXCEPT ![w] = IF fixed_key THEN <<"env", 0>> ELSE <<"start", starts>>]
        /\ op' = Idle \/ op' = op
    BY DEF Restart
  <1>2. WorldOK'
    BY <1>1 DEF IInv, WorldOK
  <1>3. QED
    BY <1>1, <1>2 DEF IInv, CookieOK, OpOK, LoginOK, RequestOK

\* Every step keeps the invariant.
LEMMA IInvStep == IInv /\ [Next]_vars => IInv'
  <1>1. SUFFICES ASSUME IInv, [Next]_vars PROVE IInv'
    OBVIOUS
  <1>2. CASE Logout
    BY <1>1, <1>2 DEF Logout, IInv, WorldOK, CookieOK, OpOK, LoginOK, RequestOK
  <1>3. CASE Answered
    BY <1>1, <1>3 DEF Answered, IInv, WorldOK, CookieOK, OpOK
  <1>4. CASE Tick
    <2>1. now \in Nat /\ now' = now + 1 /\ UNCHANGED <<fixed_key, secret, starts, row, jar, op>>
      BY <1>1, <1>4 DEF Tick, IInv, WorldOK
    <2>2. CASE RequestOK(op)
      <3>1. (op.stage = "denied" /\ op.reason = "SESSION_INVALID" /\ fixed_key)
                => now' > op.cookie.exp
        <4>1. SUFFICES ASSUME op.stage = "denied", op.reason = "SESSION_INVALID", fixed_key
                       PROVE  now' > op.cookie.exp
          OBVIOUS
        <4>2. op.cookie # NoCookie /\ now > op.cookie.exp
          BY <2>2, <4>1 DEF RequestOK
        <4>3. op.cookie.exp \in Nat
          BY <2>2, <4>2 DEF RequestOK, CookieOK
        <4>4. QED
          BY <2>1, <4>2, <4>3
      <3>2. QED
        BY <1>1, <2>1, <2>2, <3>1 DEF IInv, WorldOK, CookieOK, OpOK, RequestOK
    <2>3. CASE op = Idle \/ LoginOK(op)
      BY <1>1, <2>1, <2>3 DEF IInv, WorldOK, CookieOK, OpOK, LoginOK
    <2>4. QED
      BY <1>1, <2>2, <2>3 DEF IInv, OpOK
  <1>5. CASE UNCHANGED vars
    BY <1>1, <1>5 DEF vars, IInv, WorldOK, CookieOK, OpOK, LoginOK, RequestOK
  <1>6. QED
    BY <1>1, <1>2, <1>3, <1>4, <1>5, LoginReadsStep, LoginDecidesStep, RequestArrivesStep,
       RequestStep, RowChangesStep, RestartStep
       DEF Next, OpStep

\* So it holds for ever.
LEMMA InductiveInvariant == Spec => []IInv
  BY IInvInit, IInvStep, PTL DEF Spec

-----------------------------------------------------------------------------
(***************************************************************************)
(* What follows.                                                           *)
(***************************************************************************)
\* Whoever gets through was entitled to it, and whoever is turned away because
\* of the row was not, at some moment while the request was in progress.
THEOREM DecisionsAreRight == Spec => []DecisionsAreTimely
  <1>1. IInv => DecisionsAreTimely
    BY DEF IInv, OpOK, LoginOK, RequestOK, Idle, DecisionsAreTimely
  <1>2. QED
    BY <1>1, InductiveInvariant, PTL

\* With PLATFORM_SECRET_KEY set only time ends a session.
THEOREM SessionsAreKept == Spec => []FixedKeyKeepsSessions
  <1>1. IInv => FixedKeyKeepsSessions
    BY DEF IInv, OpOK, LoginOK, RequestOK, Idle, FixedKeyKeepsSessions
  <1>2. QED
    BY <1>1, InductiveInvariant, PTL

\* Which steps take a request past its cookie's check.
LEMMA OnlyTheCheckDecides ==
    ASSUME IInv, Next, op.stage = "cookie", op'.stage \in {"reload", "denied"}
    PROVE  CookieChecked
  <1>1. RequestOK(op)
    BY DEF IInv, OpOK, LoginOK, Idle
  <1>2. ASSUME NEW w \in Workers
        PROVE  /\ \A p \in Passwords : ~LoginReads(w, p)
               /\ \A p \in Permissions : ~RequestArrives(w, p)
               /\ ~Restart(w)
    BY DEF LoginReads, RequestArrives, Restart, Idle
  <1>3. ~RowChanges
    <2>1. Observe(op, row') = [op EXCEPT !.allowed = op.allowed \/ Permits(op, row'),
                                         !.barred = op.barred \/ ~Permits(op, row')]
      BY DEF Observe, Watch
    <2>2. Observe(op, row').stage = "cookie"
      BY <1>1, <2>1 DEF RequestOK
    <2>3. QED
      BY <2>2 DEF RowChanges
  <1>4. ~Logout /\ ~Tick /\ ~LoginDecides /\ ~UserReloaded /\ ~Answered
    BY DEF Logout, Tick, LoginDecides, UserReloaded, Answered
  <1>5. QED
    BY <1>2, <1>3, <1>4 DEF Next, OpStep

\* No cookie outlives its max-age, and none with a standing key is refused more
\* than a second before it, whatever the max-age and however fine the clock.
THEOREM LifetimeIsExact == Spec => SessionLifetime
  <1> DEFINE Lasts ==
        (op.stage = "cookie" /\ op.cookie # NoCookie /\ op'.stage \in {"reload", "denied"}) =>
          LET age == now - op.cookie.issued IN
          /\ op'.stage = "reload" => age <= Seconds(MaxAge)
          /\ age + Seconds(1) <= Seconds(MaxAge) /\ op.cookie.key = secret[op.worker]
                => op'.stage = "reload"
  <1>1. IInv /\ [Next]_vars => [Lasts]_vars
    <2>1. SUFFICES ASSUME IInv, Next, op.stage = "cookie", op.cookie # NoCookie,
                          op'.stage \in {"reload", "denied"}
                   PROVE  /\ op'.stage = "reload" => now - op.cookie.issued <= Seconds(MaxAge)
                          /\ (/\ now - op.cookie.issued + Seconds(1) <= Seconds(MaxAge)
                              /\ op.cookie.key = secret[op.worker]) => op'.stage = "reload"
      OBVIOUS
    <2>2. CookieChecked
      BY <2>1, OnlyTheCheckDecides
    <2>3. RequestOK(op) /\ now \in Nat
      BY <2>1 DEF IInv, WorldOK, OpOK, LoginOK, Idle
    <2>4. op'.stage = "reload" <=> read_session_cookie(op.worker, op.cookie)
      BY <2>2, <2>3 DEF CookieChecked, RequestOK
    <2>5. /\ op.cookie.issued \in Nat /\ op.cookie.exp \in Nat
          /\ op.cookie.exp <= op.cookie.issued + Seconds(MaxAge)
          /\ op.cookie.issued + Seconds(MaxAge) < op.cookie.exp + TicksPerSecond
      BY <2>1, <2>3 DEF RequestOK, CookieOK
    <2>6. read_session_cookie(op.worker, op.cookie)
            <=> op.cookie.key = secret[op.worker] /\ now <= op.cookie.exp
      BY <2>1, <2>3, <2>5 DEF read_session_cookie
    <2>7. QED
      BY <2>3, <2>4, <2>5, <2>6, SecondsFacts
  <1>2. Spec => [][Lasts]_vars
    BY <1>1, InductiveInvariant, PTL DEF Spec
  <1>3. QED
    BY <1>2 DEF SessionLifetime
=============================================================================
