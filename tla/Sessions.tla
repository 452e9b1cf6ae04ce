------------------------------- MODULE Sessions --------------------------------
(***************************************************************************)
(* The tokens of the administrators (src/modules/auth): a login starts a session, *)
(* whose refresh tokens are neither stored nor revoked; every request looks the    *)
(* account up again.  Times are in units of the access token's life.           *)
(***************************************************************************)
EXTENDS Integers, FiniteSets

CONSTANTS
    Account,
    Master,        \* FIXED_ADMIN_USER: made again whenever it is looked up
    AccessLife,    \* JWT_EXPIRATION
    RefreshLife,   \* JWT_REFRESH_EXPIRATION
    Inactivity,    \* JWT_REFRESH_INACTIVITY
    Absolute,      \* JWT_REFRESH_ABSOLUTE_EXPIRATION
    MaxTime,       \* bounds: the clock,
    MaxLogins      \* logins

SessionAssumption ==
    /\ {AccessLife, RefreshLife, Inactivity, Absolute, MaxTime, MaxLogins} \subseteq Nat
    /\ MaxTime > 0

VARIABLES
    now,
    state,         \* [Account -> "ACTIVE", "INACTIVE"]: of the account and its site
    access,        \* access tokens issued: [account, expires, login]
    refresh,       \* refresh tokens: [account, expires, started, last, login]
    logins         \* the times of the logins of each account

sessionVars == <<now, state, access, refresh, logins>>

Init ==
    /\ now = 1 /\ state = [a \in Account |-> "ACTIVE"]
    /\ access = {} /\ refresh = {}
    /\ logins = [a \in Account |-> {}]

\* validateUser
Valid(a) == state[a] = "ACTIVE" \/ a = Master

\* ensureFixedMasterAdminAccount: to look the master up makes it active.
Looked(a) == IF a = Master THEN [state EXCEPT ![a] = "ACTIVE"] ELSE state

Access(a, login) == [account |-> a, expires |-> now + AccessLife, login |-> login]

\* issueTokensFromRefresh: the session's start stays.
Renewed(t) == [t EXCEPT !.expires = now + RefreshLife, !.last = now]

\* login, issueTokens
Login(a) ==
    /\ Cardinality(UNION {{<<b, n>> : n \in logins[b]} : b \in Account}) < MaxLogins
    /\ Valid(a) /\ state' = Looked(a)
    /\ logins' = [logins EXCEPT ![a] = @ \cup {now}]
    /\ access' = access \cup {Access(a, now)}
    /\ refresh' = refresh \cup
         {[account |-> a, expires |-> now + RefreshLife, started |-> now, last |-> now,
           login |-> now]}
    /\ UNCHANGED now

\* refresh: with any of a session's tokens, the old ones included
Refresh(t) ==
    /\ t \in refresh
    /\ now < t.expires /\ now - t.last <= Inactivity /\ now - t.started <= Absolute
    /\ Valid(t.account) /\ state' = Looked(t.account)
    /\ access' = access \cup {Access(t.account, t.login)}
    /\ refresh' = refresh \cup {Renewed(t)}
    /\ UNCHANGED <<now, logins>>

\* A request with an access token: JwtStrategy.validate
Accepted(t) == t \in access /\ now < t.expires /\ Valid(t.account)

Validate(t) ==
    /\ Accepted(t)
    /\ state' = Looked(t.account)
    /\ UNCHANGED <<now, access, refresh, logins>>

\* Accounts and their sites are switched off and on.
SetState(a, s) ==
    /\ state[a] # s
    /\ state' = [state EXCEPT ![a] = s]
    /\ UNCHANGED <<now, access, refresh, logins>>

\* Tokens that nothing can come of any more are left out.
Tick ==
    /\ now < MaxTime /\ now' = now + 1
    /\ access' = {t \in access : t.expires > now + 1}
    /\ refresh' = {t \in refresh :
                     t.expires > now + 1 /\ now + 1 - t.last <= Inactivity}
    /\ UNCHANGED <<state, logins>>

Next ==
    \/ \E a \in Account : Login(a) \/ \E s \in {"ACTIVE", "INACTIVE"} : SetState(a, s)
    \/ \E t \in refresh : Refresh(t)
    \/ \E t \in access : Validate(t)
    \/ Tick

Spec == Init /\ [][Next]_sessionVars

-----------------------------------------------------------------------------
\* Tokens belong to a login.
TypeOK ==
    /\ now \in 1..MaxTime
    /\ \A t \in access \cup refresh : t.login \in logins[t.account]
    /\ \A t \in refresh : t.started \in 1..t.last /\ t.last \in 1..now

\* refresh, issueTokensFromRefresh: however often, and with whichever of its tokens, a
\* session is refreshed, no request is accepted later than the absolute limit and an
\* access token's life after the login it began with.
SessionsEnd ==
    \A t \in access : Accepted(t) => now < t.login + Absolute + AccessLife

================================================================================
