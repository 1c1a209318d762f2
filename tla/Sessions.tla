------------------------------- MODULE Sessions -------------------------------
(***************************************************************************)
(* One refresh session: the requests that rotate its token, whoever ends   *)
(* it or changes its owner's role, and the checks of access tokens that    *)
(* answer from a snapshot in redis-cache.                                  *)
(*                                                                         *)
(* A token is the HMAC of the one before it, so token n is the n-th of the *)
(* session's chain, and the row's previous token is always one less than   *)
(* its current.  A request may present any token the session ever had: a   *)
(* second tab, an answer that was lost, a browser restored from a backup.  *)
(*                                                                         *)
(* Time is a clock that all servers read.  MaxDelay bounds how long one    *)
(* request, or one fill of the cache, may take.                            *)
(***************************************************************************)
EXTENDS Naturals

CONSTANTS
    Requests,  \* refreshes under way at once
    Checks,    \* checks of access tokens under way at once
    Grace,     \* REFRESH_GRACE_S
    Lookback,  \* refresh_chain_lookback
    CacheTTL,  \* AUTH_PRINCIPAL_CACHE_TTL_S
    IdleTime, Absolute,   \* lifetimes(remember)
    MaxDelay,  \* bound: how long a request or a fill takes
    MaxVer,    \* bound: changes of the owner's token_version
    MaxTime,   \* bound: the clock
    Never      \* no time

Versions == 0..MaxVer
Snapshots == [ver : Versions, good : BOOLEAN, idleAt : Nat]  \* what the cache keeps of a session

ASSUME ConstantsAssumption ==
    /\ {Grace, Lookback, CacheTTL, IdleTime, Absolute, MaxDelay, MaxVer, MaxTime} \subseteq Nat
    /\ Never \notin Nat /\ Never \notin Snapshots
    /\ MaxDelay <= Grace  \* statements and locks time out long before the grace period does

VARIABLES
    now,
    current,     \* current_token_hash, as a position in the chain
    rotatedAt,   \* rotated_at
    idleAt,      \* idle_expires_at
    revoked,     \* revoked_at is set
    active,      \* the owner is active and not deleted
    ver,         \* users.token_version
    req,         \* where each refresh is
    chk,         \* where each check is
    cache,       \* auth:principal:<sid>, and when it expires
    drops,       \* a commit has a cached snapshot to drop
    outAt,       \* history: when each token stopped being the current one
    endedAt      \* history: when access tokens of each version stopped being good

rowVars == <<current, rotatedAt, idleAt, revoked, active, ver>>
history == <<outAt, endedAt>>
vars == <<now, rowVars, req, chk, cache, drops, history>>

Tokens == 0..(MaxTime + 1)
Min(a, b) == IF a < b THEN a ELSE b

NoRequest == [pc |-> "idle", token |-> 0, at |-> 0]
NoCheck == [pc |-> "idle", ver |-> 0, at |-> 0, snap |-> Never]
Empty == [snap |-> Never, until |-> 0]

Init ==
    /\ now = 0
    /\ current = 0 /\ rotatedAt = Never /\ idleAt = Min(IdleTime, Absolute)
    /\ revoked = FALSE /\ active = TRUE /\ ver = 0
    /\ req = [r \in Requests |-> NoRequest]
    /\ chk = [c \in Checks |-> NoCheck]
    /\ cache = Empty /\ drops = FALSE
    /\ outAt = [t \in Tokens |-> Never] /\ endedAt = [v \in Versions |-> Never]

-----------------------------------------------------------------------------
(* What a presented token is to the session *)

Alive == ~revoked /\ now < idleAt /\ now < Absolute
InGrace == rotatedAt # Never /\ now <= rotatedAt + Grace

JudgeMutant(token) ==
    IF token = current THEN "rotate"
    ELSE IF token + 1 = current THEN IF InGrace THEN "hand" ELSE "reuse"
    ELSE IF token + Lookback >= current THEN "reuse" ELSE "unknown"
Judge(token) ==
    IF token = current THEN IF InGrace THEN "hand" ELSE "rotate"
    ELSE IF token + 1 = current THEN IF InGrace THEN "hand" ELSE "reuse"
    ELSE IF token + Lookback >= current THEN "reuse" ELSE "unknown"

(* Ending what is good now, for the versions vs of the owner's tokens. *)
Ends(vs) == endedAt' = [v \in Versions |-> IF v \in vs /\ endedAt[v] = Never THEN now ELSE endedAt[v]]
Revoke ==
    /\ revoked' = TRUE
    /\ drops' = TRUE
    /\ Ends(Versions)

-----------------------------------------------------------------------------
(* POST /auth/refresh *)

(* Steps 3 to 8: read the session and decide.  A token that can be handed  *)
(* out is the one presented or its successor, both the current token now.  *)
DecideMutant(r, token, at) ==
    LET verdict == Judge(token)
        Goes(pc, t) == req' = [req EXCEPT ![r] = [pc |-> pc, token |-> t, at |-> at]]
    IN  \/ verdict = "unknown" /\ req' = [req EXCEPT ![r] = NoRequest]
        \/ verdict = "reuse" /\ Goes("reuse", token)
        \/ verdict \in {"hand", "rotate"} /\ ~active /\ Goes("unusable", token)
        \/ verdict = "hand" /\ active /\ Goes("hand", current)
        \/ /\ verdict = "rotate" /\ active
           /\ Goes(IF req[r].pc = "again" THEN "broken" ELSE "rotate", token)
Decide(r, token, at) ==
    LET verdict == Judge(token)
        Goes(pc, t) == req' = [req EXCEPT ![r] = [pc |-> pc, token |-> t, at |-> at]]
    IN  \/ (~Alive \/ verdict = "unknown") /\ req' = [req EXCEPT ![r] = NoRequest]
        \/ Alive /\ verdict = "reuse" /\ Goes("reuse", token)
        \/ Alive /\ verdict \in {"hand", "rotate"} /\ ~active /\ Goes("unusable", token)
        \/ Alive /\ verdict = "hand" /\ active /\ Goes("hand", current)
        \/ /\ Alive /\ verdict = "rotate" /\ active
           /\ Goes(IF req[r].pc = "again" THEN "broken" ELSE "rotate", token)

Refresh(r) ==
    /\ req[r].pc = "idle"
    /\ \E token \in 0..current : Decide(r, token, now)
    /\ UNCHANGED <<now, rowVars, chk, cache, drops, history>>

RotateMutant(r) ==
    /\ req[r].pc = "rotate"
    /\ current = req[r].token /\ ~revoked
    /\ current' = current + 1
    /\ rotatedAt' = now
    /\ idleAt' = now + IdleTime
    /\ outAt' = [outAt EXCEPT ![current] = now]
    /\ drops' = TRUE
    /\ req' = [req EXCEPT ![r].pc = "hand", ![r].token = current + 1]
    /\ UNCHANGED <<now, revoked, active, ver, chk, cache, endedAt>>
Rotate(r) ==
    /\ req[r].pc = "rotate"
    /\ current = req[r].token /\ ~revoked
    /\ current' = current + 1
    /\ rotatedAt' = now
    /\ idleAt' = Min(now + IdleTime, Absolute)
    /\ outAt' = [outAt EXCEPT ![current] = now]
    /\ drops' = TRUE
    /\ req' = [req EXCEPT ![r].pc = "hand", ![r].token = current + 1]
    /\ UNCHANGED <<now, revoked, active, ver, chk, cache, endedAt>>

LoseRotation(r) ==
    /\ req[r].pc = "rotate"
    /\ current # req[r].token \/ revoked
    /\ req' = [req EXCEPT ![r].pc = "again"]
    /\ UNCHANGED <<now, rowVars, chk, cache, drops, history>>
DecideAgain(r) ==
    /\ req[r].pc = "again"
    /\ Decide(r, req[r].token, req[r].at)
    /\ UNCHANGED <<now, rowVars, chk, cache, drops, history>>

RevokeOne(r) ==
    /\ req[r].pc \in {"reuse", "unusable"}
    /\ Revoke
    /\ req' = [req EXCEPT ![r] = NoRequest]
    /\ UNCHANGED <<now, current, rotatedAt, idleAt, active, ver, chk, cache, outAt>>

Answer(r) ==
    /\ req[r].pc = "hand"
    /\ req' = [req EXCEPT ![r] = NoRequest]
    /\ UNCHANGED <<now, rowVars, chk, cache, drops, history>>

-----------------------------------------------------------------------------
(* What else ends a session or its access tokens *)

Logout ==
    /\ Alive
    /\ Revoke
    /\ UNCHANGED <<now, current, rotatedAt, idleAt, active, ver, req, chk, cache, outAt>>

(* disable_user and delete_user revoke the sessions and raise the version. *)
DisableOwner ==
    /\ active /\ ver < MaxVer
    /\ active' = FALSE
    /\ ver' = ver + 1
    /\ Revoke
    /\ UNCHANGED <<now, current, rotatedAt, idleAt, req, chk, cache, outAt>>
EnableOwner ==
    /\ ~active
    /\ active' = TRUE
    /\ UNCHANGED <<now, current, rotatedAt, idleAt, revoked, ver, req, chk, cache, drops, history>>

(* change_role: bump_token_version *)
ChangeRole ==
    /\ ver < MaxVer
    /\ ver' = ver + 1
    /\ drops' = (drops \/ ~revoked)
    /\ Ends({ver})
    /\ UNCHANGED <<now, current, rotatedAt, idleAt, revoked, active, req, chk, cache, outAt>>

(* The drop runs after the commit and may fail. *)
DropCached ==
    /\ drops
    /\ drops' = FALSE
    /\ cache' \in {cache, Empty}
    /\ UNCHANGED <<now, rowVars, req, chk, history>>

-----------------------------------------------------------------------------
(* check_session: the snapshot in the cache, or one read from the database *)

CachedMutant == cache.snap # Never
Cached == cache.snap # Never /\ now < cache.until
Snapshot == [ver |-> ver, good |-> ~revoked /\ active, idleAt |-> idleAt]
Admits(snap, v) == snap.good /\ now < snap.idleAt /\ now < Absolute /\ snap.ver = v
Judged(c, snap, v) ==
    chk' = [chk EXCEPT ![c] = IF Admits(snap, v) THEN [NoCheck EXCEPT !.pc = "admitted", !.ver = v, !.at = now]
                              ELSE NoCheck]

CheckCached(c) ==
    /\ chk[c].pc = "idle" /\ Cached
    /\ \E v \in 0..ver : Judged(c, cache.snap, v)
    /\ UNCHANGED <<now, rowVars, req, cache, drops, history>>

LoadSnapshot(c) ==
    /\ chk[c].pc = "idle" /\ ~Cached
    /\ \E v \in 0..ver : chk' = [chk EXCEPT ![c] = [pc |-> "loaded", ver |-> v, at |-> now, snap |-> Snapshot]]
    /\ UNCHANGED <<now, rowVars, req, cache, drops, history>>
FillCache(c) ==
    /\ chk[c].pc = "loaded"
    /\ cache' \in {cache, [snap |-> chk[c].snap, until |-> now + CacheTTL]}
    /\ Judged(c, chk[c].snap, chk[c].ver)
    /\ UNCHANGED <<now, rowVars, req, drops, history>>
Respond(c) ==
    /\ chk[c].pc = "admitted"
    /\ chk' = [chk EXCEPT ![c] = NoCheck]
    /\ UNCHANGED <<now, rowVars, req, cache, drops, history>>

-----------------------------------------------------------------------------
Tick ==
    /\ now < MaxTime
    /\ \A r \in Requests : req[r].pc # "idle" => now < req[r].at + MaxDelay
    /\ \A c \in Checks : chk[c].pc = "loaded" => now < chk[c].at + MaxDelay
    /\ now' = now + 1
    /\ UNCHANGED <<rowVars, req, chk, cache, drops, history>>

Next ==
    \/ \E r \in Requests :
         Refresh(r) \/ Rotate(r) \/ LoseRotation(r) \/ DecideAgain(r) \/ RevokeOne(r) \/ Answer(r)
    \/ Logout \/ DisableOwner \/ EnableOwner \/ ChangeRole \/ DropCached
    \/ \E c \in Checks : CheckCached(c) \/ LoadSnapshot(c) \/ FillCache(c) \/ Respond(c)
    \/ Tick

Spec == Init /\ [][Next]_vars

-----------------------------------------------------------------------------
(* Properties *)

\* Every variable keeps its type (refresh_sessions, users, the snapshot of the cache), and a rotation
\* never leads past the tokens there was time for.
TypeOK ==
    /\ now \in 0..MaxTime
    /\ current \in Tokens
    /\ rotatedAt \in 0..now \cup {Never} /\ idleAt \in 0..Absolute
    /\ revoked \in BOOLEAN /\ active \in BOOLEAN /\ ver \in Versions
    /\ req \in [Requests -> [pc : {"idle", "rotate", "again", "reuse", "unusable", "hand", "broken"},
                             token : Tokens, at : 0..now]]
    /\ chk \in [Checks -> [pc : {"idle", "loaded", "admitted"}, ver : Versions, at : 0..now,
                           snap : Snapshots \cup {Never}]]
    /\ cache \in [snap : Snapshots \cup {Never}, until : Nat]
    /\ drops \in BOOLEAN
    /\ outAt \in [Tokens -> 0..now \cup {Never}] /\ endedAt \in [Versions -> 0..now \cup {Never}]

\* K10: only a token that another one replaced more than the grace period ago ends the session as
\* reused, however many refreshes raced (auth/sessions.py, _judge).
ReuseIsOld ==
    \A r \in Requests : req[r].pc = "reuse" =>
        /\ req[r].token < current
        /\ outAt[req[r].token] # Never /\ now > outAt[req[r].token] + Grace

\* A refresh that lost the race to rotate finds its token replaced within the grace period, or the
\* session over: it neither ends the session nor rotates a second time (sessions.py:505-507).
LostRotationIsSafe ==
    \A r \in Requests :
        /\ req[r].pc # "broken"
        /\ req[r].pc = "again" /\ Alive => req[r].token + 1 = current /\ InGrace

\* C19: the token a refresh is answered with still works when the answer leaves: it is the current
\* one, or one replaced within the grace period, unless the session ended meanwhile.
HandedIsUsable ==
    \A r \in Requests : req[r].pc = "hand" =>
        \/ revoked
        \/ req[r].token = current
        \/ req[r].token + 1 = current /\ InGrace

\* K34: an access token is admitted no later than the cache's TTL, plus the time a fill takes, after
\* it stopped being good, even when a fill races the revocation and the drop fails.
AdmitFresh ==
    \A c \in Checks : chk[c].pc = "admitted" /\ endedAt[chk[c].ver] # Never =>
        chk[c].at <= endedAt[chk[c].ver] + CacheTTL + MaxDelay

\* Whatever requests and checks race, answers are lost and drops fail, the session is a SessionPromise:
\* rotations are more than the grace period apart, and nothing outlives it but by a request's length or
\* a cached answer's age (auth/sessions.py, refresh_session and check_session).
Held == [r \in Requests |-> IF req[r].pc = "hand" THEN req[r].token ELSE Never]
Admitted == [c \in Checks |-> IF chk[c].pc = "admitted" THEN chk[c].ver ELSE Never]
Promise == INSTANCE SessionPromise WITH
    Slack <- MaxDelay, Staleness <- CacheTTL + MaxDelay, held <- Held, admitted <- Admitted
ImplementsSession == Promise!Spec
===============================================================================
