---------------------------- MODULE SessionPromise -----------------------------
(***************************************************************************)
(* What a refresh session promises, with no database rows, races or cache. *)
(* Its tokens replace one another more than a grace period apart, and a    *)
(* refresh is answered with the token that is current at that moment.  No  *)
(* token is handed out once the session is over, and none is made by more  *)
(* than a request's length after its life has run out.  An access token is *)
(* admitted as long as it is good, and at most for as long as a cached     *)
(* answer may be old afterwards; never past the session's life.            *)
(* Sessions implements this.                                               *)
(***************************************************************************)
EXTENDS Naturals

CONSTANTS
    Requests, Checks,
    Versions,             \* of the owner's access tokens
    Grace,
    IdleTime, Absolute,   \* how long a session lives unused, and at all
    Slack,                \* how long a request may take
    Staleness,            \* how old a cached answer may be
    MaxTime,              \* bound: the clock
    Never                 \* no time, no token, no version

VARIABLES
    now,
    current,   \* the session's token, as a position in its chain
    rotatedAt, \* when it replaced the one before
    idleAt,    \* when the session's life runs out
    revoked,   \* the session was ended
    endedAt,   \* when the access tokens of each version stopped being good
    held,      \* the token each refresh is about to be answered with
    admitted   \* the version each check has admitted

vars == <<now, current, rotatedAt, idleAt, revoked, endedAt, held, admitted>>

Least(a, b) == IF a < b THEN a ELSE b

Init ==
    /\ now = 0
    /\ current = 0 /\ rotatedAt = Never /\ idleAt = Least(IdleTime, Absolute)
    /\ revoked = FALSE
    /\ endedAt = [v \in Versions |-> Never]
    /\ held = [r \in Requests |-> Never]
    /\ admitted = [c \in Checks |-> Never]

Tick ==
    /\ now < MaxTime
    /\ now' = now + 1
    /\ UNCHANGED <<current, rotatedAt, idleAt, revoked, endedAt, held, admitted>>

\* Two tabs that refresh at once, or one that lost the answer, get the same token.
Repeat(r) ==
    /\ ~revoked /\ now < idleAt
    /\ rotatedAt # Never /\ now <= rotatedAt + Grace
    /\ held' = [held EXCEPT ![r] = current]
    /\ UNCHANGED <<now, current, rotatedAt, idleAt, revoked, endedAt, admitted>>

Rotate(r) ==
    /\ ~revoked /\ now < idleAt + Slack
    /\ rotatedAt = Never \/ now > rotatedAt + Grace
    /\ current' = current + 1
    /\ rotatedAt' = now
    /\ idleAt' = Least(now + IdleTime, Absolute)
    /\ held' = [held EXCEPT ![r] = current + 1]
    /\ UNCHANGED <<now, revoked, endedAt, admitted>>

Answer(r) ==
    /\ held[r] # Never
    /\ held' = [held EXCEPT ![r] = Never]
    /\ UNCHANGED <<now, current, rotatedAt, idleAt, revoked, endedAt, admitted>>

Ends(vs) == endedAt' = [v \in Versions |-> IF v \in vs /\ endedAt[v] = Never THEN now ELSE endedAt[v]]

Revoke ==
    /\ revoked' = TRUE
    /\ Ends(Versions)
    /\ UNCHANGED <<now, current, rotatedAt, idleAt, held, admitted>>

ChangeRole(v) ==
    /\ Ends({v})
    /\ UNCHANGED <<now, current, rotatedAt, idleAt, revoked, held, admitted>>

Admit(c, v) ==
    /\ now < idleAt
    /\ endedAt[v] = Never \/ now <= endedAt[v] + Staleness
    /\ admitted' = [admitted EXCEPT ![c] = v]
    /\ UNCHANGED <<now, current, rotatedAt, idleAt, revoked, endedAt, held>>

Respond(c) ==
    /\ admitted[c] # Never
    /\ admitted' = [admitted EXCEPT ![c] = Never]
    /\ UNCHANGED <<now, current, rotatedAt, idleAt, revoked, endedAt, held>>

Next ==
    \/ Tick \/ Revoke
    \/ \E r \in Requests : Repeat(r) \/ Rotate(r) \/ Answer(r)
    \/ \E v \in Versions : ChangeRole(v) \/ \E c \in Checks : Admit(c, v)
    \/ \E c \in Checks : Respond(c)

Spec == Init /\ [][Next]_vars
===============================================================================
