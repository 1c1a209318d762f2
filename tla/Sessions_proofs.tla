--------------------------- MODULE Sessions_proofs ---------------------------
(***************************************************************************)
(* What TLAPS proves of Sessions, for any number of requests and checks    *)
(* and every value of the grace period, the lifetimes and the cache's TTL, *)
(* as long as a request is done within the grace period.                   *)
(*                                                                         *)
(* A request may act on a token that another one replaced since.  Chain    *)
(* relates the history to the row: the token before the current one was    *)
(* replaced at rotated_at, and older ones more than the grace period       *)
(* before that.  Knows says what a request can still rely on, and Fresh    *)
(* how old a snapshot may be.                                              *)
(***************************************************************************)
EXTENDS Sessions, TLAPS

Pcs == {"idle", "rotate", "again", "reuse", "unusable", "hand", "broken"}
ReqType == [pc : Pcs, token : Tokens, at : 0..now]
ChkType == [pc : {"idle", "loaded", "admitted"}, ver : Versions, at : 0..now,
            snap : Snapshots \cup {Never}]

(* A rotation needs the clock to pass the grace period of the one before. *)
Chain ==
    /\ current = 0 <=> rotatedAt = Never
    /\ current > 0 => outAt[current - 1] = rotatedAt /\ current <= rotatedAt + 1
    /\ \A t \in Tokens : t + 1 < current => outAt[t] # Never /\ outAt[t] + Grace < rotatedAt

(* The token is the one the request saw, current and out of grace, or was  *)
(* replaced after the request began, which is less than the grace period.  *)
Replaced(q) == current > 0 /\ q.token + 1 = current /\ rotatedAt >= q.at
Knows(q) ==
    /\ q.token <= current
    /\ q.pc # "idle" => now <= q.at + MaxDelay
    /\ q.pc \in {"rotate", "again"} => (q.token = current /\ ~InGrace) \/ Replaced(q)
    /\ q.pc = "again" => revoked \/ q.token # current
    /\ q.pc = "hand" => q.token = current \/ Replaced(q)
    /\ q.pc = "reuse" =>
         /\ q.token < current
         /\ outAt[q.token] # Never /\ now > outAt[q.token] + Grace
    /\ q.pc # "broken"
Requested == \A r \in Requests : Knows(req[r])

(* A version whose tokens are good was not ended; a good snapshot of one   *)
(* that was is no older than a fill and the cache's TTL allow.             *)
Fresh ==
    /\ ~revoked => \A v \in Versions : v >= ver => endedAt[v] = Never
    /\ cache.until <= now + CacheTTL
    /\ cache.snap # Never /\ cache.snap.good /\ endedAt[cache.snap.ver] # Never =>
         cache.until <= endedAt[cache.snap.ver] + CacheTTL + MaxDelay
    /\ \A c \in Checks : chk[c].pc = "loaded" =>
         /\ now <= chk[c].at + MaxDelay
         /\ chk[c].snap \in Snapshots
         /\ chk[c].snap.good /\ endedAt[chk[c].snap.ver] # Never => chk[c].at <= endedAt[chk[c].snap.ver]

IInv == TypeOK /\ Chain /\ Requested /\ Fresh /\ AdmitFresh

LEMMA Constants ==
    /\ Grace \in Nat /\ Lookback \in Nat /\ CacheTTL \in Nat /\ IdleTime \in Nat /\ Absolute \in Nat
    /\ MaxDelay \in Nat /\ MaxVer \in Nat /\ MaxTime \in Nat /\ MaxDelay <= Grace
    /\ Never \notin Nat /\ Never \notin Snapshots
BY ConstantsAssumption

LEMMA IInvInit == Init => IInv
<1> SUFFICES ASSUME Init PROVE IInv
    OBVIOUS
<1> USE Constants
<1>1. NoRequest \in ReqType /\ NoRequest.pc = "idle" /\ NoRequest.token = 0
    BY DEF Init, NoRequest, ReqType, Pcs, Tokens
<1>2. NoCheck \in ChkType /\ NoCheck.pc = "idle"
    BY DEF Init, NoCheck, ChkType, Versions
<1>3. Empty \in [snap : Snapshots \cup {Never}, until : Nat] /\ Empty.snap = Never /\ Empty.until = 0
    BY DEF Empty
<1>4. TypeOK
  <2>1. now \in 0..MaxTime /\ current \in Tokens /\ ver \in Versions /\ idleAt \in 0..Absolute
    BY DEF Init, Tokens, Versions, Min
  <2>2. req \in [Requests -> ReqType] /\ chk \in [Checks -> ChkType]
    BY <1>1, <1>2 DEF Init
  <2>3. cache \in [snap : Snapshots \cup {Never}, until : Nat]
    BY <1>3 DEF Init
  <2>4. outAt \in [Tokens -> 0..now \cup {Never}] /\ endedAt \in [Versions -> 0..now \cup {Never}]
    BY DEF Init
  <2>5. rotatedAt \in 0..now \cup {Never} /\ revoked \in BOOLEAN /\ active \in BOOLEAN /\ drops \in BOOLEAN
    BY DEF Init
  <2> QED BY <2>1, <2>2, <2>3, <2>4, <2>5 DEF TypeOK, ReqType, ChkType, Pcs
<1>5. Chain
    BY DEF Init, Chain, Tokens
<1>6. Requested
  <2>1. Knows(NoRequest)
    BY <1>1 DEF Init, Knows
  <2>2. \A r \in Requests : req[r] = NoRequest
    BY DEF Init
  <2> QED BY <2>1, <2>2 DEF Requested
<1>7. Fresh /\ AdmitFresh
    BY <1>2, <1>3 DEF Init, Fresh, AdmitFresh
<1> QED BY <1>4, <1>5, <1>6, <1>7 DEF IInv

-----------------------------------------------------------------------------
(* What one request knows *)

(* A step that leaves the row and the clock alone and gives one request a  *)
(* new record keeps what is known of the others.                           *)
LEMMA OneRequest ==
    ASSUME IInv, NEW r \in Requests, NEW q,
           q \in ReqType, Knows(q),
           req' = [req EXCEPT ![r] = q],
           UNCHANGED <<now, current, rotatedAt, revoked, outAt>>
    PROVE  Requested' /\ req' \in [Requests -> ReqType']
<1>1. req \in [Requests -> ReqType] /\ ReqType' = ReqType
    BY DEF IInv, TypeOK, ReqType, Pcs, Tokens
<1>2. \A s \in Requests : req'[s] = IF s = r THEN q ELSE req[s]
    BY <1>1
<1>3. \A s \in Requests : Knows(req'[s])
    BY <1>2 DEF IInv, Requested
<1>4. Requested'
    BY <1>3 DEF Requested, Knows, Replaced, InGrace
<1> QED BY <1>1, <1>4

(* Whatever the session decides of a token it had is known to be so. *)
LEMMA DecideKnows ==
    ASSUME IInv, NEW r \in Requests, NEW token \in 0..current, NEW at \in 0..now,
           now <= at + MaxDelay,
           req[r].pc = "again" => revoked \/ (current > 0 /\ token + 1 = current /\ rotatedAt >= at),
           Decide(r, token, at),
           UNCHANGED <<now, current, rotatedAt, revoked, outAt>>
    PROVE  Requested' /\ req' \in [Requests -> ReqType']
<1> USE Constants
<1> DEFINE rec(pc, t) == [pc |-> pc, token |-> t, at |-> at]
<1>0. /\ current \in Tokens /\ current \in Nat /\ now \in Nat /\ token \in Tokens /\ token \in Nat
      /\ rotatedAt \in Nat \cup {Never} /\ at \in Nat
      /\ rotatedAt # Never => rotatedAt <= now
    BY DEF IInv, TypeOK, Tokens
<1>1. \A pc, t : rec(pc, t).pc = pc /\ rec(pc, t).token = t /\ rec(pc, t).at = at
    OBVIOUS
<1>2. \A pc \in Pcs, t \in Tokens : rec(pc, t) \in ReqType
    BY DEF ReqType
<1>3. CASE req' = [req EXCEPT ![r] = NoRequest]
  <2>1. NoRequest \in ReqType /\ Knows(NoRequest)
    BY <1>0 DEF NoRequest, ReqType, Pcs, Tokens, Knows
  <2> QED BY <1>3, <2>1, OneRequest
<1>4. CASE Judge(token) = "reuse" /\ req' = [req EXCEPT ![r] = rec("reuse", token)]
  <2>1. /\ token < current
        /\ outAt[token] # Never /\ now > outAt[token] + Grace
    <3>1. token # current /\ token < current
      BY <1>0, <1>4 DEF Judge
    <3>2. CASE token + 1 = current
      <4>1. ~InGrace
        BY <1>4, <3>1, <3>2 DEF Judge
      <4>2. outAt[token] = rotatedAt /\ rotatedAt # Never
        BY <1>0, <3>1, <3>2 DEF IInv, Chain
      <4> QED BY <1>0, <3>1, <4>1, <4>2 DEF InGrace
    <3>3. CASE token + 1 # current
      <4>1. token + 1 < current
        BY <1>0, <3>1, <3>3
      <4>2. outAt[token] # Never /\ outAt[token] + Grace < rotatedAt /\ rotatedAt # Never
        BY <1>0, <4>1 DEF IInv, Chain
      <4>3. outAt[token] \in Nat
        BY <1>0, <4>2 DEF IInv, TypeOK
      <4> QED BY <1>0, <3>1, <4>2, <4>3
    <3> QED BY <3>2, <3>3
  <2>2. Knows(rec("reuse", token))
    BY <1>0, <1>1, <2>1 DEF Knows
  <2> QED BY <1>0, <1>2, <1>4, <2>2, OneRequest DEF Pcs
<1>5. CASE req' = [req EXCEPT ![r] = rec("unusable", token)]
  <2>1. Knows(rec("unusable", token))
    BY <1>0, <1>1 DEF Knows
  <2> QED BY <1>0, <1>2, <1>5, <2>1, OneRequest DEF Pcs
<1>6. CASE req' = [req EXCEPT ![r] = rec("hand", current)]
  <2>1. Knows(rec("hand", current))
    BY <1>0, <1>1 DEF Knows
  <2> QED BY <1>0, <1>2, <1>6, <2>1, OneRequest DEF Pcs
<1>7. CASE Alive /\ Judge(token) = "rotate" /\ req' = [req EXCEPT ![r] = rec(IF req[r].pc = "again" THEN "broken" ELSE "rotate", token)]
  <2>1. token = current /\ ~InGrace
    BY <1>7 DEF Judge
  <2>2. req[r].pc # "again"
    BY <1>0, <1>7, <2>1 DEF Alive
  <2>3. Knows(rec("rotate", token))
    BY <1>0, <1>1, <2>1 DEF Knows
  <2> QED BY <1>0, <1>2, <1>7, <2>2, <2>3, OneRequest DEF Pcs
<1> QED BY <1>3, <1>4, <1>5, <1>6, <1>7 DEF Decide

(* Another rotation does not happen while a request that saw one is under way. *)
LEMMA RotateKnows ==
    ASSUME IInv, NEW r \in Requests, Rotate(r)
    PROVE  Requested' /\ Chain' /\ current' \in Tokens /\ req' \in [Requests -> ReqType']
<1> USE Constants
<1>0. /\ current \in Nat /\ now \in 0..MaxTime /\ rotatedAt \in 0..now \cup {Never}
      /\ outAt \in [Tokens -> 0..now \cup {Never}] /\ req \in [Requests -> ReqType] /\ current \in Tokens
    BY DEF IInv, TypeOK, Tokens, ReqType, Pcs
<1>1. /\ current' = current + 1 /\ rotatedAt' = now /\ now' = now /\ revoked' = revoked
      /\ outAt' = [outAt EXCEPT ![current] = now]
      /\ req[r].pc = "rotate" /\ req[r].token = current
      /\ req' = [req EXCEPT ![r].pc = "hand", ![r].token = current + 1]
    BY DEF Rotate
<1>2. ~InGrace
    BY <1>0, <1>1 DEF IInv, Requested, Knows, Replaced, ReqType, Tokens
<1>3. current > 0 => rotatedAt \in Nat /\ now > rotatedAt + Grace
    BY <1>0, <1>2 DEF IInv, Chain, InGrace
<1>4. current + 1 <= now + 1 /\ current' \in Tokens
  <2>1. current <= now
    BY <1>0, <1>3 DEF IInv, Chain
  <2> QED BY <1>0, <1>1, <2>1 DEF Tokens
<1>5. Chain'
  <2>1. current' > 0 /\ rotatedAt' # Never /\ outAt'[current' - 1] = rotatedAt' /\ current' <= rotatedAt' + 1
    BY <1>0, <1>1, <1>4
  <2>2. \A t \in Tokens : t + 1 < current' => outAt'[t] # Never /\ outAt'[t] + Grace < rotatedAt'
    <3> TAKE t \in Tokens
    <3> HAVE t + 1 < current'
    <3>1. t \in Nat /\ t < current /\ outAt'[t] = outAt[t] /\ current > 0
      BY <1>0, <1>1 DEF Tokens
    <3>2. CASE t + 1 = current
      <4>1. outAt[t] = rotatedAt
        BY <1>0, <3>1, <3>2 DEF IInv, Chain
      <4> QED BY <1>0, <1>1, <1>3, <3>1, <4>1
    <3>3. CASE t + 1 < current
      <4>1. outAt[t] # Never /\ outAt[t] + Grace < rotatedAt
        BY <3>3 DEF IInv, Chain
      <4>2. outAt[t] \in Nat
        BY <1>0, <4>1
      <4> QED BY <1>0, <1>1, <1>3, <3>1, <4>1, <4>2
    <3> QED BY <1>0, <3>1, <3>2, <3>3
  <2> QED BY <1>0, <1>1, <2>1, <2>2 DEF Chain, Tokens
<1>6. ReqType' = ReqType
    BY <1>1 DEF ReqType, Tokens
<1>7. /\ req'[r] = [req[r] EXCEPT !.pc = "hand", !.token = current + 1]
      /\ \A s \in Requests : s # r => req'[s] = req[s]
    BY <1>0, <1>1
<1>8. /\ req'[r].pc = "hand" /\ req'[r].token = current' /\ req'[r].at = req[r].at /\ req'[r] \in ReqType
      /\ now <= req[r].at + MaxDelay
    BY <1>0, <1>1, <1>4, <1>7 DEF ReqType, Pcs, IInv, Requested, Knows
<1>9. Knows(req[r])'
    BY <1>0, <1>1, <1>8 DEF Knows
<1>10. ASSUME NEW s \in Requests, s # r PROVE Knows(req[s])'
  <2>1. req'[s] = req[s] /\ Knows(req[s]) /\ req[s].token \in Nat /\ req[s].at \in 0..now
    BY <1>0, <1>7, <1>10 DEF IInv, Requested, ReqType, Tokens
  <2>2. req[s].pc # "idle" => ~Replaced(req[s])
    BY <1>0, <1>3, <2>1 DEF Knows, Replaced
  <2>3. req[s].pc = "reuse" => outAt'[req[s].token] = outAt[req[s].token]
    BY <1>0, <1>1, <2>1 DEF Knows
  <2> QED BY <1>0, <1>1, <2>1, <2>2, <2>3 DEF Knows, Replaced
<1>11. Requested'
    BY <1>9, <1>10 DEF Requested
<1>12. req' \in [Requests -> ReqType']
    BY <1>0, <1>1, <1>6, <1>7, <1>8
<1> QED BY <1>4, <1>5, <1>11, <1>12

LEMMA RequestsNext ==
    ASSUME IInv, [Next]_vars
    PROVE  Requested' /\ Chain' /\ current' \in Tokens /\ req' \in [Requests -> ReqType']
<1> USE Constants
<1>0. /\ current \in Tokens /\ current \in Nat /\ now \in Nat
      /\ rotatedAt \in Nat \cup {Never} /\ (rotatedAt # Never => rotatedAt <= now)
      /\ outAt \in [Tokens -> 0..now \cup {Never}] /\ req \in [Requests -> ReqType]
    BY DEF IInv, TypeOK, Tokens, ReqType, Pcs
<1>1. ASSUME UNCHANGED <<current, rotatedAt, outAt>> PROVE Chain' /\ current' \in Tokens
    BY <1>0, <1>1 DEF IInv, Chain, Tokens
<1>2. ASSUME UNCHANGED <<now, current, rotatedAt, outAt, req>>, revoked => revoked'
      PROVE  Requested' /\ req' \in [Requests -> ReqType']
    BY <1>0, <1>2 DEF IInv, Requested, Knows, Replaced, InGrace, ReqType, Tokens
<1>3. CASE \E r \in Requests : Refresh(r)
  <2> PICK r \in Requests : Refresh(r)
    BY <1>3
  <2>1. UNCHANGED <<now, current, rotatedAt, revoked, outAt>>
    BY DEF Refresh, rowVars, history
  <2>2. PICK token \in 0..current : Decide(r, token, now)
    BY DEF Refresh
  <2>3. req[r].pc = "idle" /\ now \in 0..now /\ now <= now + MaxDelay
    BY <1>0 DEF Refresh
  <2> QED BY <1>1, <2>1, <2>2, <2>3, DecideKnows
<1>4. CASE \E r \in Requests : Rotate(r)
    BY <1>4, RotateKnows
<1>5. CASE \E r \in Requests : LoseRotation(r)
  <2> PICK r \in Requests : LoseRotation(r)
    BY <1>5
  <2>1. UNCHANGED <<now, current, rotatedAt, revoked, outAt>> /\ req' = [req EXCEPT ![r] = [req[r] EXCEPT !.pc = "again"]]
    BY <1>0 DEF LoseRotation, rowVars, history
  <2>2. req[r].pc = "rotate" /\ (current # req[r].token \/ revoked) /\ req[r] \in ReqType /\ Knows(req[r])
    BY <1>0 DEF LoseRotation, IInv, Requested
  <2>3. [req[r] EXCEPT !.pc = "again"] \in ReqType
    BY <2>2 DEF ReqType, Pcs
  <2>4. Knows([req[r] EXCEPT !.pc = "again"])
    BY <1>0, <2>2 DEF Knows, Replaced, ReqType
  <2> QED BY <1>1, <2>1, <2>3, <2>4, OneRequest
<1>6. CASE \E r \in Requests : DecideAgain(r)
  <2> PICK r \in Requests : DecideAgain(r)
    BY <1>6
  <2>1. UNCHANGED <<now, current, rotatedAt, revoked, outAt>>
    BY DEF DecideAgain, rowVars, history
  <2>2. req[r].pc = "again" /\ Decide(r, req[r].token, req[r].at) /\ req[r] \in ReqType /\ Knows(req[r])
    BY <1>0 DEF DecideAgain, IInv, Requested
  <2>3. req[r].token \in 0..current /\ req[r].at \in 0..now /\ now <= req[r].at + MaxDelay
    BY <1>0, <2>2 DEF Knows, ReqType, Tokens
  <2>4. revoked \/ (current > 0 /\ req[r].token + 1 = current /\ rotatedAt >= req[r].at)
    BY <2>2 DEF Knows, Replaced
  <2> QED BY <1>1, <2>1, <2>2, <2>3, <2>4, DecideKnows
<1>7. CASE \E r \in Requests : RevokeOne(r) \/ Answer(r)
  <2> PICK r \in Requests : RevokeOne(r) \/ Answer(r)
    BY <1>7
  <2>1. /\ UNCHANGED <<now, current, rotatedAt, outAt>>
        /\ req' = [req EXCEPT ![r] = NoRequest]
        /\ revoked => revoked'
    BY DEF RevokeOne, Answer, Revoke, rowVars, history
  <2>2. NoRequest \in ReqType /\ NoRequest.pc = "idle" /\ NoRequest.token = 0
    BY <1>0 DEF NoRequest, ReqType, Pcs, Tokens
  <2>3. \A s \in Requests : req'[s] = IF s = r THEN NoRequest ELSE req[s]
    BY <1>0, <2>1
  <2>4. ASSUME NEW s \in Requests PROVE Knows(req[s])'
    <3>1. CASE s = r
      BY <1>0, <2>1, <2>2, <2>3, <3>1 DEF Knows
    <3>2. CASE s # r
      BY <2>1, <2>3, <3>2 DEF IInv, Requested, Knows, Replaced, InGrace
    <3> QED BY <3>1, <3>2
  <2>5. Requested'
    BY <2>4 DEF Requested
  <2>6. req' \in [Requests -> ReqType']
    BY <1>0, <2>1, <2>2 DEF ReqType, Tokens
  <2> QED BY <1>1, <2>1, <2>5, <2>6
<1>8. CASE Logout \/ DisableOwner \/ EnableOwner \/ ChangeRole \/ DropCached
  <2>1. UNCHANGED <<now, current, rotatedAt, outAt, req>> /\ (revoked => revoked')
    BY <1>8 DEF Logout, DisableOwner, EnableOwner, ChangeRole, DropCached, Revoke, rowVars, history
  <2> QED BY <1>1, <1>2, <2>1
<1>9. CASE \E c \in Checks : CheckCached(c) \/ LoadSnapshot(c) \/ FillCache(c) \/ Respond(c)
  <2>1. UNCHANGED <<now, current, rotatedAt, outAt, req, revoked>>
    BY <1>9 DEF CheckCached, LoadSnapshot, FillCache, Respond, rowVars, history
  <2> QED BY <1>1, <1>2, <2>1
<1>10. CASE Tick
  <2>1. UNCHANGED <<current, rotatedAt, outAt, req, revoked>> /\ now' = now + 1
    BY <1>10 DEF Tick, rowVars, history
  <2>2. ReqType \subseteq ReqType'
    BY <1>0, <2>1 DEF ReqType, Tokens
  <2>3. ASSUME NEW r \in Requests PROVE Knows(req[r])'
    <3>1. Knows(req[r]) /\ req'[r] = req[r] /\ req[r].token \in Nat /\ req[r].at \in Nat
      BY <1>0, <2>1 DEF IInv, Requested, ReqType, Tokens
    <3>2. req[r].pc # "idle" => now' <= req[r].at + MaxDelay
      BY <1>0, <1>10, <2>1, <3>1 DEF Tick
    <3>3. ~InGrace => ~InGrace'
      BY <1>0, <2>1 DEF InGrace
    <3>4. req[r].pc = "reuse" => outAt[req[r].token] \in Nat
      BY <1>0, <3>1 DEF Knows, Tokens, ReqType
    <3> QED BY <1>0, <2>1, <3>1, <3>2, <3>3, <3>4 DEF Knows, Replaced
  <2> QED BY <1>0, <1>1, <2>1, <2>2, <2>3 DEF Requested
<1>11. CASE UNCHANGED vars
    BY <1>1, <1>2, <1>11 DEF vars, rowVars, history
<1> QED BY <1>3, <1>4, <1>5, <1>6, <1>7, <1>8, <1>9, <1>10, <1>11 DEF Next

-----------------------------------------------------------------------------
(* The snapshots of the cache *)

LEMMA EndsType ==
    ASSUME endedAt \in [Versions -> 0..now \cup {Never}], now \in Nat, NEW vs, Ends(vs)
    PROVE  /\ endedAt' \in [Versions -> 0..now \cup {Never}]
           /\ \A v \in Versions : endedAt'[v] = IF v \in vs /\ endedAt[v] = Never THEN now ELSE endedAt[v]
BY DEF Ends

(* Ending tokens now leaves every snapshot and every admission early enough. *)
LEMMA EndingIsFresh ==
    ASSUME IInv, NEW vs, Ends(vs),
           cache' \in {cache, Empty}, UNCHANGED <<now, chk>>,
           ~revoked' => ver' \in Versions /\ ~revoked /\ ver' >= ver /\ \A v \in Versions : v >= ver' => v \notin vs
    PROVE  Fresh' /\ AdmitFresh' /\ endedAt' \in [Versions -> 0..now' \cup {Never}]
<1> USE Constants
<1>0. /\ now \in Nat /\ endedAt \in [Versions -> 0..now \cup {Never}] /\ chk \in [Checks -> ChkType]
      /\ cache \in [snap : Snapshots \cup {Never}, until : Nat] /\ ver \in Versions
      /\ \A v \in Versions : v \in Nat
    BY DEF IInv, TypeOK, ChkType, Versions
<1>1. /\ endedAt' \in [Versions -> 0..now \cup {Never}]
      /\ \A v \in Versions : endedAt'[v] = IF v \in vs /\ endedAt[v] = Never THEN now ELSE endedAt[v]
    BY <1>0, EndsType
<1>2. ~revoked' => \A v \in Versions : v >= ver' => endedAt'[v] = Never
  <2> SUFFICES ASSUME ~revoked', NEW v \in Versions, v >= ver' PROVE endedAt'[v] = Never
    OBVIOUS
  <2>1. ver' \in Nat /\ ver \in Nat /\ v \in Nat /\ v >= ver
    BY <1>0
  <2> QED BY <1>1, <2>1 DEF IInv, Fresh
<1>3. cache'.until <= now + CacheTTL /\ cache'.snap \in Snapshots \cup {Never}
    BY <1>0 DEF IInv, Fresh, Empty
<1>4. cache'.snap # Never /\ cache'.snap.good /\ endedAt'[cache'.snap.ver] # Never =>
         cache'.until <= endedAt'[cache'.snap.ver] + CacheTTL + MaxDelay
  <2> SUFFICES ASSUME cache'.snap # Never, cache'.snap.good, endedAt'[cache'.snap.ver] # Never
               PROVE  cache'.until <= endedAt'[cache'.snap.ver] + CacheTTL + MaxDelay
    OBVIOUS
  <2>1. cache' = cache /\ cache.snap.ver \in Versions /\ cache.until \in Nat
    BY <1>0, <1>3 DEF Empty, Snapshots
  <2>2. CASE endedAt[cache.snap.ver] = Never
    BY <1>0, <1>1, <1>3, <2>1, <2>2
  <2>3. CASE endedAt[cache.snap.ver] # Never
    BY <1>0, <1>1, <2>1, <2>3 DEF IInv, Fresh
  <2> QED BY <2>2, <2>3
<1>5. ASSUME NEW c \in Checks, chk[c].pc = "loaded"
      PROVE  /\ now <= chk[c].at + MaxDelay /\ chk[c].snap \in Snapshots
             /\ chk[c].snap.good /\ endedAt'[chk[c].snap.ver] # Never => chk[c].at <= endedAt'[chk[c].snap.ver]
  <2>1. /\ now <= chk[c].at + MaxDelay /\ chk[c].snap \in Snapshots
        /\ chk[c].snap.good /\ endedAt[chk[c].snap.ver] # Never => chk[c].at <= endedAt[chk[c].snap.ver]
    BY <1>5 DEF IInv, Fresh
  <2>2. chk[c].snap.ver \in Versions /\ chk[c].at \in 0..now
    BY <1>0, <2>1 DEF Snapshots, ChkType
  <2> QED BY <1>0, <1>1, <2>1, <2>2
<1>6. ASSUME NEW c \in Checks, chk[c].pc = "admitted", endedAt'[chk[c].ver] # Never
      PROVE  chk[c].at <= endedAt'[chk[c].ver] + CacheTTL + MaxDelay
  <2>1. chk[c].ver \in Versions /\ chk[c].at \in 0..now
    BY <1>0 DEF ChkType
  <2>2. CASE endedAt[chk[c].ver] = Never
    BY <1>0, <1>1, <1>6, <2>1, <2>2
  <2>3. CASE endedAt[chk[c].ver] # Never
    BY <1>0, <1>1, <1>6, <2>1, <2>3 DEF IInv, AdmitFresh
  <2> QED BY <2>2, <2>3
<1> QED BY <1>1, <1>2, <1>3, <1>4, <1>5, <1>6 DEF Fresh, AdmitFresh

(* A step that ends nothing and leaves the checks and the cache alone, or drops the snapshot. *)
LEMMA NothingEnds ==
    ASSUME IInv, UNCHANGED <<now, chk, endedAt, ver>>, cache' \in {cache, Empty}, revoked => revoked'
    PROVE  Fresh' /\ AdmitFresh' /\ endedAt' \in [Versions -> 0..now' \cup {Never}]
<1> USE Constants
<1>0. now \in Nat /\ endedAt \in [Versions -> 0..now \cup {Never}]
    BY DEF IInv, TypeOK
<1>1. cache' = cache \/ (cache'.snap = Never /\ cache'.until = 0)
    BY DEF Empty
<1>2. cache'.until <= now + CacheTTL
    BY <1>0, <1>1 DEF IInv, Fresh
<1>3. cache'.snap # Never => cache' = cache
    BY <1>1
<1>4. ~revoked' => \A v \in Versions : v >= ver => endedAt[v] = Never
    BY DEF IInv, Fresh
<1>5. Fresh'
  <2>1. cache'.snap # Never /\ cache'.snap.good /\ endedAt[cache'.snap.ver] # Never =>
           cache'.until <= endedAt[cache'.snap.ver] + CacheTTL + MaxDelay
    BY <1>3 DEF IInv, Fresh
  <2>2. \A c \in Checks : chk[c].pc = "loaded" =>
         /\ now <= chk[c].at + MaxDelay
         /\ chk[c].snap \in Snapshots
         /\ chk[c].snap.good /\ endedAt[chk[c].snap.ver] # Never => chk[c].at <= endedAt[chk[c].snap.ver]
    BY DEF IInv, Fresh
  <2> QED BY <1>2, <1>4, <2>1, <2>2 DEF Fresh
<1>6. AdmitFresh'
    BY DEF IInv, AdmitFresh
<1> QED BY <1>0, <1>5, <1>6

(* A check that reads or writes the cache ends nothing. *)
LEMMA CheckIsFresh ==
    ASSUME IInv, NEW c \in Checks, NEW q,
           UNCHANGED <<now, endedAt, ver, revoked, active>>,
           chk' = [chk EXCEPT ![c] = q], q \in ChkType,
           q.pc = "loaded" =>
             /\ now <= q.at + MaxDelay
             /\ q.snap \in Snapshots
             /\ q.snap.good /\ endedAt[q.snap.ver] # Never => q.at <= endedAt[q.snap.ver],
           q.pc = "admitted" /\ endedAt[q.ver] # Never => q.at <= endedAt[q.ver] + CacheTTL + MaxDelay,
           cache'.until <= now + CacheTTL,
           cache'.snap # Never /\ cache'.snap.good /\ endedAt[cache'.snap.ver] # Never =>
             cache'.until <= endedAt[cache'.snap.ver] + CacheTTL + MaxDelay
    PROVE  Fresh' /\ AdmitFresh' /\ chk' \in [Checks -> ChkType']
<1>1. chk \in [Checks -> ChkType] /\ ChkType' = ChkType
    BY DEF IInv, TypeOK, ChkType, Versions, Snapshots
<1>2. \A d \in Checks : chk'[d] = IF d = c THEN q ELSE chk[d]
    BY <1>1
<1>3. ~revoked' => \A v \in Versions : v >= ver => endedAt[v] = Never
    BY DEF IInv, Fresh
<1>4. \A d \in Checks : chk'[d].pc = "loaded" =>
         /\ now <= chk'[d].at + MaxDelay
         /\ chk'[d].snap \in Snapshots
         /\ chk'[d].snap.good /\ endedAt[chk'[d].snap.ver] # Never => chk'[d].at <= endedAt[chk'[d].snap.ver]
    BY <1>2 DEF IInv, Fresh
<1>5. \A d \in Checks : chk'[d].pc = "admitted" /\ endedAt[chk'[d].ver] # Never =>
         chk'[d].at <= endedAt[chk'[d].ver] + CacheTTL + MaxDelay
    BY <1>2 DEF IInv, AdmitFresh
<1>6. Fresh'
    BY <1>3, <1>4 DEF Fresh
<1>7. AdmitFresh'
    BY <1>5 DEF AdmitFresh
<1> QED BY <1>1, <1>6, <1>7

(* An access token is admitted on a snapshot of the version it carries. *)
LEMMA JudgedType ==
    ASSUME IInv, NEW c \in Checks, NEW snap \in Snapshots, NEW v \in Versions, Judged(c, snap, v)
    PROVE  \E q \in ChkType :
             /\ chk' = [chk EXCEPT ![c] = q]
             /\ q.pc \in {"idle", "admitted"}
             /\ q.pc = "admitted" => snap.good /\ snap.ver = v /\ q.ver = v /\ q.at = now
<1> USE Constants
<1> DEFINE q == IF Admits(snap, v) THEN [NoCheck EXCEPT !.pc = "admitted", !.ver = v, !.at = now] ELSE NoCheck
<1>1. now \in Nat /\ 0 \in Versions
    BY DEF IInv, TypeOK, Versions
<1>2. chk' = [chk EXCEPT ![c] = q]
    BY DEF Judged
<1>3. NoCheck \in ChkType /\ NoCheck.pc = "idle"
    BY <1>1 DEF NoCheck, ChkType
<1>4. CASE Admits(snap, v)
  <2>1. q = [NoCheck EXCEPT !.pc = "admitted", !.ver = v, !.at = now]
    BY <1>4
  <2>2. q = [pc |-> "admitted", ver |-> v, at |-> now, snap |-> Never]
    BY <2>1 DEF NoCheck
  <2>3. now \in 0..now
    BY <1>1
  <2>4. [pc |-> "admitted", ver |-> v, at |-> now, snap |-> Never] \in ChkType
    BY <2>3 DEF ChkType
  <2>5. q \in ChkType /\ q.pc = "admitted" /\ q.ver = v /\ q.at = now
    BY <2>2, <2>4
  <2> QED BY <1>2, <1>4, <2>5 DEF Admits
<1>5. CASE ~Admits(snap, v)
  <2>1. q = NoCheck
    BY <1>5
  <2> QED BY <1>2, <1>3, <2>1
<1> QED BY <1>4, <1>5

LEMMA ChecksNext ==
    ASSUME IInv, NEW c \in Checks, CheckCached(c) \/ LoadSnapshot(c) \/ FillCache(c) \/ Respond(c)
    PROVE  /\ Fresh' /\ AdmitFresh' /\ chk' \in [Checks -> ChkType']
           /\ cache' \in [snap : Snapshots \cup {Never}, until : Nat]
<1> USE Constants
<1>0. /\ now \in Nat /\ endedAt \in [Versions -> 0..now \cup {Never}] /\ chk \in [Checks -> ChkType]
      /\ cache \in [snap : Snapshots \cup {Never}, until : Nat] /\ ver \in Versions
      /\ idleAt \in Nat /\ revoked \in BOOLEAN /\ active \in BOOLEAN
      /\ \A v \in 0..ver : v \in Versions
    BY DEF IInv, TypeOK, ChkType, Versions
<1>1. UNCHANGED <<now, endedAt, ver, revoked, active>>
    BY DEF CheckCached, LoadSnapshot, FillCache, Respond, rowVars, history
<1>2. /\ cache.until <= now + CacheTTL
      /\ cache.snap # Never /\ cache.snap.good /\ endedAt[cache.snap.ver] # Never =>
           cache.until <= endedAt[cache.snap.ver] + CacheTTL + MaxDelay
    BY DEF IInv, Fresh
<1>3. CASE CheckCached(c)
  <2>1. cache' = cache /\ cache.snap \in Snapshots /\ now < cache.until
    BY <1>0, <1>3 DEF CheckCached, Cached
  <2>2. PICK v \in Versions : Judged(c, cache.snap, v)
    BY <1>0, <1>3 DEF CheckCached
  <2>3. PICK q \in ChkType :
             /\ chk' = [chk EXCEPT ![c] = q]
             /\ q.pc \in {"idle", "admitted"}
             /\ q.pc = "admitted" => cache.snap.good /\ cache.snap.ver = v /\ q.ver = v /\ q.at = now
    BY <2>1, <2>2, JudgedType
  <2>4. q.pc = "admitted" /\ endedAt[q.ver] # Never => q.at <= endedAt[q.ver] + CacheTTL + MaxDelay
    <3> SUFFICES ASSUME q.pc = "admitted", endedAt[q.ver] # Never
                 PROVE  q.at <= endedAt[q.ver] + CacheTTL + MaxDelay
      OBVIOUS
    <3>1. cache.snap # Never /\ cache.snap.good /\ cache.snap.ver = q.ver /\ q.at = now /\ q.ver \in Versions
      BY <2>1, <2>3 DEF Snapshots
    <3>2. endedAt[q.ver] \in Nat /\ cache.until \in Nat
      BY <1>0, <3>1
    <3> QED BY <1>0, <1>2, <2>1, <3>1, <3>2
  <2>5. q.pc # "loaded"
    BY <2>3
  <2> QED BY <1>0, <1>1, <1>2, <2>1, <2>3, <2>4, <2>5, CheckIsFresh
<1>4. CASE LoadSnapshot(c)
  <2>1. Snapshot \in Snapshots /\ Snapshot.ver = ver /\ Snapshot.good = (~revoked /\ active)
    BY <1>0 DEF Snapshot, Snapshots
  <2>2. PICK v \in Versions : chk' = [chk EXCEPT ![c] = [pc |-> "loaded", ver |-> v, at |-> now, snap |-> Snapshot]]
    BY <1>0, <1>4 DEF LoadSnapshot
  <2> DEFINE q == [pc |-> "loaded", ver |-> v, at |-> now, snap |-> Snapshot]
  <2>3. q \in ChkType /\ q.pc = "loaded" /\ q.at = now /\ q.snap = Snapshot
    BY <1>0, <2>1, <2>2 DEF ChkType
  <2>4. Snapshot.good => endedAt[Snapshot.ver] = Never
    <3>1. ver >= ver
      BY <1>0 DEF Versions
    <3>2. ~revoked => endedAt[ver] = Never
      BY <1>0, <3>1 DEF IInv, Fresh
    <3> QED BY <2>1, <3>2
  <2>5. cache' = cache
    BY <1>4 DEF LoadSnapshot
  <2>6. q.pc = "loaded" =>
             /\ now <= q.at + MaxDelay
             /\ q.snap \in Snapshots
             /\ q.snap.good /\ endedAt[q.snap.ver] # Never => q.at <= endedAt[q.snap.ver]
    BY <1>0, <2>1, <2>3, <2>4
  <2>7. q.pc # "admitted" /\ chk' = [chk EXCEPT ![c] = q]
    BY <2>2
  <2> HIDE DEF q
  <2> QED BY <1>0, <1>1, <1>2, <2>3, <2>5, <2>6, <2>7, CheckIsFresh
<1>5. CASE FillCache(c)
  <2>1. /\ now <= chk[c].at + MaxDelay /\ chk[c].snap \in Snapshots
        /\ chk[c].snap.good /\ endedAt[chk[c].snap.ver] # Never => chk[c].at <= endedAt[chk[c].snap.ver]
    BY <1>5 DEF FillCache, IInv, Fresh
  <2>2. chk[c].ver \in Versions /\ chk[c].at \in 0..now /\ chk[c].at \in Nat /\ chk[c].snap.ver \in Versions /\ chk[c].snap # Never
    BY <1>0, <2>1 DEF ChkType, Snapshots
  <2>3. PICK q \in ChkType :
             /\ chk' = [chk EXCEPT ![c] = q]
             /\ q.pc \in {"idle", "admitted"}
             /\ q.pc = "admitted" => chk[c].snap.good /\ chk[c].snap.ver = chk[c].ver /\ q.ver = chk[c].ver /\ q.at = now
    BY <1>5, <2>1, <2>2, JudgedType DEF FillCache
  <2>4. endedAt[chk[c].snap.ver] # Never => endedAt[chk[c].snap.ver] \in Nat
    BY <1>0, <2>2
  <2>5. q.pc = "admitted" /\ endedAt[q.ver] # Never => q.at <= endedAt[q.ver] + CacheTTL + MaxDelay
    BY <1>0, <2>1, <2>2, <2>3, <2>4
  <2>6. cache' = cache \/ cache' = [snap |-> chk[c].snap, until |-> now + CacheTTL]
    BY <1>5 DEF FillCache
  <2>7. /\ cache' \in [snap : Snapshots \cup {Never}, until : Nat]
        /\ cache'.until <= now + CacheTTL
        /\ cache'.snap # Never /\ cache'.snap.good /\ endedAt[cache'.snap.ver] # Never =>
             cache'.until <= endedAt[cache'.snap.ver] + CacheTTL + MaxDelay
    <3>1. CASE cache' = cache
      BY <1>0, <1>2, <3>1
    <3>2. CASE cache' = [snap |-> chk[c].snap, until |-> now + CacheTTL]
      <4>1. cache'.snap = chk[c].snap /\ cache'.until = now + CacheTTL
        BY <3>2
      <4>2. cache' \in [snap : Snapshots \cup {Never}, until : Nat]
        BY <1>0, <2>1, <3>2
      <4>3. cache'.snap.good /\ endedAt[cache'.snap.ver] # Never =>
               cache'.until <= endedAt[cache'.snap.ver] + CacheTTL + MaxDelay
        BY <1>0, <2>1, <2>2, <2>4, <4>1
      <4> QED BY <1>0, <4>1, <4>2, <4>3
    <3> QED BY <2>6, <3>1, <3>2
  <2>8. q.pc # "loaded"
    BY <2>3
  <2> QED BY <1>1, <2>3, <2>5, <2>7, <2>8, CheckIsFresh
<1>6. CASE Respond(c)
  <2>1. NoCheck \in ChkType /\ NoCheck.pc = "idle" /\ chk' = [chk EXCEPT ![c] = NoCheck] /\ cache' = cache
    BY <1>0, <1>6 DEF NoCheck, ChkType, Versions, Respond
  <2>2. NoCheck.pc # "loaded" /\ NoCheck.pc # "admitted"
    BY <2>1
  <2> QED BY <1>0, <1>1, <1>2, <2>1, <2>2, CheckIsFresh
<1> QED BY <1>3, <1>4, <1>5, <1>6

LEMMA CacheNext ==
    ASSUME IInv, [Next]_vars
    PROVE  /\ Fresh' /\ AdmitFresh' /\ chk' \in [Checks -> ChkType']
           /\ cache' \in [snap : Snapshots \cup {Never}, until : Nat]
           /\ endedAt' \in [Versions -> 0..now' \cup {Never}]
<1> USE Constants
<1>0. /\ now \in Nat /\ endedAt \in [Versions -> 0..now \cup {Never}] /\ chk \in [Checks -> ChkType]
      /\ cache \in [snap : Snapshots \cup {Never}, until : Nat] /\ ver \in Versions
      /\ Empty \in [snap : Snapshots \cup {Never}, until : Nat]
    BY DEF IInv, TypeOK, ChkType, Versions, Empty
<1>1. ASSUME UNCHANGED <<now, chk>>, cache' \in {cache, Empty}
      PROVE  chk' \in [Checks -> ChkType'] /\ cache' \in [snap : Snapshots \cup {Never}, until : Nat]
    BY <1>0, <1>1 DEF ChkType, Versions, Snapshots
<1>2. CASE (\E r \in Requests : RevokeOne(r)) \/ Logout \/ DisableOwner
  <2>1. revoked' /\ Ends(Versions) /\ UNCHANGED <<now, chk, cache>>
    BY <1>2 DEF RevokeOne, Logout, DisableOwner, Revoke
  <2> QED BY <1>1, <2>1, EndingIsFresh
<1>3. CASE ChangeRole
  <2>1. Ends({ver}) /\ UNCHANGED <<now, chk, cache, revoked>> /\ ver' = ver + 1 /\ ver < MaxVer
    BY <1>3 DEF ChangeRole
  <2>2. ver' \in Versions /\ ver' >= ver /\ \A v \in Versions : v >= ver' => v \notin {ver}
    BY <1>0, <2>1 DEF Versions
  <2>3. ~revoked' => ver' \in Versions /\ ~revoked /\ ver' >= ver /\ \A v \in Versions : v >= ver' => v \notin {ver}
    BY <2>1, <2>2
  <2> QED BY <1>1, <2>1, <2>3, EndingIsFresh
<1>4. CASE \/ \E r \in Requests : Refresh(r) \/ Rotate(r) \/ LoseRotation(r) \/ DecideAgain(r) \/ Answer(r)
           \/ EnableOwner \/ DropCached \/ UNCHANGED vars
  <2>1. UNCHANGED <<now, chk, endedAt, ver, revoked>> /\ cache' \in {cache, Empty}
    BY <1>4 DEF Refresh, Rotate, LoseRotation, DecideAgain, Answer, EnableOwner, DropCached, vars, rowVars, history
  <2> QED BY <1>1, <2>1, NothingEnds
<1>5. CASE \E c \in Checks : CheckCached(c) \/ LoadSnapshot(c) \/ FillCache(c) \/ Respond(c)
  <2>1. UNCHANGED <<now, endedAt>>
    BY <1>5 DEF CheckCached, LoadSnapshot, FillCache, Respond, history
  <2> QED BY <1>0, <1>5, <2>1, ChecksNext
<1>6. CASE Tick
  <2>1. /\ UNCHANGED <<chk, cache, endedAt, ver, revoked>> /\ now' = now + 1
        /\ \A c \in Checks : chk[c].pc = "loaded" => now < chk[c].at + MaxDelay
    BY <1>6 DEF Tick, rowVars, history
  <2>2. ChkType \subseteq ChkType' /\ endedAt' \in [Versions -> 0..now' \cup {Never}]
    BY <1>0, <2>1 DEF ChkType, Versions, Snapshots
  <2>3. \A c \in Checks : chk[c].pc = "loaded" => now' <= chk[c].at + MaxDelay
    BY <1>0, <2>1 DEF ChkType
  <2>4. cache.until <= now' + CacheTTL
    BY <1>0, <2>1 DEF IInv, Fresh
  <2>5. Fresh'
    BY <2>1, <2>3, <2>4 DEF IInv, Fresh
  <2>6. AdmitFresh'
    BY <2>1 DEF IInv, AdmitFresh
  <2> QED BY <1>0, <2>1, <2>2, <2>5, <2>6
<1> QED BY <1>2, <1>3, <1>4, <1>5, <1>6 DEF Next

-----------------------------------------------------------------------------
THEOREM IInvNext == IInv /\ [Next]_vars => IInv'
<1> SUFFICES ASSUME IInv, [Next]_vars PROVE IInv'
    OBVIOUS
<1> USE Constants
<1>1. Requested' /\ Chain' /\ current' \in Tokens /\ req' \in [Requests -> ReqType']
    BY RequestsNext
<1>2. /\ Fresh' /\ AdmitFresh' /\ chk' \in [Checks -> ChkType']
      /\ cache' \in [snap : Snapshots \cup {Never}, until : Nat]
      /\ endedAt' \in [Versions -> 0..now' \cup {Never}]
    BY CacheNext
<1>3. /\ now \in 0..MaxTime /\ rotatedAt \in 0..now \cup {Never} /\ idleAt \in 0..Absolute
      /\ ver \in Versions /\ outAt \in [Tokens -> 0..now \cup {Never}]
      /\ revoked \in BOOLEAN /\ active \in BOOLEAN /\ drops \in BOOLEAN
    BY DEF IInv, TypeOK
<1>4. /\ now' \in 0..MaxTime /\ rotatedAt' \in 0..now' \cup {Never} /\ idleAt' \in 0..Absolute
      /\ ver' \in Versions /\ outAt' \in [Tokens -> 0..now' \cup {Never}]
      /\ revoked' \in BOOLEAN /\ active' \in BOOLEAN /\ drops' \in BOOLEAN
  <2>1. CASE \E r \in Requests : Rotate(r)
    <3>1. /\ UNCHANGED <<now, ver, revoked, active>> /\ rotatedAt' = now /\ drops' = TRUE
          /\ outAt' = [outAt EXCEPT ![current] = now] /\ idleAt' = Min(now + IdleTime, Absolute)
      BY <2>1 DEF Rotate
    <3>2. now \in 0..now /\ now \in Nat /\ idleAt' \in 0..Absolute
      BY <1>3, <3>1 DEF Min
    <3> QED BY <1>3, <3>1, <3>2
  <2>2. CASE \/ \E r \in Requests : Refresh(r) \/ LoseRotation(r) \/ DecideAgain(r) \/ RevokeOne(r) \/ Answer(r)
             \/ Logout \/ EnableOwner \/ DropCached \/ UNCHANGED vars
             \/ \E c \in Checks : CheckCached(c) \/ LoadSnapshot(c) \/ FillCache(c) \/ Respond(c)
    <3>1. /\ UNCHANGED <<now, rotatedAt, idleAt, ver, outAt>>
          /\ revoked' \in {revoked, TRUE} /\ active' \in {active, TRUE} /\ drops' \in {drops, TRUE, FALSE}
      BY <2>2 DEF Refresh, LoseRotation, DecideAgain, RevokeOne, Answer, Logout, EnableOwner, DropCached, Revoke,
                  CheckCached, LoadSnapshot, FillCache, Respond, vars, rowVars, history
    <3> QED BY <1>3, <3>1
  <2>3. CASE DisableOwner
    <3>1. /\ UNCHANGED <<now, rotatedAt, idleAt, outAt>>
          /\ revoked' = TRUE /\ active' = FALSE /\ drops' = TRUE /\ ver' = ver + 1 /\ ver < MaxVer
      BY <2>3 DEF DisableOwner, Revoke
    <3>2. ver' \in Versions
      BY <1>3, <3>1 DEF Versions
    <3> QED BY <1>3, <3>1, <3>2
  <2>4. CASE ChangeRole
    <3>1. drops' = (drops \/ ~revoked) /\ UNCHANGED <<now, rotatedAt, idleAt, outAt, revoked, active>> /\ ver' \in Versions
      BY <1>3, <2>4 DEF ChangeRole, Versions
    <3>2. drops' \in BOOLEAN
      BY <3>1
    <3> QED BY <1>3, <3>1, <3>2
  <2>5. CASE Tick
    <3>1. UNCHANGED <<rotatedAt, idleAt, ver, outAt, revoked, active, drops>> /\ now' = now + 1 /\ now < MaxTime
      BY <2>5 DEF Tick, rowVars, history
    <3> QED BY <1>3, <3>1
  <2> QED BY <2>1, <2>2, <2>3, <2>4, <2>5 DEF Next
<1>5. TypeOK'
    BY <1>1, <1>2, <1>4 DEF TypeOK, ReqType, ChkType, Pcs, Versions, Snapshots
<1> QED BY <1>1, <1>2, <1>5 DEF IInv

(* A request relies on a grace period that covers the time it takes. *)
LEMMA InGraceOf ==
    ASSUME IInv, NEW r \in Requests, req[r].pc # "idle", Replaced(req[r])
    PROVE  req[r].token + 1 = current /\ InGrace
<1> USE Constants
<1>1. /\ now \in Nat /\ rotatedAt \in Nat \cup {Never} /\ current \in Nat
      /\ req[r].at \in Nat /\ now <= req[r].at + MaxDelay
    BY DEF IInv, TypeOK, Tokens, Requested, Knows
<1>2. rotatedAt \in Nat /\ rotatedAt >= req[r].at /\ req[r].token + 1 = current
    BY <1>1 DEF Replaced, IInv, Chain
<1> QED BY <1>1, <1>2 DEF InGrace

LEMMA IInvImplies == IInv => ReuseIsOld /\ LostRotationIsSafe /\ HandedIsUsable
<1> SUFFICES ASSUME IInv PROVE ReuseIsOld /\ LostRotationIsSafe /\ HandedIsUsable
    OBVIOUS
<1>1. \A r \in Requests : Knows(req[r])
    BY DEF IInv, Requested
<1>2. ReuseIsOld
    BY <1>1 DEF ReuseIsOld, Knows
<1>3. HandedIsUsable
  <2> SUFFICES ASSUME NEW r \in Requests, req[r].pc = "hand", req[r].token # current
               PROVE  req[r].token + 1 = current /\ InGrace
    BY DEF HandedIsUsable
  <2>1. Replaced(req[r])
    BY <1>1 DEF Knows
  <2> QED BY <2>1, InGraceOf
<1>4. LostRotationIsSafe
  <2> SUFFICES ASSUME NEW r \in Requests
               PROVE  /\ req[r].pc # "broken"
                      /\ req[r].pc = "again" /\ Alive => req[r].token + 1 = current /\ InGrace
    BY DEF LostRotationIsSafe
  <2>1. req[r].pc # "broken"
    BY <1>1 DEF Knows
  <2>2. ASSUME req[r].pc = "again", Alive PROVE req[r].token + 1 = current /\ InGrace
    <3>1. Replaced(req[r])
      BY <1>1, <2>2 DEF Knows, Alive
    <3> QED BY <2>2, <3>1, InGraceOf
  <2> QED BY <2>1, <2>2
<1> QED BY <1>2, <1>3, <1>4

THEOREM Invariance == Spec => []IInv
BY IInvInit, IInvNext, PTL DEF Spec

(* The row, the requests, the checks and the cache keep their types, and no rotation leads past the  *)
(* tokens there was time for: each waits for the grace period of the one before (auth/sessions.py).  *)
THEOREM TypeCorrect == Spec => []TypeOK
<1>1. IInv => TypeOK
    BY DEF IInv
<1> QED BY <1>1, Invariance, PTL

(* However many refreshes race, a session is ended for a reused token only when that token was        *)
(* replaced more than the grace period ago (K10; _judge).                                             *)
THEOREM ReuseDetected == Spec => []ReuseIsOld
BY Invariance, IInvImplies, PTL

(* A refresh that lost the race to rotate is answered with the winner's token, whenever a request is  *)
(* done within the grace period; the error at sessions.py:505 is not reached.                         *)
THEOREM LostRotations == Spec => []LostRotationIsSafe
BY Invariance, IInvImplies, PTL

(* The token in an answer is current, or in grace, when the answer leaves (C19; refresh_session). *)
THEOREM HandedTokens == Spec => []HandedIsUsable
BY Invariance, IInvImplies, PTL

(* A snapshot that a fill puts back after the drop, or that a failed drop left, admits an access      *)
(* token no longer than a fill and the TTL together (K34; _cached_snapshot, check_session).           *)
THEOREM Admission == Spec => []AdmitFresh
<1>1. IInv => AdmitFresh
    BY DEF IInv
<1> QED BY <1>1, Invariance, PTL

-----------------------------------------------------------------------------
(* The refinement of SessionPromise *)

(* Nothing that is remembered of the session's life is longer than it, and *)
(* a request that will rotate began before it was over.                    *)
Life ==
    /\ idleAt <= now + IdleTime
    /\ cache.snap # Never => cache.snap.idleAt <= idleAt
    /\ \A c \in Checks : chk[c].pc = "loaded" => chk[c].snap.idleAt <= idleAt
    /\ \A r \in Requests : req[r].pc = "rotate" /\ req[r].token = current => req[r].at < idleAt

LEMMA LifeInit == Init => Life
BY Constants DEF Init, Life, Min, Empty, NoCheck, NoRequest

(* What a decision makes of a request. *)
LEMMA DecisionIs ==
    ASSUME IInv, NEW r \in Requests, NEW token, NEW at, Decide(r, token, at)
    PROVE  \E q : /\ req' = [req EXCEPT ![r] = q]
                  /\ q.pc = "rotate" => Alive /\ q.token = token /\ q.at = at
                  /\ q.pc = "hand" => Alive /\ InGrace /\ q.token = current
<1> DEFINE rec(pc, t) == [pc |-> pc, token |-> t, at |-> at]
<1>1. /\ \A pc, t : rec(pc, t).pc = pc /\ rec(pc, t).token = t /\ rec(pc, t).at = at
      /\ NoRequest.pc = "idle"
    BY DEF NoRequest
<1>2. /\ Judge(token) = "hand" => InGrace
      /\ \/ req' = [req EXCEPT ![r] = NoRequest]
         \/ \E pc \in {"reuse", "unusable", "broken"} : req' = [req EXCEPT ![r] = rec(pc, token)]
         \/ Alive /\ req' = [req EXCEPT ![r] = rec("rotate", token)]
         \/ Alive /\ Judge(token) = "hand" /\ req' = [req EXCEPT ![r] = rec("hand", current)]
    BY DEF Judge, Decide
<1> HIDE DEF rec
<1>3. CASE req' = [req EXCEPT ![r] = NoRequest]
  <2> WITNESS NoRequest
  <2> QED BY <1>1, <1>3
<1>4. ASSUME NEW pc \in {"reuse", "unusable", "broken"}, req' = [req EXCEPT ![r] = rec(pc, token)]
      PROVE  \E q : /\ req' = [req EXCEPT ![r] = q]
                    /\ q.pc = "rotate" => Alive /\ q.token = token /\ q.at = at
                    /\ q.pc = "hand" => Alive /\ InGrace /\ q.token = current
  <2> WITNESS rec(pc, token)
  <2> QED BY <1>1, <1>4
<1>5. CASE Alive /\ req' = [req EXCEPT ![r] = rec("rotate", token)]
  <2> WITNESS rec("rotate", token)
  <2> QED BY <1>1, <1>5
<1>6. CASE Alive /\ Judge(token) = "hand" /\ req' = [req EXCEPT ![r] = rec("hand", current)]
  <2> WITNESS rec("hand", current)
  <2> QED BY <1>1, <1>2, <1>6
<1> QED BY <1>2, <1>3, <1>4, <1>5, <1>6

LEMMA LifeNext == IInv /\ Life /\ [Next]_vars => Life'
<1> SUFFICES ASSUME IInv, Life, [Next]_vars PROVE Life'
    OBVIOUS
<1> USE Constants
<1>0. /\ now \in Nat /\ idleAt \in Nat /\ idleAt <= Absolute /\ current \in Nat
      /\ req \in [Requests -> ReqType] /\ chk \in [Checks -> ChkType]
      /\ cache \in [snap : Snapshots \cup {Never}, until : Nat]
      /\ \A r \in Requests : req[r].token \in Nat /\ req[r].at \in Nat /\ req[r].token <= current
    BY DEF IInv, TypeOK, ReqType, ChkType, Pcs, Tokens, Requested, Knows
<1>1. ASSUME UNCHANGED <<now, idleAt, cache, chk, current>>, NEW r \in Requests, NEW q, req' = [req EXCEPT ![r] = q],
             q.pc = "rotate" /\ q.token = current => q.at < idleAt
      PROVE  Life'
  <2>1. \A s \in Requests : req'[s] = IF s = r THEN q ELSE req[s]
    BY <1>0, <1>1
  <2> QED BY <1>1, <2>1 DEF Life
<1>2. ASSUME UNCHANGED <<now, idleAt, req, current>>, \A c \in Checks : chk'[c].pc = "loaded" => chk'[c].snap.idleAt <= idleAt,
             cache'.snap # Never => cache'.snap.idleAt <= idleAt
      PROVE  Life'
    BY <1>2 DEF Life
<1>3. ASSUME NEW r \in Requests, Refresh(r) \/ DecideAgain(r) PROVE Life'
  <2>1. PICK token, at : Decide(r, token, at) /\ at \in Nat /\ at <= now
    BY <1>0, <1>3 DEF Refresh, DecideAgain, IInv, Requested, TypeOK
  <2>2. PICK q : /\ req' = [req EXCEPT ![r] = q]
                 /\ q.pc = "rotate" => Alive /\ q.token = token /\ q.at = at
    BY <2>1, DecisionIs
  <2>3. q.pc = "rotate" => q.at < idleAt
    BY <1>0, <2>1, <2>2 DEF Alive
  <2>4. UNCHANGED <<now, idleAt, cache, chk, current>>
    BY <1>3 DEF Refresh, DecideAgain, rowVars
  <2> QED BY <1>1, <2>2, <2>3, <2>4
<1>4. ASSUME NEW r \in Requests, Rotate(r) PROVE Life'
  <2>1. /\ UNCHANGED <<now, chk, cache>> /\ current' = current + 1
        /\ idleAt' = Min(now + IdleTime, Absolute)
        /\ \A s \in Requests : s # r => req'[s] = req[s]
        /\ req'[r].pc = "hand"
    BY <1>0, <1>4 DEF Rotate, ReqType
  <2>2. idleAt <= idleAt' /\ idleAt' <= now + IdleTime /\ idleAt' \in Nat
    BY <1>0, <2>1 DEF Life, Min
  <2>3. \A s \in Requests : req'[s].pc = "rotate" => req'[s].token # current'
    BY <1>0, <2>1
  <2>4. cache.snap # Never => cache.snap.idleAt <= idleAt'
    BY <1>0, <2>2 DEF Life, Snapshots
  <2>5. \A c \in Checks : chk[c].pc = "loaded" => chk[c].snap.idleAt <= idleAt'
    <3>1. \A c \in Checks : chk[c].pc = "loaded" => chk[c].snap \in Snapshots
      BY DEF IInv, Fresh
    <3> QED BY <1>0, <2>2, <3>1 DEF Life, Snapshots
  <2> QED BY <2>1, <2>2, <2>3, <2>4, <2>5 DEF Life
<1>5. ASSUME NEW r \in Requests, LoseRotation(r) \/ RevokeOne(r) \/ Answer(r) PROVE Life'
  <2>1. PICK q : req' = [req EXCEPT ![r] = q] /\ q.pc # "rotate"
    <3>1. NoRequest.pc # "rotate"
      BY DEF NoRequest
    <3>2. [req[r] EXCEPT !.pc = "again"].pc # "rotate"
      BY <1>0 DEF ReqType
    <3>3. LoseRotation(r) => req' = [req EXCEPT ![r] = [req[r] EXCEPT !.pc = "again"]]
      BY <1>0 DEF LoseRotation
    <3> QED BY <1>5, <3>1, <3>2, <3>3 DEF RevokeOne, Answer
  <2>2. UNCHANGED <<now, idleAt, cache, chk, current>>
    BY <1>5 DEF LoseRotation, RevokeOne, Answer, rowVars
  <2> QED BY <1>1, <2>1, <2>2
<1>6. CASE Logout \/ DisableOwner \/ EnableOwner \/ ChangeRole \/ UNCHANGED vars
    BY <1>6 DEF Logout, DisableOwner, EnableOwner, ChangeRole, vars, rowVars, Life
<1>7. CASE DropCached
    BY <1>7 DEF DropCached, Empty, rowVars, Life
<1>8. ASSUME NEW c \in Checks, LoadSnapshot(c) PROVE Life'
  <2>1. PICK v \in 0..ver : chk' = [chk EXCEPT ![c] = [pc |-> "loaded", ver |-> v, at |-> now, snap |-> Snapshot]]
    BY <1>8 DEF LoadSnapshot
  <2>2. Snapshot.idleAt = idleAt
    BY DEF Snapshot
  <2>3. \A d \in Checks : chk'[d].pc = "loaded" => chk'[d].snap.idleAt <= idleAt
    BY <1>0, <2>1, <2>2 DEF Life
  <2> QED BY <1>2, <1>8, <2>3 DEF LoadSnapshot, rowVars, Life
<1>9. ASSUME NEW c \in Checks, CheckCached(c) \/ FillCache(c) \/ Respond(c) PROVE Life'
  <2>1. PICK q : chk' = [chk EXCEPT ![c] = q] /\ q.pc # "loaded"
    <3>1. NoCheck.pc # "loaded" /\ \A v : [NoCheck EXCEPT !.pc = "admitted", !.ver = v, !.at = now].pc # "loaded"
      BY DEF NoCheck
    <3> QED BY <1>9, <3>1 DEF CheckCached, FillCache, Respond, Judged
  <2>2. cache' = cache \/ (FillCache(c) /\ cache' = [snap |-> chk[c].snap, until |-> now + CacheTTL])
    BY <1>9 DEF CheckCached, FillCache, Respond
  <2>3. cache'.snap # Never => cache'.snap.idleAt <= idleAt
    BY <2>2 DEF Life, FillCache
  <2>4. \A d \in Checks : chk'[d].pc = "loaded" => chk'[d].snap.idleAt <= idleAt
    BY <1>0, <2>1 DEF Life
  <2> QED BY <1>2, <1>9, <2>3, <2>4 DEF CheckCached, FillCache, Respond, rowVars
<1>10. CASE Tick
    BY <1>0, <1>10 DEF Tick, rowVars, Life
<1> QED BY <1>3, <1>4, <1>5, <1>6, <1>7, <1>8, <1>9, <1>10 DEF Next

(* What the two parts of the mapping become when one request or one check moves. *)
LEMMA HeldIs ==
    ASSUME IInv, NEW r \in Requests, NEW q, req' = [req EXCEPT ![r] = q]
    PROVE  /\ Held' = [Held EXCEPT ![r] = IF q.pc = "hand" THEN q.token ELSE Never]
           /\ req[r].pc # "hand" /\ q.pc # "hand" => Held' = Held
<1>1. req \in [Requests -> ReqType]
    BY DEF IInv, TypeOK, ReqType, Pcs
<1>2. \A s \in Requests : req'[s] = IF s = r THEN q ELSE req[s]
    BY <1>1
<1> DEFINE held == IF q.pc = "hand" THEN q.token ELSE Never
<1>3. Held' = [s \in Requests |-> IF s = r THEN held ELSE Held[s]]
    BY <1>2 DEF Held
<1>4. Held = [s \in Requests |-> Held[s]] /\ (req[r].pc # "hand" => Held[r] = Never)
    BY DEF Held
<1>5. q.pc # "hand" => held = Never
    OBVIOUS
<1> HIDE DEF held
<1>6. Held' = [Held EXCEPT ![r] = held]
    BY <1>3, <1>4
<1>7. req[r].pc # "hand" /\ held = Never => Held' = Held
    BY <1>3, <1>4
<1> QED BY <1>5, <1>6, <1>7 DEF held

LEMMA AdmittedIs ==
    ASSUME IInv, NEW c \in Checks, NEW q, chk' = [chk EXCEPT ![c] = q]
    PROVE  /\ Admitted' = [Admitted EXCEPT ![c] = IF q.pc = "admitted" THEN q.ver ELSE Never]
           /\ chk[c].pc # "admitted" /\ q.pc # "admitted" => Admitted' = Admitted
<1>1. chk \in [Checks -> ChkType]
    BY DEF IInv, TypeOK, ChkType
<1>2. \A d \in Checks : chk'[d] = IF d = c THEN q ELSE chk[d]
    BY <1>1
<1> DEFINE admitted == IF q.pc = "admitted" THEN q.ver ELSE Never
<1>3. Admitted' = [d \in Checks |-> IF d = c THEN admitted ELSE Admitted[d]]
    BY <1>2 DEF Admitted
<1>4. Admitted = [d \in Checks |-> Admitted[d]] /\ (chk[c].pc # "admitted" => Admitted[c] = Never)
    BY DEF Admitted
<1>5. q.pc # "admitted" => admitted = Never
    OBVIOUS
<1> HIDE DEF admitted
<1>6. Admitted' = [Admitted EXCEPT ![c] = admitted]
    BY <1>3, <1>4
<1>7. chk[c].pc # "admitted" /\ admitted = Never => Admitted' = Admitted
    BY <1>3, <1>4
<1> QED BY <1>5, <1>6, <1>7 DEF admitted

(* A check that admits does so on a snapshot that is not older than the promise allows. *)
LEMMA JudgedPromise ==
    ASSUME IInv, NEW c \in Checks, NEW v \in Versions, NEW snap \in Snapshots, Judged(c, snap, v),
           chk[c].pc # "admitted", snap.idleAt <= idleAt,
           snap.good /\ endedAt[snap.ver] # Never => now <= endedAt[snap.ver] + (CacheTTL + MaxDelay),
           UNCHANGED <<now, current, rotatedAt, idleAt, revoked, endedAt, req>>
    PROVE  Promise!Next \/ UNCHANGED Promise!vars
<1> USE Constants
<1>0. now \in Nat /\ idleAt \in Nat /\ snap.idleAt \in Nat /\ Held' = Held
    BY DEF IInv, TypeOK, Snapshots, Held
<1>1. CASE Admits(snap, v)
  <2> DEFINE q == [NoCheck EXCEPT !.pc = "admitted", !.ver = v, !.at = now]
  <2>1. q.pc = "admitted" /\ q.ver = v
    BY DEF NoCheck
  <2>2. chk' = [chk EXCEPT ![c] = q]
    BY <1>1 DEF Judged
  <2> HIDE DEF q
  <2>3. Admitted' = [Admitted EXCEPT ![c] = v]
    BY <2>1, <2>2, AdmittedIs
  <2>4. now < idleAt /\ (endedAt[v] = Never \/ now <= endedAt[v] + (CacheTTL + MaxDelay))
    BY <1>0, <1>1 DEF Admits
  <2>5. Promise!Admit(c, v)
    BY <1>0, <2>3, <2>4 DEF Promise!Admit
  <2> QED BY <2>5 DEF Promise!Next
<1>2. CASE ~Admits(snap, v)
  <2>1. chk' = [chk EXCEPT ![c] = NoCheck]
    BY <1>2 DEF Judged
  <2>2. Admitted' = Admitted
    <3>1. NoCheck.pc # "admitted"
      BY DEF NoCheck
    <3> QED BY <2>1, <3>1, AdmittedIs
  <2> QED BY <1>0, <2>2 DEF Promise!vars
<1> QED BY <1>1, <1>2

LEMMA RequestPromise ==
    ASSUME IInv, Life, NEW r \in Requests,
           Refresh(r) \/ Rotate(r) \/ LoseRotation(r) \/ DecideAgain(r) \/ RevokeOne(r) \/ Answer(r)
    PROVE  Promise!Next \/ UNCHANGED Promise!vars
<1> USE Constants
<1>0. /\ now \in Nat /\ idleAt \in Nat /\ current \in Nat /\ rotatedAt \in Nat \cup {Never}
      /\ req \in [Requests -> ReqType] /\ req[r].token \in Nat /\ req[r].at \in Nat
      /\ Knows(req[r]) /\ NoRequest.pc = "idle"
    BY DEF IInv, TypeOK, ReqType, Pcs, Tokens, Requested, NoRequest
<1>1. Admitted' = Admitted
    BY DEF Refresh, Rotate, LoseRotation, DecideAgain, RevokeOne, Answer, Admitted
<1>2. CASE Refresh(r) \/ DecideAgain(r)
  <2>1. PICK token, at : Decide(r, token, at)
    BY <1>2 DEF Refresh, DecideAgain
  <2>2. PICK q : /\ req' = [req EXCEPT ![r] = q]
                 /\ q.pc = "hand" => Alive /\ InGrace /\ q.token = current
    BY <2>1, DecisionIs
  <2>3. req[r].pc # "hand" /\ UNCHANGED <<now, current, rotatedAt, idleAt, revoked, endedAt>>
    BY <1>2 DEF Refresh, DecideAgain, rowVars, history
  <2>4. CASE q.pc = "hand"
    <3>1. Held' = [Held EXCEPT ![r] = current]
      BY <2>2, <2>4, HeldIs
    <3>2. Promise!Repeat(r)
      BY <1>1, <2>2, <2>3, <2>4, <3>1 DEF Promise!Repeat, Alive, InGrace
    <3> QED BY <3>2 DEF Promise!Next
  <2>5. CASE q.pc # "hand"
    <3>1. Held' = Held
      BY <2>2, <2>3, <2>5, HeldIs
    <3> QED BY <1>1, <2>3, <3>1 DEF Promise!vars
  <2> QED BY <2>4, <2>5
<1>3. CASE Rotate(r)
  <2> DEFINE q == [req[r] EXCEPT !.pc = "hand", !.token = current + 1]
  <2>1. q.pc = "hand" /\ q.token = current + 1
    BY <1>0 DEF ReqType
  <2>2. req' = [req EXCEPT ![r] = q]
    BY <1>0, <1>3 DEF Rotate
  <2> HIDE DEF q
  <2>3. Held' = [Held EXCEPT ![r] = current + 1]
    BY <2>1, <2>2, HeldIs
  <2>4. now < idleAt + MaxDelay
    BY <1>0, <1>3 DEF Rotate, Life, Knows
  <2>5. rotatedAt = Never \/ now > rotatedAt + Grace
    BY <1>0, <1>3 DEF Rotate, Knows, Replaced, InGrace
  <2>6. Min(now + IdleTime, Absolute) = Promise!Least(now + IdleTime, Absolute)
    BY DEF Min, Promise!Least
  <2>7. Promise!Rotate(r)
    BY <1>1, <1>3, <2>3, <2>4, <2>5, <2>6 DEF Rotate, Promise!Rotate
  <2> QED BY <2>7 DEF Promise!Next
<1>4. CASE LoseRotation(r)
  <2>1. req' = [req EXCEPT ![r] = [req[r] EXCEPT !.pc = "again"]] /\ [req[r] EXCEPT !.pc = "again"].pc = "again"
    BY <1>0, <1>4 DEF LoseRotation, ReqType
  <2>2. Held' = Held
    BY <1>4, <2>1, HeldIs DEF LoseRotation
  <2> QED BY <1>1, <1>4, <2>2 DEF LoseRotation, rowVars, history, Promise!vars
<1>5. CASE RevokeOne(r)
  <2>1. Held' = Held
    BY <1>0, <1>5, HeldIs DEF RevokeOne
  <2>2. Promise!Revoke
    BY <1>1, <1>5, <2>1 DEF RevokeOne, Revoke, Ends, Promise!Revoke, Promise!Ends
  <2> QED BY <2>2 DEF Promise!Next
<1>6. CASE Answer(r)
  <2>1. Held[r] # Never /\ Held' = [Held EXCEPT ![r] = Never]
    <3>1. Held[r] = req[r].token
      BY <1>6 DEF Answer, Held
    <3> QED BY <1>0, <1>6, <3>1, HeldIs DEF Answer
  <2>2. Promise!Answer(r)
    BY <1>1, <1>6, <2>1 DEF Answer, rowVars, history, Promise!Answer
  <2> QED BY <2>2 DEF Promise!Next
<1> QED BY <1>2, <1>3, <1>4, <1>5, <1>6

LEMMA CheckPromise ==
    ASSUME IInv, Life, NEW c \in Checks, CheckCached(c) \/ LoadSnapshot(c) \/ FillCache(c) \/ Respond(c)
    PROVE  Promise!Next \/ UNCHANGED Promise!vars
<1> USE Constants
<1>0. /\ now \in Nat /\ ver \in Versions /\ endedAt \in [Versions -> 0..now \cup {Never}]
      /\ chk \in [Checks -> ChkType] /\ cache \in [snap : Snapshots \cup {Never}, until : Nat]
      /\ UNCHANGED <<now, current, rotatedAt, idleAt, revoked, endedAt, req>>
      /\ \A s \in Snapshots : s.ver \in Versions
    BY DEF IInv, TypeOK, ChkType, CheckCached, LoadSnapshot, FillCache, Respond, rowVars, history, Snapshots
<1>1. CASE CheckCached(c)
  <2>1. PICK v \in 0..ver : Judged(c, cache.snap, v)
    BY <1>1 DEF CheckCached
  <2>2. v \in Versions /\ cache.snap \in Snapshots /\ now < cache.until /\ cache.until \in Nat
    BY <1>0, <1>1 DEF CheckCached, Cached, Versions
  <2>3. cache.snap.good /\ endedAt[cache.snap.ver] # Never => now <= endedAt[cache.snap.ver] + (CacheTTL + MaxDelay)
    <3>1. SUFFICES ASSUME cache.snap.good, endedAt[cache.snap.ver] # Never
                   PROVE  now <= endedAt[cache.snap.ver] + (CacheTTL + MaxDelay)
      OBVIOUS
    <3>2. cache.snap.ver \in Versions /\ cache.snap # Never
      BY <1>0, <2>2
    <3>3. endedAt[cache.snap.ver] \in Nat
      BY <1>0, <3>1, <3>2
    <3>4. cache.until <= endedAt[cache.snap.ver] + CacheTTL + MaxDelay
      BY <3>1, <3>2 DEF IInv, Fresh
    <3>5. \A e \in Nat : cache.until <= e + CacheTTL + MaxDelay => now <= e + (CacheTTL + MaxDelay)
      BY <1>0, <2>2
    <3> QED BY <3>3, <3>4, <3>5
  <2>4. cache.snap.idleAt <= idleAt /\ chk[c].pc # "admitted"
    BY <1>1, <2>2 DEF Life, CheckCached, Cached
  <2> QED BY <1>0, <2>1, <2>2, <2>3, <2>4, JudgedPromise
<1>2. CASE FillCache(c)
  <2>1. chk[c].ver \in Versions /\ chk[c].snap \in Snapshots /\ chk[c].at \in Nat /\ now <= chk[c].at + MaxDelay
    BY <1>0, <1>2 DEF FillCache, IInv, Fresh, ChkType
  <2>2. chk[c].snap.good /\ endedAt[chk[c].snap.ver] # Never => now <= endedAt[chk[c].snap.ver] + (CacheTTL + MaxDelay)
    <3>1. SUFFICES ASSUME chk[c].snap.good, endedAt[chk[c].snap.ver] # Never
                   PROVE  now <= endedAt[chk[c].snap.ver] + (CacheTTL + MaxDelay)
      OBVIOUS
    <3>2. chk[c].at <= endedAt[chk[c].snap.ver] /\ endedAt[chk[c].snap.ver] \in Nat
      BY <1>0, <1>2, <2>1, <3>1 DEF IInv, Fresh, FillCache
    <3> QED BY <1>0, <2>1, <3>2
  <2>3. chk[c].snap.idleAt <= idleAt /\ chk[c].pc # "admitted"
    BY <1>2 DEF Life, FillCache
  <2>4. Judged(c, chk[c].snap, chk[c].ver)
    BY <1>2 DEF FillCache
  <2> QED BY <1>0, <2>1, <2>2, <2>3, <2>4, JudgedPromise
<1>3. CASE LoadSnapshot(c)
  <2>1. PICK v \in 0..ver : chk' = [chk EXCEPT ![c] = [pc |-> "loaded", ver |-> v, at |-> now, snap |-> Snapshot]]
    BY <1>3 DEF LoadSnapshot
  <2>2. Admitted' = Admitted
    <3> DEFINE q == [pc |-> "loaded", ver |-> v, at |-> now, snap |-> Snapshot]
    <3>1. q.pc # "admitted" /\ chk[c].pc # "admitted"
      BY <1>3 DEF LoadSnapshot
    <3> HIDE DEF q
    <3>2. chk' = [chk EXCEPT ![c] = q]
      BY <2>1 DEF q
    <3> QED BY <3>1, <3>2, AdmittedIs
  <2> QED BY <1>0, <2>2 DEF Held, Promise!vars
<1>4. CASE Respond(c)
  <2>1. Admitted[c] # Never
    BY <1>0, <1>4 DEF Respond, Admitted, ChkType, Versions
  <2>2. Admitted' = [Admitted EXCEPT ![c] = Never]
    <3>1. NoCheck.pc # "admitted"
      BY DEF NoCheck
    <3> QED BY <1>4, <3>1, AdmittedIs DEF Respond
  <2>3. Promise!Respond(c)
    BY <1>0, <2>1, <2>2 DEF Held, Promise!Respond
  <2> QED BY <2>3 DEF Promise!Next
<1> QED BY <1>1, <1>2, <1>3, <1>4

LEMMA PromiseNext == IInv /\ Life /\ [Next]_vars => [Promise!Next]_Promise!vars
<1> SUFFICES ASSUME IInv, Life, [Next]_vars PROVE Promise!Next \/ UNCHANGED Promise!vars
    OBVIOUS
<1>1. CASE Logout \/ DisableOwner
  <2>1. Promise!Revoke
    BY <1>1 DEF Logout, DisableOwner, Revoke, Ends, Held, Admitted, Promise!Revoke, Promise!Ends
  <2> QED BY <2>1 DEF Promise!Next
<1>2. CASE ChangeRole
  <2>1. Promise!ChangeRole(ver) /\ ver \in Versions
    BY <1>2 DEF ChangeRole, Ends, Held, Admitted, Promise!ChangeRole, Promise!Ends, IInv, TypeOK
  <2> QED BY <2>1 DEF Promise!Next
<1>3. CASE EnableOwner \/ DropCached \/ UNCHANGED vars
    BY <1>3 DEF EnableOwner, DropCached, vars, rowVars, history, Held, Admitted, Promise!vars
<1>4. CASE Tick
  <2>1. Promise!Tick
    BY <1>4 DEF Tick, rowVars, history, Held, Admitted, Promise!Tick
  <2> QED BY <2>1 DEF Promise!Next
<1> QED BY <1>1, <1>2, <1>3, <1>4, RequestPromise, CheckPromise DEF Next

(* The session keeps what SessionPromise says: rotations are apart, the token of an answer is the    *)
(* one that was current when it was given out, and neither tokens nor admissions outlive the session *)
(* by more than a request's length or a cached answer's age (refresh_session, check_session).        *)
THEOREM SessionKeepsPromise == Spec => ImplementsSession
<1>1. Init => Promise!Init
    BY DEF Init, Promise!Init, Promise!Least, Min, Held, Admitted, NoRequest, NoCheck
<1>2. Init /\ [][Next]_vars => Promise!Init /\ [][Promise!Next]_Promise!vars
    BY <1>1, IInvInit, IInvNext, LifeInit, LifeNext, PromiseNext, PTL
<1> QED BY <1>2 DEF Spec, ImplementsSession, Promise!Spec
===============================================================================
