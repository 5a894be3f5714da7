----------------------------- MODULE Access_proofs -----------------------------
(* Proofs about who gets in. Sessions: the tokens that outlive a logout, and    *)
(* the tokens that are exchanged more than once, are those that the module      *)
(* excuses, for any number of tokens and requests, logouts and faults.          *)
(* RateLimits: every refusal ends unless a call to Redis was lost, for any      *)
(* addresses, limits and times.                                                 *)
EXTENDS Sessions, RateLimits, FiniteSetTheorems, TLAPS

\* What a request is after each of its steps.
LEMMA RequestKinds ==
  ASSUME SessionsTypeOK, NEW q \in Request
  PROVE  /\ request[q].at \in {"idle", "read", "issue", "list", "drop"}
         /\ request[q].at = "read" => request[q].of \in Token /\ request[q].since \in Nat
                                      /\ request[q] = [at |-> "read", of |-> request[q].of, since |-> request[q].since]
         /\ request[q].at = "issue" => request[q].of \in Token \cup {NoToken} /\ request[q].since \in Nat
         /\ request[q].at \in {"list", "drop"} => request[q].of \in Token
  BY DEF SessionsTypeOK, Running, Resting

-----------------------------------------------------------------------------
(* Types. *)

LEMMA TypeStep ==
  ASSUME SessionsTypeOK, [SessionsNext]_sessionVars
  PROVE  SessionsTypeOK'
<1> USE DEF SessionsTypeOK
<1> USE SessionsAssumption DEF SessionsAssumption
<1>1. ASSUME NEW q \in Request, Login(q)
      PROVE  SessionsTypeOK'
  BY <1>1 DEF Login, Become, Running, Resting, lineage
<1>2. ASSUME NEW q \in Request, RevokeOld(q)
      PROVE  SessionsTypeOK'
  <2>1. [request[q] EXCEPT !.at = "issue"] \in Running
    <3>1. request[q] = [at |-> "read", of |-> request[q].of, since |-> request[q].since]
      BY <1>2, RequestKinds DEF RevokeOld
    <3>2. [request[q] EXCEPT !.at = "issue"] = [at |-> "issue", of |-> request[q].of, since |-> request[q].since]
      BY <3>1
    <3>3. request[q].of \in Token /\ request[q].since \in Nat
      BY <1>2, RequestKinds DEF RevokeOld
    <3>4. QED
      BY <3>2, <3>3 DEF Running
  <2>2. request[q].of \in Token
    BY <1>2, RequestKinds DEF RevokeOld
  <2>3. QED
    BY <1>2, <2>1, <2>2 DEF RevokeOld, Become, Keep, Lose, lineage
<1>3. ASSUME NEW q \in Request, InsertSession(q)
      PROVE  SessionsTypeOK'
  BY <1>3, RequestKinds DEF InsertSession, Become, Keep, Lose, lineage
<1>4. ASSUME NEW q \in Request, CutOff(q)
      PROVE  SessionsTypeOK'
  BY <1>4 DEF CutOff, Become, Lose, lineage
<1>5. ASSUME NEW q \in Request, DropSession(q)
      PROVE  SessionsTypeOK'
  BY <1>5, RequestKinds DEF DropSession, Become, lineage
<1>6. ASSUME NEW q \in Request, NEW t \in Token, ReadToken(q, t)
      PROVE  SessionsTypeOK'
  BY <1>6 DEF ReadToken, Become, Running, lineage
<1>7. ASSUME NEW q \in Request, NEW t \in Token, InsertToken(q, t)
      PROVE  SessionsTypeOK'
  <2>1. request[q].of \in Token \cup {NoToken}
    BY <1>7, RequestKinds DEF InsertToken
  <2>2. parent' \in [Token -> Token \cup {NoToken}] /\ began' \in [Token -> Nat] /\ excused' \subseteq Token
    BY <1>7, <2>1 DEF InsertToken
  <2>3. QED
    BY <1>7, <2>2 DEF InsertToken, Become, Running
<1>8. ASSUME NEW q \in Request, NEW t \in Token, RevokeSession(q, t)
      PROVE  SessionsTypeOK'
  BY <1>8 DEF RevokeSession, Become, Running, Keep, Lose, lineage
<1>9. CASE Logout
  BY <1>9 DEF Logout, EndAll, AllRevoked, Keep, Lose, ValidTokens
<1>10. CASE RevokeAllSessions
  BY <1>10 DEF RevokeAllSessions, EndAll, AllRevoked, lineage
<1>11. CASE UNCHANGED sessionVars
  BY <1>11 DEF sessionVars
<1>12. QED
  BY <1>1, <1>2, <1>3, <1>4, <1>5, <1>6, <1>7, <1>8, <1>9, <1>10, <1>11 DEF SessionsNext

LEMMA TypeInit == SessionsInit => SessionsTypeOK
  BY SessionsAssumption DEF SessionsInit, SessionsTypeOK, SessionsAssumption, Resting

-----------------------------------------------------------------------------
(* The invariant. *)

\* SessionsInv: what a request remembers of its token is still true of the token when
\* the request acts on it. LogoutHolds needs that a refresh that saw no logout goes back
\* to a current login, OneChild that the refresh of a token is the only one under way.
SessionsInv == SessionsTypeOK /\ LogoutHolds /\ OneChild /\ ExchangesSound /\ RefreshesCurrent

LEMMA InvInit == SessionsInit => SessionsInv
<1> SUFFICES ASSUME SessionsInit PROVE SessionsInv
  OBVIOUS
<1>1. SessionsTypeOK
  BY TypeInit
<1>2. LogoutHolds /\ OneChild
  BY SessionsAssumption DEF SessionsInit, LogoutHolds, OneChild, SessionsAssumption
<1>3. ExchangesSound /\ RefreshesCurrent
  BY SessionsAssumption DEF SessionsInit, ExchangesSound, RefreshesCurrent, Exchanging, Resting, SessionsAssumption
<1>4. QED
  BY <1>1, <1>2, <1>3 DEF SessionsInv

\* A step that leaves tokens and their lineage alone, and after which every request that
\* is exchanging a token was doing so before, keeps the invariant.
LEMMA QuietStep ==
  ASSUME SessionsInv, SessionsTypeOK',
         UNCHANGED << token, ends, parent, began, excused, shared >>,
         \A q \in Request, t \in Token :
            Exchanging(q, t)' => Exchanging(q, t) /\ request'[q] = request[q]
  PROVE  SessionsInv'
<1> USE DEF SessionsInv
<1>1. LogoutHolds' /\ OneChild'
  BY DEF LogoutHolds, OneChild
<1>2. ExchangesSound'
  BY DEF ExchangesSound
<1>3. RefreshesCurrent'
  BY DEF RefreshesCurrent
<1>4. QED
  BY <1>1, <1>2, <1>3

LEMMA LoginStep ==
  ASSUME SessionsInv, SessionsTypeOK', NEW q \in Request, Login(q)
  PROVE  SessionsInv'
<1>1. \A p \in Request, t \in Token :
         Exchanging(p, t)' => Exchanging(p, t) /\ request'[p] = request[p]
  BY SessionsAssumption DEF Login, Become, Exchanging, SessionsInv, SessionsTypeOK, SessionsAssumption
<1>2. QED
  BY <1>1, QuietStep DEF Login, lineage

LEMMA InsertSessionStep ==
  ASSUME SessionsInv, SessionsTypeOK', NEW q \in Request, InsertSession(q)
  PROVE  SessionsInv'
<1>1. \A p \in Request, t \in Token :
         Exchanging(p, t)' => Exchanging(p, t) /\ request'[p] = request[p]
  BY DEF InsertSession, Become, Exchanging, Resting, SessionsInv, SessionsTypeOK
<1>2. QED
  BY <1>1, QuietStep DEF InsertSession, lineage

LEMMA CutOffStep ==
  ASSUME SessionsInv, SessionsTypeOK', NEW q \in Request, CutOff(q)
  PROVE  SessionsInv'
<1>1. \A p \in Request, t \in Token :
         Exchanging(p, t)' => Exchanging(p, t) /\ request'[p] = request[p]
  BY DEF CutOff, Become, Exchanging, Resting, SessionsInv, SessionsTypeOK
<1>2. QED
  BY <1>1, QuietStep DEF CutOff, lineage

LEMMA DropSessionStep ==
  ASSUME SessionsInv, SessionsTypeOK', NEW q \in Request, DropSession(q)
  PROVE  SessionsInv'
<1>1. \A p \in Request, t \in Token :
         Exchanging(p, t)' => Exchanging(p, t) /\ request'[p] = request[p]
  BY DEF DropSession, Become, Exchanging, Resting, SessionsInv, SessionsTypeOK
<1>2. QED
  BY <1>1, QuietStep DEF DropSession, lineage

\* Revoking tokens keeps the invariant, as long as none of them becomes valid.
LEMMA RevokingStep ==
  ASSUME SessionsInv, SessionsTypeOK',
         UNCHANGED << ends, parent, began, excused, shared >>,
         \A t \in Token : token'[t] = token[t] \/ token'[t] = "revoked",
         \A q \in Request, t \in Token :
            Exchanging(q, t)' => Exchanging(q, t) /\ request'[q] = request[q]
  PROVE  SessionsInv'
<1> USE DEF SessionsInv
<1>1. LogoutHolds' /\ OneChild'
  BY DEF LogoutHolds, OneChild
<1>2. ExchangesSound'
  BY DEF ExchangesSound
<1>3. RefreshesCurrent'
  BY DEF RefreshesCurrent
<1>4. QED
  BY <1>1, <1>2, <1>3

LEMMA RevokeSessionStep ==
  ASSUME SessionsInv, SessionsTypeOK', NEW q \in Request, NEW t \in Token, RevokeSession(q, t)
  PROVE  SessionsInv'
<1>1. \A p \in Request, s \in Token :
         Exchanging(p, s)' => Exchanging(p, s) /\ request'[p] = request[p]
  BY DEF RevokeSession, Become, Exchanging, Resting, SessionsInv, SessionsTypeOK
<1>2. \A s \in Token : token'[s] = token[s] \/ token'[s] = "revoked"
  BY DEF RevokeSession, SessionsInv, SessionsTypeOK
<1>3. QED
  BY <1>1, <1>2, RevokingStep DEF RevokeSession, lineage

\* A revocation of every token: none is valid, or the valid ones are excused, and no
\* refresh under way has seen it.
LEMMA EndStep ==
  ASSUME SessionsInv, SessionsTypeOK', ends' = ends + 1,
         UNCHANGED << request, parent, began, shared >>,
         excused \subseteq excused',
         \A t \in Token : /\ token'[t] = token[t] \/ token'[t] = "revoked"
                          /\ token'[t] = "valid" => t \in excused'
  PROVE  SessionsInv'
<1> USE DEF SessionsInv
<1>1. LogoutHolds'
  <2> SUFFICES ASSUME NEW t \in Token \ excused', token'[t] = "valid"
               PROVE  FALSE
    BY DEF LogoutHolds
  <2>1. QED
    OBVIOUS
<1>a. OneChild'
  BY DEF OneChild
<1>2. \A q \in Request, t \in Token :
        /\ Exchanging(q, t)' <=> Exchanging(q, t)
        /\ Exchanging(q, t) => request[q].since \in Nat
  BY RequestKinds, SessionsAssumption DEF Exchanging, SessionsAssumption
<1>3. ExchangesSound'
  <2>1. ends \in Nat
    BY DEF SessionsTypeOK
  <2>2. \A q \in Request, t \in Token : Exchanging(q, t) => request[q].since <= ends'
    BY <1>2, <2>1 DEF ExchangesSound
  <2>3. \A t \in Token : /\ token'[t] # token[t] => token'[t] = "revoked"
                         /\ token[t] = "revoked" => token'[t] = "revoked"
                         /\ token[t] # "absent" => token'[t] # "absent"
    OBVIOUS
  <2>4. \A q \in Request, t \in Token : Exchanging(q, t)' <=> Exchanging(q, t)
    BY <1>2
  <2>5. QED
    BY <2>2, <2>3, <2>4 DEF ExchangesSound
<1>4. RefreshesCurrent'
  BY <1>2 DEF RefreshesCurrent, ExchangesSound, SessionsTypeOK
<1>5. QED
  BY <1>1, <1>a, <1>3, <1>4

LEMMA LogoutStep ==
  ASSUME SessionsInv, SessionsTypeOK', Logout
  PROVE  SessionsInv'
<1>1. \A t \in Token : /\ token'[t] = token[t] \/ token'[t] = "revoked"
                       /\ token'[t] = "valid" => t \in excused'
  BY DEF Logout, AllRevoked, ValidTokens
<1>2. QED
  BY <1>1, EndStep DEF Logout, EndAll, ValidTokens

LEMMA RevokeAllSessionsStep ==
  ASSUME SessionsInv, SessionsTypeOK', RevokeAllSessions
  PROVE  SessionsInv'
<1>1. \A t \in Token : /\ token'[t] = token[t] \/ token'[t] = "revoked"
                       /\ token'[t] = "valid" => t \in excused'
  BY DEF RevokeAllSessions, AllRevoked
<1>2. QED
  BY <1>1, EndStep DEF RevokeAllSessions, EndAll, lineage

LEMMA ReadTokenStep ==
  ASSUME SessionsInv, SessionsTypeOK', NEW q \in Request, NEW t \in Token, ReadToken(q, t)
  PROVE  SessionsInv'
<1> USE DEF SessionsInv
<1>1. /\ token[t] = "valid" /\ ends \in Nat
      /\ UNCHANGED << token, ends, parent, began, excused >>
      /\ shared \subseteq shared'
      /\ t \notin shared' => \A p \in Request : ~(request[p].at = "read" /\ request[p].of = t)
  BY DEF ReadToken, lineage, SessionsTypeOK
<1>2. /\ Exchanging(q, t)' /\ request'[q].since = ends /\ request'[q].at = "read"
      /\ \A s \in Token : Exchanging(q, s)' => s = t
      /\ \A p \in Request \ {q} : request'[p] = request[p]
  BY DEF ReadToken, Become, Exchanging, SessionsTypeOK
<1>3. LogoutHolds' /\ OneChild'
  BY <1>1 DEF LogoutHolds, OneChild
<1>4. \A p \in Request \ {q}, s \in Token : Exchanging(p, s)' <=> Exchanging(p, s)
  BY <1>2 DEF Exchanging
<1>5. RefreshesCurrent'
  BY <1>1, <1>2, <1>4 DEF RefreshesCurrent, LogoutHolds
<1>6. t \notin shared' => /\ \A p \in Request : ~Exchanging(p, t)
                          /\ \A c \in Token : parent[c] # t
  BY <1>1 DEF ExchangesSound, Exchanging
<1>7. ExchangesSound'
  BY <1>1, <1>2, <1>4, <1>6 DEF ExchangesSound
<1>8. QED
  BY <1>3, <1>5, <1>7

LEMMA RevokeOldStep ==
  ASSUME SessionsInv, SessionsTypeOK', NEW q \in Request, RevokeOld(q)
  PROVE  SessionsInv'
<1> USE DEF SessionsInv
<1> PICK t \in Token : t = request[q].of
  BY RequestKinds DEF RevokeOld
<1>1. /\ Exchanging(q, t) /\ Exchanging(q, t)'
      /\ \A s \in Token : Exchanging(q, s)' => s = t
      /\ request'[q].since = request[q].since
      /\ \A p \in Request \ {q} : request'[p] = request[p]
  BY RequestKinds DEF RevokeOld, Become, Exchanging, SessionsTypeOK
<1>2. /\ UNCHANGED << ends, parent, began, excused >>
      /\ shared \subseteq shared'
      /\ \A s \in Token : token'[s] = token[s] \/ token'[s] = "revoked"
      /\ t \notin shared' => token'[t] = "revoked"
  BY <1>1 DEF RevokeOld, lineage, SessionsTypeOK
<1>3. LogoutHolds' /\ OneChild'
  BY <1>2 DEF LogoutHolds, OneChild
<1>4. \A p \in Request, s \in Token : Exchanging(p, s)' <=> Exchanging(p, s)
  <2>1. \A s \in Token : Exchanging(q, s)' <=> Exchanging(q, s)
    BY <1>1 DEF Exchanging
  <2>2. \A p \in Request \ {q}, s \in Token : Exchanging(p, s)' <=> Exchanging(p, s)
    BY <1>1 DEF Exchanging
  <2>3. QED
    BY <2>1, <2>2
<1>5. RefreshesCurrent'
  BY <1>1, <1>2, <1>4 DEF RefreshesCurrent
<1>6. ExchangesSound'
  BY <1>1, <1>2, <1>4 DEF ExchangesSound
<1>7. QED
  BY <1>3, <1>5, <1>6

LEMMA InsertTokenStep ==
  ASSUME SessionsInv, SessionsTypeOK', NEW q \in Request, NEW t \in Token, InsertToken(q, t)
  PROVE  SessionsInv'
<1> USE DEF SessionsInv
<1> DEFINE p == request[q].of
<1>1. /\ p \in Token \cup {NoToken} /\ request[q].at = "issue" /\ token[t] = "absent"
      /\ UNCHANGED << ends, shared >>
      /\ token'[t] = "valid" /\ \A s \in Token \ {t} : token'[s] = token[s]
  BY RequestKinds DEF InsertToken, SessionsTypeOK
<1>2. /\ parent'[t] = p /\ \A s \in Token \ {t} : parent'[s] = parent[s]
      /\ p = NoToken => began'[t] = ends
      /\ p # NoToken => began'[t] = began[p]
      /\ \A s \in Token \ {t} : began'[s] = began[s]
  BY DEF InsertToken, SessionsTypeOK
<1>3. /\ excused \subseteq excused'
      /\ t \notin excused' /\ p # NoToken => p \notin excused /\ request[q].since = ends
  BY DEF InsertToken
<1>4. /\ p \in Token => Exchanging(q, p)
      /\ \A s \in Token : ~Exchanging(q, s)'
      /\ \A r \in Request \ {q} : request'[r] = request[r]
  BY <1>1 DEF InsertToken, Become, Exchanging, SessionsTypeOK
<1>5. \A r \in Request \ {q}, s \in Token : Exchanging(r, s)' <=> Exchanging(r, s)
  BY <1>4 DEF Exchanging
\* The new token is nobody's parent, and nobody exchanges it.
<1>6. /\ \A c \in Token : parent[c] # t
      /\ \A r \in Request : ~Exchanging(r, t)
      /\ p \in Token => token[p] # "absent" /\ p # t
  BY <1>1, <1>4 DEF ExchangesSound
<1>7. LogoutHolds'
  BY <1>1, <1>2, <1>3, <1>4, SessionsAssumption DEF LogoutHolds, RefreshesCurrent, SessionsAssumption
\* Its parent had no child so far.
<1>8. p \in Token \ shared => /\ \A c \in Token : parent[c] # p
                              /\ token[p] = "revoked"
                              /\ \A r \in Request \ {q} : ~Exchanging(r, p)
  BY <1>1, <1>4 DEF ExchangesSound
<1>9. OneChild'
  BY <1>1, <1>2, <1>8 DEF OneChild
<1>10. ExchangesSound'
  BY <1>1, <1>2, <1>4, <1>5, <1>6, <1>8 DEF ExchangesSound
<1>11. RefreshesCurrent'
  BY <1>1, <1>2, <1>3, <1>4, <1>5, <1>6 DEF RefreshesCurrent
<1>12. QED
  BY <1>7, <1>9, <1>10, <1>11

-----------------------------------------------------------------------------
(* The theorems. *)

LEMMA InvStep ==
  ASSUME SessionsInv, [SessionsNext]_sessionVars
  PROVE  SessionsInv'
<1>1. SessionsTypeOK'
  BY TypeStep DEF SessionsInv
<1>2. ASSUME UNCHANGED sessionVars
      PROVE  SessionsInv'
  <2>1. \A q \in Request, t \in Token :
           Exchanging(q, t)' => Exchanging(q, t) /\ request'[q] = request[q]
    BY <1>2 DEF sessionVars, Exchanging
  <2>2. QED
    BY <1>1, <1>2, <2>1, QuietStep DEF sessionVars
<1>3. QED
  BY <1>1, <1>2, LoginStep, RevokeOldStep, InsertSessionStep, CutOffStep, DropSessionStep, ReadTokenStep,
     InsertTokenStep, RevokeSessionStep, LogoutStep, RevokeAllSessionsStep DEF SessionsNext

\* What a request remembers of its token is true of the token when it acts on it, in
\* every interleaving of logins, refreshes, logouts and revocations.
THEOREM SessionsInvariance == SessionsSpec => []SessionsInv
<1>1. SessionsInit => SessionsInv
  BY InvInit
<1>2. SessionsInv /\ [SessionsNext]_sessionVars => SessionsInv'
  BY InvStep
<1>3. QED
  BY <1>1, <1>2, PTL DEF SessionsSpec

\* A valid token goes back to a login after the last logout, unless one of the
\* refreshes in between was under way at a logout or a logout's statement was lost.
THEOREM LogoutHoldsAlways == SessionsSpec => []LogoutHolds
<1>1. SessionsInv => LogoutHolds
  BY DEF SessionsInv
<1>2. QED
  BY <1>1, SessionsInvariance, PTL

\* A token is exchanged once at most, unless two refreshes had both read it or its
\* revocation was lost.
THEOREM OneSuccessorAlways == SessionsSpec => []OneSuccessor
<1>1. SessionsInv => OneSuccessor
  <2> SUFFICES ASSUME SessionsInv, NEW t \in Token \ shared
               PROVE  Cardinality({ c \in Token : parent[c] = t }) <= 1
    BY DEF OneSuccessor
  <2> DEFINE S == { c \in Token : parent[c] = t }
  <2>1. CASE S = {}
    BY <2>1, FS_EmptySet
  <2>2. CASE S # {}
    <3>1. PICK c \in S : TRUE
      BY <2>2
    <3>2. S = {c}
      BY <3>1 DEF SessionsInv, OneChild
    <3>3. Cardinality(S) = 1
      BY <3>2, FS_Singleton
    <3>4. QED
      BY <3>3
  <2>3. QED
    BY <2>1, <2>2
<1>2. QED
  BY <1>1, SessionsInvariance, PTL

-----------------------------------------------------------------------------
(* The limits on requests. *)

\* What a request is inside a middleware.
LEMMA VisitKinds ==
  ASSUME LimitsTypeOK, NEW v \in Visit
  PROVE  /\ visit[v].at = "expire" => visit[v].address \in Address
         /\ visit[v].at = "script" => visit[v].address \in Address /\ visit[v].cookie \in BOOLEAN
  BY DEF LimitsTypeOK, Inside, Outside

\* A key that grows older keeps its type; it is gone only with its last tick.
LEMMA AgedKey ==
  ASSUME NEW key \in [count: Nat, ttl: 0..Window]
  PROVE  /\ Aged(key) \in [count: Nat, ttl: 0..Window]
         /\ Aged(key).count > 0 => /\ Aged(key).count = key.count
                                   /\ key.ttl # 1
                                   /\ Aged(key).ttl = (IF key.ttl = 0 THEN 0 ELSE key.ttl - 1)
  BY LimitsAssumption DEF LimitsAssumption, Aged, Older, NoKey

\* The limiters keep their types.
LEMMA LimitsTypeStep ==
  ASSUME LimitsTypeOK, [LimitsNext]_limitVars
  PROVE  LimitsTypeOK'
<1> USE LimitsAssumption DEF LimitsAssumption, LimitsTypeOK
<1>1. ASSUME NEW v \in Visit, NEW a \in Address, Count(v, a)
      PROVE  LimitsTypeOK'
  BY <1>1 DEF Count, Enter, Inside
<1>2. ASSUME NEW v \in Visit, NEW a \in Address, PassCookie(v, a)
      PROVE  LimitsTypeOK'
  BY <1>2 DEF PassCookie, Enter, Inside
<1>3. ASSUME NEW v \in Visit, NEW a \in Address, CookieUnknown(v, a)
      PROVE  LimitsTypeOK'
  BY <1>3 DEF CookieUnknown, Enter, Inside
<1>4. ASSUME NEW v \in Visit, Expire(v)
      PROVE  LimitsTypeOK'
  <2>1. visit[v].address \in Address
    BY <1>4, VisitKinds DEF Expire
  <2>2. hits' \in [Address -> [count: Nat, ttl: 0..Window]] /\ lostExpiry' \subseteq Address
    <3>1. CASE UNCHANGED hits
      BY <1>4, <2>1, <3>1 DEF Expire
    <3>2. CASE ~UNCHANGED hits
      <4> DEFINE w == IF hits[visit[v].address].count = 0 THEN 0 ELSE Window
      <4>1. w \in 0..Window
        OBVIOUS
      <4>2. hits' = [hits EXCEPT ![visit[v].address].ttl = w] /\ lostExpiry' = lostExpiry
        BY <1>4, <3>2 DEF Expire
      <4> HIDE DEF w
      <4>3. QED
        BY <2>1, <4>1, <4>2
    <3>3. QED
      BY <3>1, <3>2
  <2>3. QED
    BY <1>4, <2>2 DEF Expire, Leave
<1>5. ASSUME NEW v \in Visit, RunScript(v)
      PROVE  LimitsTypeOK'
  <2> DEFINE a == visit[v].address
  <2>1. a \in Address
    BY <1>5, VisitKinds DEF RunScript
  <2>2. [count |-> tries[a].count + 1, ttl |-> IF tries[a].count = 0 THEN Window ELSE tries[a].ttl]
          \in [count: Nat, ttl: 0..Window]
    BY <2>1
  <2>3. tries' \in [Address -> [count: Nat, ttl: 0..Window]]
    BY <1>5, <2>1, <2>2 DEF RunScript
  <2>4. QED
    BY <1>5, <2>1, <2>3 DEF RunScript, Leave
<1>6. ASSUME NEW v \in Visit, ScriptFails(v)
      PROVE  LimitsTypeOK'
  BY <1>6 DEF ScriptFails, Leave
<1>7. CASE Tick
  BY <1>7, AgedKey DEF Tick, Older
<1>8. CASE UNCHANGED limitVars
  BY <1>8 DEF limitVars
<1>9. QED
  BY <1>1, <1>2, <1>3, <1>4, <1>5, <1>6, <1>7, <1>8 DEF LimitsNext

\* A counter without an expiry is waited for, or its EXPIRE was lost.
LEMMA CountersStep ==
  ASSUME LimitsTypeOK, CountersEnd, [LimitsNext]_limitVars
  PROVE  CountersEnd'
<1> USE LimitsAssumption DEF LimitsAssumption, LimitsTypeOK, CountersEnd
<1>1. ASSUME NEW v \in Visit, NEW a \in Address, Count(v, a)
      PROVE  CountersEnd'
  <2> SUFFICES ASSUME NEW b \in Address, hits'[b].count > 0, hits'[b].ttl = 0, b \notin lostExpiry
               PROVE  \E w \in Visit : visit'[w].at = "expire" /\ visit'[w].address = b
    BY <1>1 DEF Count
  <2>1. CASE hits[a].count = 0 /\ b = a
    BY <1>1, <2>1 DEF Count, Enter
  <2>2. CASE ~(hits[a].count = 0 /\ b = a)
    <3>1. hits[b].count > 0 /\ hits[b].ttl = 0
      BY <1>1, <2>2 DEF Count
    <3>2. PICK w \in Visit : visit[w].at = "expire" /\ visit[w].address = b
      BY <3>1
    <3>3. visit'[w] = visit[w]
      BY <1>1, <3>2 DEF Count, Enter, Outside
    <3>4. QED
      BY <3>2, <3>3
  <2>3. QED
    BY <2>1, <2>2
<1>2. ASSUME NEW v \in Visit, visit[v].at # "expire", UNCHANGED << hits, lostExpiry >>,
             \A w \in Visit \ {v} : visit'[w] = visit[w]
      PROVE  CountersEnd'
  BY <1>2
<1>3. ASSUME NEW v \in Visit, Expire(v)
      PROVE  CountersEnd'
  <2> SUFFICES ASSUME NEW b \in Address, hits'[b].count > 0, hits'[b].ttl = 0, b \notin lostExpiry'
               PROVE  \E w \in Visit : visit'[w].at = "expire" /\ visit'[w].address = b
    OBVIOUS
  <2>1. hits[b].count > 0 /\ hits[b].ttl = 0 /\ b # visit[v].address /\ b \notin lostExpiry
    BY <1>3, VisitKinds DEF Expire
  <2>2. PICK w \in Visit : visit[w].at = "expire" /\ visit[w].address = b
    BY <2>1
  <2>3. visit'[w] = visit[w]
    BY <1>3, <2>1, <2>2 DEF Expire, Leave
  <2>4. QED
    BY <2>2, <2>3
<1>4. CASE Tick
  <2>1. \A a \in Address : hits'[a].count > 0 /\ hits'[a].ttl = 0 => hits[a].count > 0 /\ hits[a].ttl = 0
    BY <1>4, AgedKey DEF Tick
  <2>2. QED
    BY <1>4, <2>1 DEF Tick
<1>5. CASE UNCHANGED limitVars
  BY <1>5 DEF limitVars
<1>6. ASSUME NEW v \in Visit, NEW a \in Address, PassCookie(v, a) \/ CookieUnknown(v, a)
      PROVE  CountersEnd'
  BY <1>6, <1>2 DEF PassCookie, CookieUnknown, Enter, Outside
<1>7. ASSUME NEW v \in Visit, RunScript(v) \/ ScriptFails(v)
      PROVE  CountersEnd'
  BY <1>7, <1>2 DEF RunScript, ScriptFails, Leave
<1>8. QED
  BY <1>1, <1>3, <1>4, <1>5, <1>6, <1>7 DEF LimitsNext

\* What RunScript and Tick preserve together.
BansInv == BansEnd /\ CookieBansEnd /\ TriesAge

\* A ban outlives the requests that led to it, and no cookie outlives every ban.
LEMMA BansStep ==
  ASSUME LimitsTypeOK, BansInv, [LimitsNext]_limitVars
  PROVE  BansInv'
<1> USE LimitsAssumption DEF LimitsAssumption, LimitsTypeOK, BansInv, BansEnd, CookieBansEnd, TriesAge
<1>1. ASSUME NEW v \in Visit, RunScript(v)
      PROVE  BansInv'
  <2> DEFINE a == visit[v].address
  <2>1. a \in Address /\ visit[v].cookie \in BOOLEAN
    BY <1>1, VisitKinds DEF RunScript
  <2>2. CASE ban[a] > 0
    BY <1>1, <2>2 DEF RunScript
  <2>3. CASE ~(ban[a] > 0)
    <3>1. tries[a].count <= MaxRequests /\ ban[a] = 0
      BY <2>1, <2>3
    <3>2. /\ tries'[a].count = tries[a].count + 1
          /\ tries'[a].ttl = (IF tries[a].count = 0 THEN Window ELSE tries[a].ttl)
          /\ \A b \in Address \ {a} : tries'[b] = tries[b] /\ ban'[b] = ban[b]
      BY <1>1, <2>1, <2>3 DEF RunScript
    <3>3. tries'[a].ttl \in 1..Window
      BY <2>1, <3>2
    <3>4. CASE tries[a].count >= MaxRequests
      <4>1. ban'[a] = BanTime /\ cookieBan' = (IF visit[v].cookie THEN BanTime ELSE cookieBan)
        BY <1>1, <2>1, <2>3, <3>4 DEF RunScript
      <4>2. cookieBan' > 0 => \E b \in Address : ban'[b] >= cookieBan'
        <5>1. cookieBan' <= BanTime /\ ban'[a] >= cookieBan'
          BY <4>1
        <5>2. QED
          BY <2>1, <5>1
      <4>3. \A b \in Address : tries'[b].count > MaxRequests => ban'[b] > 0 /\ tries'[b].ttl <= ban'[b]
        <5>1. ban'[a] > 0 /\ tries'[a].ttl <= ban'[a]
          BY <3>3, <4>1
        <5>2. QED
          BY <3>2, <5>1
      <4>4. \A b \in Address : tries'[b].count > 0 => tries'[b].ttl > 0
        BY <3>2, <3>3
      <4>5. QED
        BY <4>2, <4>3, <4>4
    <3>5. CASE ~(tries[a].count >= MaxRequests)
      <4>1. UNCHANGED << ban, cookieBan >> /\ tries'[a].count <= MaxRequests
        BY <1>1, <2>1, <2>3, <3>2, <3>5 DEF RunScript
      <4>2. QED
        BY <2>1, <3>2, <3>3, <4>1
    <3>6. QED
      BY <3>4, <3>5
  <2>4. QED
    BY <2>2, <2>3
<1>2. CASE Tick
  <2>1. \A b \in Address : ban'[b] = (IF ban[b] = 0 THEN 0 ELSE ban[b] - 1)
    BY <1>2 DEF Tick, Older
  <2>2. cookieBan' > 0 => \E b \in Address : ban'[b] >= cookieBan'
    BY <1>2, <2>1 DEF Tick, Older
  <2>3. ASSUME NEW b \in Address, tries'[b].count > 0
        PROVE  /\ tries'[b].count = tries[b].count
               /\ tries'[b].ttl = tries[b].ttl - 1
               /\ tries[b].ttl > 1
    BY <1>2, <2>3, AgedKey DEF Tick
  <2>4. ASSUME NEW b \in Address, tries'[b].count > MaxRequests
        PROVE  ban'[b] > 0 /\ tries'[b].ttl <= ban'[b]
    <3>1. tries'[b].count > 0
      <4>1. tries'[b].count \in Nat
        BY <1>2, AgedKey DEF Tick
      <4>2. QED
        BY <2>4, <4>1
    <3>2. tries[b].count > MaxRequests /\ tries'[b].ttl = tries[b].ttl - 1 /\ tries[b].ttl > 1
      BY <2>4, <3>1, <2>3
    <3>3. tries[b].ttl <= ban[b]
      BY <3>2
    <3>4. QED
      BY <2>1, <3>2, <3>3
  <2>5. \A b \in Address : tries'[b].count > 0 => tries'[b].ttl > 0
    BY <2>3
  <2>6. QED
    BY <2>2, <2>4, <2>5
<1>3. CASE UNCHANGED << tries, ban, cookieBan >>
  BY <1>3
<1>4. QED
  BY <1>1, <1>2, <1>3 DEF LimitsNext, Count, PassCookie, CookieUnknown, Expire, ScriptFails, limitVars

\* Every key without an expiry is accounted for and every ban outlives what led
\* to it, for any addresses, requests, limits and times (middleware/ratelimit.go).
THEOREM LimitsInvariance == LimitsSpec => [](LimitsTypeOK /\ LimitsInv)
<1>1. LimitsInit => LimitsTypeOK /\ LimitsInv
  BY LimitsAssumption DEF LimitsAssumption, LimitsInit, LimitsTypeOK, NoKey, Outside, LimitsInv,
     RefusalsEnd, CountersEnd, BansEnd, CookieBansEnd, TriesAge
<1>2. LimitsTypeOK /\ LimitsInv /\ [LimitsNext]_limitVars => (LimitsTypeOK /\ LimitsInv)'
  BY LimitsTypeStep, CountersStep, BansStep DEF LimitsInv, RefusalsEnd, BansInv
<1>3. QED
  BY <1>1, <1>2, PTL DEF LimitsSpec

\* No address and no cookie is refused without an end, unless an EXPIRE was lost
\* (RateLimiter, AuthRateLimiter, ContactRateLimiter).
THEOREM RefusalsEndAlways == LimitsSpec => []RefusalsEnd
<1>1. LimitsInv => RefusalsEnd
  BY DEF LimitsInv
<1>2. QED
  BY <1>1, LimitsInvariance, PTL
=============================================================================
