------------------------------- MODULE Sessions -------------------------------
(* The refresh tokens and the listed sessions of one learner                   *)
(* (services/auth_service.go, repository/user_repo.go). A login or a refresh    *)
(* issues its statements one by one, each its own transaction, and the error of *)
(* some of them is dropped; requests interleave. No request touches the tokens  *)
(* of another learner.                                                          *)
EXTENDS Integers, FiniteSets

CONSTANTS
  Token,         \* token hashes that can be made
  NoToken,
  Request,       \* requests under way
  MaxEnds,       \* bound: logouts and revocations of all sessions
  MaxLost        \* bound: statements that fail and requests cut off

ASSUME SessionsAssumption ==
  /\ NoToken \notin Token
  /\ MaxEnds \in Nat /\ MaxLost \in Nat

VARIABLES
  token,       \* refresh_tokens: absent, valid or revoked
  session,     \* user_sessions, by the same hash
  request,     \* the request each of Request runs
  ends,        \* how often every token was to be revoked
  lost,
  parent,      \* history: the token whose refresh made a token
  began,       \* history: the value of ends at the login a token goes back to
  excused,     \* history: tokens of a refresh that was under way at a revocation of all,
               \* or that a revocation of all left, and those made of them
  shared       \* history: tokens that two refreshes read, or whose revocation was lost

sessionVars == << token, session, request, ends, lost, parent, began, excused, shared >>
lineage == << parent, began, excused >>

Resting == [at |-> "idle"]
Running ==
       [at: {"read"}, of: Token, since: Nat]
  \cup [at: {"issue"}, of: Token \cup {NoToken}, since: Nat]
  \cup [at: {"list", "drop"}, of: Token]

SessionsInit ==
  /\ token = [t \in Token |-> "absent"]
  /\ session = [t \in Token |-> "absent"]
  /\ request = [q \in Request |-> Resting]
  /\ ends = 0
  /\ lost = 0
  /\ parent = [t \in Token |-> NoToken]
  /\ began = [t \in Token |-> 0]
  /\ excused = {}
  /\ shared = {}

Become(q, r) == request' = [request EXCEPT ![q] = r]
Lose == lost < MaxLost /\ lost' = lost + 1
Keep == lost' = lost

ValidTokens == { t \in Token : token[t] = "valid" }

\* Mutant: the rows are deleted.
AllDeleted == [t \in Token |-> IF token[t] = "valid" THEN "deleted" ELSE token[t]]

\* Every valid token, revoked.
AllRevoked == [t \in Token |-> IF token[t] = "valid" THEN "revoked" ELSE token[t]]

-----------------------------------------------------------------------------
(* A login and a refresh. *)

\* Login, Verify2FA and UseBackupCode go on to generateRefreshToken.
Login(q) ==
  /\ request[q] = Resting
  /\ Become(q, [at |-> "issue", of |-> NoToken, since |-> ends])
  /\ UNCHANGED << token, session, ends, lost, lineage, shared >>

\* Mutant: a revoked token is found as well.
ReadAnyToken(q, t) ==
  /\ request[q] = Resting
  /\ token[t] # "absent"
  /\ Become(q, [at |-> "read", of |-> t, since |-> ends])
  /\ shared' = IF \E p \in Request : request[p].at = "read" /\ request[p].of = t
               THEN shared \cup {t} ELSE shared
  /\ UNCHANGED << token, session, ends, lost, lineage >>

\* GetRefreshToken finds a token that is not revoked.
ReadToken(q, t) ==
  /\ request[q] = Resting
  /\ token[t] = "valid"
  /\ Become(q, [at |-> "read", of |-> t, since |-> ends])
  /\ shared' = IF \E p \in Request : request[p].at = "read" /\ request[p].of = t
               THEN shared \cup {t} ELSE shared
  /\ UNCHANGED << token, session, ends, lost, lineage >>

\* RevokeRefreshToken, its error dropped.
RevokeOld(q) ==
  /\ request[q].at = "read"
  /\ \/ /\ token' = [token EXCEPT ![request[q].of] = "revoked"]
        /\ Keep /\ UNCHANGED shared
     \/ /\ Lose
        /\ shared' = shared \cup {request[q].of}
        /\ UNCHANGED token
  /\ Become(q, [request[q] EXCEPT !.at = "issue"])
  /\ UNCHANGED << session, ends, lineage >>

\* CreateRefreshToken
InsertToken(q, t) ==
  /\ request[q].at = "issue"
  /\ token[t] = "absent"
  /\ token' = [token EXCEPT ![t] = "valid"]
  /\ LET p == request[q].of
     IN /\ parent' = [parent EXCEPT ![t] = p]
        /\ began' = [began EXCEPT ![t] = IF p = NoToken THEN ends ELSE began[p]]
        /\ excused' = IF p # NoToken /\ (p \in excused \/ request[q].since # ends)
                      THEN excused \cup {t} ELSE excused
  /\ Become(q, [at |-> "list", of |-> t])
  /\ UNCHANGED << session, ends, lost, shared >>

\* CreateUserSession: a failure is logged.
InsertSession(q) ==
  /\ request[q].at = "list"
  /\ \/ session' = [session EXCEPT ![request[q].of] = "valid"] /\ Keep
     \/ Lose /\ UNCHANGED session
  /\ Become(q, Resting)
  /\ UNCHANGED << token, ends, lineage, shared >>

\* An error, or a client that hung up: the statements still to come are not issued.
CutOff(q) ==
  /\ request[q] # Resting
  /\ Lose
  /\ Become(q, Resting)
  /\ UNCHANGED << token, session, ends, lineage, shared >>

-----------------------------------------------------------------------------
(* Ends of sessions. *)

EndAll == ends < MaxEnds /\ ends' = ends + 1

\* Mutant: a logout revokes the token of its own session only.
LogoutHere ==
  /\ EndAll
  /\ \/ \E t \in Token : token' = [token EXCEPT ![t] = IF @ = "valid" THEN "revoked" ELSE @]
                         /\ Keep /\ UNCHANGED excused
     \/ Lose /\ UNCHANGED token /\ excused' = excused \cup ValidTokens
  /\ UNCHANGED << session, request, parent, began, shared >>

\* Logout, and a change of the password that ends the other sessions:
\* RevokeAllUserTokens, its error dropped. The sessions stay listed.
Logout ==
  /\ EndAll
  /\ \/ token' = AllRevoked /\ Keep /\ UNCHANGED excused
     \/ Lose /\ UNCHANGED token /\ excused' = excused \cup ValidTokens
  /\ UNCHANGED << session, request, parent, began, shared >>

\* RevokeAllSessions, in one transaction; an error is answered, and nothing done.
RevokeAllSessions ==
  /\ EndAll
  /\ token' = AllRevoked
  /\ session' = [t \in Token |-> IF session[t] = "valid" THEN "revoked" ELSE session[t]]
  /\ UNCHANGED << request, lost, lineage, shared >>

\* RevokeSession of one that is listed: its token first, the errors dropped.
RevokeSession(q, t) ==
  /\ request[q] = Resting
  /\ session[t] = "valid"
  /\ \/ token' = [token EXCEPT ![t] = "revoked"] /\ Keep
     \/ Lose /\ UNCHANGED token
  /\ Become(q, [at |-> "drop", of |-> t])
  /\ UNCHANGED << session, ends, lineage, shared >>

DropSession(q) ==
  /\ request[q].at = "drop"
  /\ session' = [session EXCEPT ![request[q].of] = "revoked"]
  /\ Become(q, Resting)
  /\ UNCHANGED << token, ends, lost, lineage, shared >>

SessionsNext ==
  \/ \E q \in Request :
        \/ Login(q) \/ RevokeOld(q) \/ InsertSession(q) \/ CutOff(q) \/ DropSession(q)
        \/ \E t \in Token : ReadToken(q, t) \/ InsertToken(q, t) \/ RevokeSession(q, t)
  \/ Logout \/ RevokeAllSessions

SessionsSpec == SessionsInit /\ [][SessionsNext]_sessionVars

-----------------------------------------------------------------------------
SessionsTypeOK ==
  /\ token \in [Token -> {"absent", "valid", "revoked"}]
  /\ session \in [Token -> {"absent", "valid", "revoked"}]
  /\ request \in [Request -> Running \cup {Resting}]
  /\ ends \in Nat /\ lost \in Nat
  /\ parent \in [Token -> Token \cup {NoToken}]
  /\ began \in [Token -> Nat]
  /\ excused \subseteq Token /\ shared \subseteq Token

\* A token that is still valid goes back, through all the refreshes in between, to
\* a login after the last logout, unless one of these refreshes was under way at a
\* logout (which inserts a valid token after every token was revoked), or the
\* statement of the logout was lost (RefreshAccessToken, Logout, RevokeAllSessions).
LogoutHolds ==
  \A t \in Token \ excused : token[t] = "valid" => began[t] = ends

\* A token is exchanged for one new token at most, although it is read and revoked
\* by two statements, unless two refreshes had both read it before the first
\* of them revoked it, or the revocation was lost (RefreshAccessToken).
OneSuccessor ==
  \A t \in Token \ shared : Cardinality({ c \in Token : parent[c] = t }) <= 1

\* OneSuccessor without counting.
OneChild ==
  \A t \in Token \ shared : \A c, d \in Token : parent[c] = t /\ parent[d] = t => c = d

\* Request q has read token t to exchange it.
Exchanging(q, t) == request[q].at \in {"read", "issue"} /\ request[q].of = t

\* What makes the two properties inductive. A token that has been exchanged, or is
\* about to be, exists; and until an exchange inserts the new token, it is the only
\* one of its token, which has no successor.
ExchangesSound ==
  \A t \in Token :
    /\ (\E c \in Token : parent[c] = t) => token[t] # "absent"
    /\ \A q \in Request : Exchanging(q, t) => token[t] # "absent" /\ request[q].since <= ends
    /\ t \notin shared =>
         /\ (\E c \in Token : parent[c] = t) => token[t] = "revoked"
         /\ \A q \in Request : Exchanging(q, t) =>
              /\ \A c \in Token : parent[c] # t
              /\ request[q].at = "issue" => token[t] = "revoked"
              /\ \A p \in Request : Exchanging(p, t) => p = q

\* A refresh that has seen no logout since it read its token goes back to a login
\* after the last one.
RefreshesCurrent ==
  \A q \in Request : \A t \in Token \ excused :
    Exchanging(q, t) /\ request[q].since = ends => began[t] = ends
=============================================================================
