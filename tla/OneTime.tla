-------------------------------- MODULE OneTime --------------------------------
(* What a learner may use once: the backup codes beside the two-factor secret  *)
(* (UseBackupCode of services/auth_service.go, the handlers of                  *)
(* handlers/profile.go) and the links that reset a password                     *)
(* (handlers/auth.go, services/crypto_service.go). Both are read by one          *)
(* statement and used up by a later one, while other requests run.              *)
EXTENDS Integers, FiniteSets

CONSTANTS
  Codes,         \* the backup codes of a secret (10)
  Links,         \* tokens that reset the password
  Uses,          \* requests that use a code or a link
  MaxSetups,     \* bound: secrets set up
  MaxAccidents   \* bound: statements that fail

ASSUME OneTimeAssumption ==
  MaxSetups \in Nat /\ MaxAccidents \in Nat

VARIABLES
  factor,      \* two_factor_secrets: secret (0 for no row), the codes left and is_enabled
  reset,       \* password_reset_tokens: absent, valid or revoked
  use,         \* requests that use a code or a link, under way
  owner,       \* the request of the owner's settings page under way
  secrets,     \* how many secrets were set up
  accidents,
  wanted,      \* history: whether the owner has switched two-factor on
  verified,    \* history: secrets of which the owner has proved a code
  codeUses,    \* history: how often each code of each secret was accepted
  linkUses,    \* history: how often each link set a password
  unsettled,   \* history: a use of a code was cut off half-way, or another change of the
               \* secret fell into it, or a set-up into the enabling of another secret
  clashed      \* history: codes were used, or a link, while another use was under way,
               \* or the revocation of a link was not reached

oneTimeVars == << factor, reset, use, owner, secrets, accidents, wanted, verified, codeUses, linkUses,
                  unsettled, clashed >>
factorVars == << factor, owner, secrets, wanted, verified, codeUses, unsettled >>
resetVars == << reset, linkUses >>

Unused == [at |-> "idle"]
AtEase == [at |-> "idle"]
Code == (1..MaxSetups) \X Codes
Use ==
       [at: {"matched", "rewritten"}, code: Code, secret: 0..MaxSetups, codes: SUBSET Code]
  \cup [at: {"verified", "set"}, link: Links]

OneTimeInit ==
  /\ factor = [secret |-> 0, codes |-> {}, enabled |-> FALSE]
  /\ reset = [l \in Links |-> "absent"]
  /\ use = [u \in Uses |-> Unused]
  /\ owner = AtEase
  /\ secrets = 0
  /\ accidents = 0
  /\ wanted = FALSE
  /\ verified = {}
  /\ codeUses = [c \in Code |-> 0]
  /\ linkUses = [l \in Links |-> 0]
  /\ unsettled = FALSE
  /\ clashed = FALSE

Proceed(u, r) == use' = [use EXCEPT ![u] = r]
Accident == accidents < MaxAccidents /\ accidents' = accidents + 1
UsingCodes == \E u \in Uses : use[u].at \in {"matched", "rewritten"}

-----------------------------------------------------------------------------
(* The settings of the owner. *)

\* Setup2FA: a new secret, new codes, not enabled.
Setup2FA ==
  /\ secrets < MaxSetups
  /\ secrets' = secrets + 1
  /\ factor' = [secret |-> secrets + 1, codes |-> {secrets + 1} \X Codes, enabled |-> FALSE]
  /\ wanted' = FALSE
  /\ unsettled' = (unsettled \/ UsingCodes \/ owner # AtEase)
  /\ UNCHANGED << resetVars, use, owner, accidents, verified, codeUses, clashed >>

\* Enable2FA and Disable2FA read the secret and verify a code of it ...
ProveFactor(on) ==
  /\ owner = AtEase
  /\ factor.secret # 0
  /\ ~on => factor.enabled
  /\ owner' = [at |-> "proved", on |-> on]
  /\ verified' = verified \cup {factor.secret}
  /\ UNCHANGED << factor, resetVars, use, secrets, accidents, wanted, codeUses, unsettled, clashed >>

\* ... and write is_enabled by a second statement.
SwitchFactor ==
  /\ owner # AtEase
  /\ factor' = [factor EXCEPT !.enabled = owner.on]
  /\ wanted' = owner.on
  /\ owner' = AtEase
  /\ unsettled' = (unsettled \/ UsingCodes)
  /\ UNCHANGED << resetVars, use, secrets, accidents, verified, codeUses, clashed >>

OwnerFails ==
  /\ owner # AtEase
  /\ Accident
  /\ owner' = AtEase
  /\ UNCHANGED << factor, resetVars, use, secrets, wanted, verified, codeUses, unsettled, clashed >>

-----------------------------------------------------------------------------
(* UseBackupCode. *)

\* GetTwoFactorSecret and VerifyBackupCode.
MatchCode(u, c) ==
  /\ use[u] = Unused
  /\ factor.enabled /\ c \in factor.codes
  /\ Proceed(u, [at |-> "matched", code |-> c, secret |-> factor.secret, codes |-> factor.codes \ {c}])
  /\ clashed' = (clashed \/ UsingCodes)
  /\ UNCHANGED << factorVars, resetVars, accidents >>

\* Mutant: the codes are written back as they were read.
RewriteAsRead(u) ==
  /\ use[u].at = "matched"
  /\ factor' = [secret |-> use[u].secret, codes |-> use[u].codes \cup {use[u].code}, enabled |-> FALSE]
  /\ Proceed(u, [use[u] EXCEPT !.at = "rewritten"])
  /\ UNCHANGED << resetVars, owner, secrets, accidents, wanted, verified, codeUses, unsettled, clashed >>

\* UpsertTwoFactorSecret writes the secret and the codes that are left, as they were
\* read, and is_enabled = FALSE.
RewriteFactor(u) ==
  /\ use[u].at = "matched"
  /\ factor' = [secret |-> use[u].secret, codes |-> use[u].codes, enabled |-> FALSE]
  /\ Proceed(u, [use[u] EXCEPT !.at = "rewritten"])
  /\ UNCHANGED << resetVars, owner, secrets, accidents, wanted, verified, codeUses, unsettled, clashed >>

\* Mutant: the second statement is forgotten.
AcceptWithoutEnabling(u) ==
  /\ use[u].at = "rewritten"
  /\ codeUses' = [codeUses EXCEPT ![use[u].code] = @ + 1]
  /\ Proceed(u, Unused)
  /\ UNCHANGED << factor, resetVars, owner, secrets, accidents, wanted, verified, unsettled, clashed >>

\* EnableTwoFactor; the code is accepted and the learner logged in.
AcceptCode(u) ==
  /\ use[u].at = "rewritten"
  /\ factor' = [factor EXCEPT !.enabled = TRUE]
  /\ codeUses' = [codeUses EXCEPT ![use[u].code] = @ + 1]
  /\ Proceed(u, Unused)
  /\ UNCHANGED << resetVars, owner, secrets, accidents, wanted, verified, unsettled, clashed >>

\* A statement fails, or the request is cut off: an error is answered.
CodeFails(u) ==
  /\ use[u].at \in {"matched", "rewritten"}
  /\ Accident
  /\ Proceed(u, Unused)
  /\ unsettled' = (unsettled \/ use[u].at = "rewritten")
  /\ UNCHANGED << factor, resetVars, owner, secrets, wanted, verified, codeUses, clashed >>

-----------------------------------------------------------------------------
(* A link that resets the password. *)

\* The goroutine of ForgotPassword, on the context of a request that is answered
\* already: it inserts the token and mails the link, or it comes to nothing.
ForgotPassword(l) ==
  /\ reset[l] = "absent"
  /\ reset' = [reset EXCEPT ![l] = "valid"]
  /\ UNCHANGED << factorVars, use, accidents, linkUses, clashed >>

VerifyLink(u, l) ==
  /\ use[u] = Unused
  /\ reset[l] = "valid"
  /\ Proceed(u, [at |-> "verified", link |-> l])
  /\ clashed' = (clashed \/ \E w \in Uses : use[w].at \in {"verified", "set"} /\ use[w].link = l)
  /\ UNCHANGED << factorVars, resetVars, accidents >>

\* UpdatePassword, and RevokeAllSessions after it; when that fails, an error is
\* answered and the link stays as it was.
SetPassword(u) ==
  /\ use[u].at = "verified"
  /\ linkUses' = [linkUses EXCEPT ![use[u].link] = @ + 1]
  /\ \/ Proceed(u, [use[u] EXCEPT !.at = "set"]) /\ UNCHANGED << accidents, clashed >>
     \/ Accident /\ Proceed(u, Unused) /\ clashed' = TRUE
  /\ UNCHANGED << factorVars, reset >>

\* RevokePasswordResetToken, its error dropped.
RevokeLink(u) ==
  /\ use[u].at = "set"
  /\ \/ reset' = [reset EXCEPT ![use[u].link] = "revoked"] /\ UNCHANGED << accidents, clashed >>
     \/ Accident /\ clashed' = TRUE /\ UNCHANGED reset
  /\ Proceed(u, Unused)
  /\ UNCHANGED << factorVars, linkUses >>

LinkFails(u) ==
  /\ use[u].at = "verified"
  /\ Accident
  /\ Proceed(u, Unused)
  /\ UNCHANGED << factorVars, resetVars, clashed >>

OneTimeNext ==
  \/ Setup2FA \/ SwitchFactor \/ OwnerFails
  \/ \E on \in BOOLEAN : ProveFactor(on)
  \/ \E l \in Links : ForgotPassword(l)
  \/ \E u \in Uses :
        \/ RewriteFactor(u) \/ AcceptCode(u) \/ CodeFails(u)
        \/ SetPassword(u) \/ RevokeLink(u) \/ LinkFails(u)
        \/ \E c \in Code : MatchCode(u, c)
        \/ \E l \in Links : VerifyLink(u, l)

OneTimeSpec == OneTimeInit /\ [][OneTimeNext]_oneTimeVars

-----------------------------------------------------------------------------
OneTimeTypeOK ==
  /\ factor \in [secret: 0..MaxSetups, codes: SUBSET Code, enabled: BOOLEAN]
  /\ reset \in [Links -> {"absent", "valid", "revoked"}]
  /\ use \in [Uses -> Use \cup {Unused}]
  /\ owner \in [at: {"proved"}, on: BOOLEAN] \cup {AtEase}
  /\ secrets \in 0..MaxSetups /\ accidents \in Nat
  /\ wanted \in BOOLEAN
  /\ verified \subseteq 0..MaxSetups
  /\ codeUses \in [Code -> Nat] /\ linkUses \in [Links -> Nat]
  /\ unsettled \in BOOLEAN /\ clashed \in BOOLEAN

\* Two-factor is on when the owner has switched it on, for the secret set up last, of
\* which the owner has proved a code; except while a backup code is between its two
\* statements, or after it was cut off there, or after a change of the owner fell
\* into the use of a code or into the enabling of another secret (UseBackupCode, Setup2FA,
\* Enable2FA, Disable2FA).
FactorAsWanted ==
  \/ unsettled
  \/ \E u \in Uses : use[u].at = "rewritten"
  \/ /\ factor.enabled = wanted
     /\ factor.secret = secrets
     /\ factor.enabled => factor.secret \in verified

\* A backup code is accepted once, and a link sets a password once, although both are
\* read by one statement and used up by another, unless two uses overlapped or the
\* link's revocation was lost; a use that puts an older secret back, over one that was
\* set up meanwhile, puts no used code back (UseBackupCode, ResetPassword).
UsedOnce ==
  ~clashed =>
    /\ \A c \in Code : codeUses[c] <= 1
    /\ \A l \in Links : linkUses[l] <= 1

\* Request u is using a code, or the link l.
UsesCode(u) == use[u].at \in {"matched", "rewritten"}
UsesLink(u, l) == use[u].at \in {"verified", "set"} /\ use[u].link = l

\* What makes FactorAsWanted inductive. While codes are used, two-factor is wanted, and
\* each of their requests writes the secret set up last.
FactorSound ==
  ~unsettled =>
    /\ factor.secret = secrets
    /\ wanted \/ owner # AtEase => secrets \in verified
    /\ \A u \in Uses : UsesCode(u) => wanted /\ use[u].secret = secrets
    /\ (\A u \in Uses : use[u].at # "rewritten") => factor.enabled = wanted

\* Codes are those of secrets set up, and those of later secrets were never accepted.
CodesKnown ==
  /\ \A c \in factor.codes : c[1] <= secrets
  /\ \A u \in Uses : UsesCode(u) => use[u].code[1] <= secrets /\ \A c \in use[u].codes : c[1] <= secrets
  /\ \A c \in Code : c[1] > secrets => codeUses[c] = 0

\* What makes UsedOnce inductive, for codes: one request uses them at a time, and what
\* it is about to accept, or to write back, was not accepted yet.
CodesSound ==
  ~clashed =>
    /\ \A c \in Code : codeUses[c] <= 1
    /\ \A c \in factor.codes : codeUses[c] = 0
    /\ \A u, v \in Uses : UsesCode(u) /\ UsesCode(v) => u = v
    /\ \A u \in Uses : UsesCode(u) =>
         /\ codeUses[use[u].code] = 0
         /\ use[u].at = "rewritten" => use[u].code \notin factor.codes
         /\ use[u].at = "matched" =>
              use[u].code \notin use[u].codes /\ \A c \in use[u].codes : codeUses[c] = 0

\* The same for links: one that set a password is revoked, or about to be.
LinksSound ==
  /\ \A l \in Links : reset[l] = "absent" => linkUses[l] = 0 /\ \A u \in Uses : ~UsesLink(u, l)
  /\ ~clashed => \A l \in Links :
       /\ linkUses[l] <= 1
       /\ \A u, v \in Uses : UsesLink(u, l) /\ UsesLink(v, l) => u = v
       /\ \A u \in Uses : UsesLink(u, l) /\ use[u].at = "verified" => linkUses[l] = 0
       /\ linkUses[l] = 1 => reset[l] = "revoked" \/ \E u \in Uses : UsesLink(u, l) /\ use[u].at = "set"
=============================================================================
