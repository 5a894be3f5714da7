---------------------------- MODULE OneTime_proofs ----------------------------
(* Proofs about OneTime: two-factor stays as the owner wants it, and codes and  *)
(* links are used once, except for the overlaps and faults that the module      *)
(* names, for any number of requests, codes and links. The last part is about   *)
(* MCServer: side by side, the three parts of the server behave as each does    *)
(* alone, so that what is proved of a part holds in MCServer's behaviours.      *)
EXTENDS Access_proofs, MCServer

LEMMA UseKinds ==
  ASSUME OneTimeTypeOK, NEW u \in Uses
  PROVE  /\ use[u].at \in {"idle", "matched", "rewritten", "verified", "set"}
         /\ UsesCode(u) => /\ use[u].code \in Code /\ use[u].secret \in 0..MaxSetups /\ use[u].codes \subseteq Code
                           /\ use[u] = [at |-> use[u].at, code |-> use[u].code, secret |-> use[u].secret, codes |-> use[u].codes]
         /\ use[u].at \in {"verified", "set"} =>
              use[u].link \in Links /\ use[u] = [at |-> use[u].at, link |-> use[u].link]
  BY DEF OneTimeTypeOK, Use, Unused, UsesCode

\* What a change of use does to the other requests.
LEMMA ProceedEffect ==
  ASSUME OneTimeTypeOK, NEW u \in Uses, NEW r, Proceed(u, r)
  PROVE  use'[u] = r /\ \A v \in Uses \ {u} : use'[v] = use[v]
  BY DEF OneTimeTypeOK, Proceed

-----------------------------------------------------------------------------
(* Types. *)

LEMMA OneTimeTypeInit == OneTimeInit => OneTimeTypeOK
<1> SUFFICES ASSUME OneTimeInit PROVE OneTimeTypeOK
  OBVIOUS
<1> USE OneTimeAssumption DEF OneTimeInit, OneTimeAssumption
<1>1. factor \in [secret: 0..MaxSetups, codes: SUBSET Code, enabled: BOOLEAN]
  OBVIOUS
<1>2. use \in [Uses -> Use \cup {Unused}]
  OBVIOUS
<1>3. codeUses \in [Code -> Nat] /\ linkUses \in [Links -> Nat] /\ verified \subseteq 0..MaxSetups
  OBVIOUS
<1>4. QED
  BY <1>1, <1>2, <1>3 DEF OneTimeTypeOK

LEMMA OneTimeTypeStep ==
  ASSUME OneTimeTypeOK, [OneTimeNext]_oneTimeVars
  PROVE  OneTimeTypeOK'
<1> USE OneTimeAssumption DEF OneTimeTypeOK, OneTimeAssumption
<1>1. ASSUME Setup2FA
      PROVE  OneTimeTypeOK'
  <2>1. {secrets + 1} \X Codes \subseteq Code
    <3>1. secrets + 1 \in 1..MaxSetups
      BY <1>1 DEF Setup2FA
    <3>2. QED
      BY <3>1, Zenon DEF Code
  <2>2. unsettled' \in BOOLEAN
    BY <1>1 DEF Setup2FA
  <2>3. factor' \in [secret: 0..MaxSetups, codes: SUBSET Code, enabled: BOOLEAN]
    BY <1>1, <2>1 DEF Setup2FA
  <2>4. QED
    BY <1>1, <2>2, <2>3 DEF Setup2FA, resetVars
<1>2. ASSUME NEW on \in BOOLEAN, ProveFactor(on)
      PROVE  OneTimeTypeOK'
  BY <1>2 DEF ProveFactor, resetVars
<1>3. ASSUME SwitchFactor
      PROVE  OneTimeTypeOK'
  <2>1. owner.on \in BOOLEAN
    BY <1>3 DEF SwitchFactor, AtEase
  <2>2. [factor EXCEPT !.enabled = owner.on] \in [secret: 0..MaxSetups, codes: SUBSET Code, enabled: BOOLEAN]
    BY <2>1
  <2>3. unsettled' \in BOOLEAN
    BY <1>3 DEF SwitchFactor
  <2>4. QED
    BY <1>3, <2>1, <2>2, <2>3 DEF SwitchFactor, resetVars
<1>4. ASSUME OwnerFails
      PROVE  OneTimeTypeOK'
  BY <1>4 DEF OwnerFails, resetVars, Accident
<1>5. ASSUME NEW l \in Links, ForgotPassword(l)
      PROVE  OneTimeTypeOK'
  BY <1>5 DEF ForgotPassword, factorVars
<1>6. ASSUME NEW u \in Uses, NEW c \in Code, MatchCode(u, c)
      PROVE  OneTimeTypeOK'
  <2>1. [at |-> "matched", code |-> c, secret |-> factor.secret, codes |-> factor.codes \ {c}] \in Use
    BY DEF Use
  <2>2. QED
    BY <1>6, <2>1 DEF MatchCode, Proceed, factorVars, resetVars, UsingCodes
<1>7. ASSUME NEW u \in Uses, RewriteFactor(u)
      PROVE  OneTimeTypeOK'
  <2>1. [use[u] EXCEPT !.at = "rewritten"] \in Use
    BY <1>7, UseKinds DEF RewriteFactor, Use, UsesCode
  <2>2. QED
    BY <1>7, <2>1, UseKinds DEF RewriteFactor, Proceed, resetVars, UsesCode
<1>8. ASSUME NEW u \in Uses, AcceptCode(u)
      PROVE  OneTimeTypeOK'
  <2>1. use[u].code \in Code
    BY <1>8, UseKinds DEF AcceptCode, UsesCode
  <2>2. [factor EXCEPT !.enabled = TRUE] \in [secret: 0..MaxSetups, codes: SUBSET Code, enabled: BOOLEAN]
    OBVIOUS
  <2>3. QED
    BY <1>8, <2>1, <2>2 DEF AcceptCode, Proceed, resetVars
<1>9. ASSUME NEW u \in Uses, CodeFails(u)
      PROVE  OneTimeTypeOK'
  BY <1>9 DEF CodeFails, Proceed, resetVars, Accident
<1>10. ASSUME NEW u \in Uses, NEW l \in Links, VerifyLink(u, l)
       PROVE  OneTimeTypeOK'
  <2>1. [at |-> "verified", link |-> l] \in Use
    BY DEF Use
  <2>2. QED
    BY <1>10, <2>1 DEF VerifyLink, Proceed, factorVars, resetVars
<1>11. ASSUME NEW u \in Uses, SetPassword(u)
       PROVE  OneTimeTypeOK'
  <2>1. use[u].link \in Links /\ [use[u] EXCEPT !.at = "set"] \in Use
    <3>1. use[u].link \in Links /\ use[u] = [at |-> "verified", link |-> use[u].link]
      BY <1>11, UseKinds DEF SetPassword
    <3>2. [use[u] EXCEPT !.at = "set"] = [at |-> "set", link |-> use[u].link]
      BY <3>1
    <3>3. QED
      BY <3>1, <3>2 DEF Use
  <2>2. linkUses' \in [Links -> Nat]
    BY <1>11, <2>1 DEF SetPassword
  <2>3. accidents' \in Nat
    BY <1>11 DEF SetPassword, Accident
  <2>4. clashed' \in BOOLEAN
    BY <1>11 DEF SetPassword, Accident
  <2>5. use' \in [Uses -> Use \cup {Unused}]
    BY <1>11, <2>1 DEF SetPassword, Proceed
  <2>6. QED
    BY <1>11, <2>2, <2>3, <2>4, <2>5 DEF SetPassword, factorVars
<1>12. ASSUME NEW u \in Uses, RevokeLink(u)
       PROVE  OneTimeTypeOK'
  <2>1. use[u].link \in Links
    BY <1>12, UseKinds DEF RevokeLink
  <2>2. reset' \in [Links -> {"absent", "valid", "revoked"}]
    BY <1>12, <2>1 DEF RevokeLink
  <2>3. accidents' \in Nat
    BY <1>12 DEF RevokeLink, Accident
  <2>4. clashed' \in BOOLEAN
    BY <1>12 DEF RevokeLink, Accident
  <2>5. use' \in [Uses -> Use \cup {Unused}]
    BY <1>12, <2>1 DEF RevokeLink, Proceed
  <2>6. QED
    BY <1>12, <2>2, <2>3, <2>4, <2>5 DEF RevokeLink, factorVars
<1>13. ASSUME NEW u \in Uses, LinkFails(u)
       PROVE  OneTimeTypeOK'
  BY <1>13 DEF LinkFails, Proceed, factorVars, resetVars, Accident
<1>14. ASSUME UNCHANGED oneTimeVars
       PROVE  OneTimeTypeOK'
  BY <1>14 DEF oneTimeVars
<1>15. QED
  BY <1>1, <1>2, <1>3, <1>4, <1>5, <1>6, <1>7, <1>8, <1>9, <1>10, <1>11, <1>12, <1>13, <1>14 DEF OneTimeNext

-----------------------------------------------------------------------------
(* Codes and links do not disturb each other. *)

LinkStep == \/ \E l \in Links : ForgotPassword(l)
            \/ \E u \in Uses : \/ SetPassword(u) \/ RevokeLink(u) \/ LinkFails(u)
                               \/ \E l \in Links : VerifyLink(u, l)

OwnerStep == Setup2FA \/ SwitchFactor \/ OwnerFails \/ \E on \in BOOLEAN : ProveFactor(on)

\* No step makes a clash undone.
LEMMA ClashesStay ==
  ASSUME OneTimeTypeOK, [OneTimeNext]_oneTimeVars, ~clashed'
  PROVE  ~clashed
  BY DEF OneTimeNext, oneTimeVars, factorVars, resetVars, Setup2FA, SwitchFactor, OwnerFails, ProveFactor,
     ForgotPassword, RewriteFactor, AcceptCode, CodeFails, SetPassword, RevokeLink, LinkFails, MatchCode, VerifyLink

LEMMA UnsettledStays ==
  ASSUME OneTimeTypeOK, [OneTimeNext]_oneTimeVars, ~unsettled'
  PROVE  ~unsettled
  BY DEF OneTimeNext, oneTimeVars, factorVars, resetVars, Setup2FA, SwitchFactor, OwnerFails, ProveFactor,
     ForgotPassword, RewriteFactor, AcceptCode, CodeFails, SetPassword, RevokeLink, LinkFails, MatchCode, VerifyLink

\* A step of a link leaves the requests with a code as they were.
LEMMA LinkStepKeepsCodes ==
  ASSUME OneTimeTypeOK, LinkStep
  PROVE  /\ UNCHANGED factorVars
         /\ \A v \in Uses : /\ UsesCode(v)' <=> UsesCode(v)
                            /\ UsesCode(v) => use'[v] = use[v]
<1>1. ASSUME NEW l \in Links, ForgotPassword(l)
      PROVE  UNCHANGED factorVars /\ use' = use
  BY <1>1 DEF ForgotPassword
<1>2. ASSUME NEW u \in Uses, SetPassword(u) \/ RevokeLink(u) \/ LinkFails(u) \/ \E l \in Links : VerifyLink(u, l)
      PROVE  /\ UNCHANGED factorVars
             /\ ~UsesCode(u) /\ ~UsesCode(u)'
             /\ \A v \in Uses \ {u} : use'[v] = use[v]
  <2>1. ASSUME NEW r, Proceed(u, r), r.at \notin {"matched", "rewritten"}
        PROVE  ~UsesCode(u)' /\ \A v \in Uses \ {u} : use'[v] = use[v]
    BY <2>1, ProceedEffect DEF UsesCode
  <2>2. ASSUME SetPassword(u)
        PROVE  /\ UNCHANGED factorVars /\ ~UsesCode(u)
               /\ Proceed(u, Unused) \/ Proceed(u, [use[u] EXCEPT !.at = "set"])
               /\ [use[u] EXCEPT !.at = "set"].at = "set"
    <3>1. use[u] = [at |-> use[u].at, link |-> use[u].link]
      BY <2>2, UseKinds DEF SetPassword
    <3>2. QED
      BY <2>2, <3>1 DEF SetPassword, UsesCode
  <2>3. ASSUME RevokeLink(u)
        PROVE  UNCHANGED factorVars /\ ~UsesCode(u) /\ Proceed(u, Unused)
    BY <2>3 DEF RevokeLink, UsesCode
  <2>4. ASSUME LinkFails(u)
        PROVE  UNCHANGED factorVars /\ ~UsesCode(u) /\ Proceed(u, Unused)
    BY <2>4 DEF LinkFails, UsesCode
  <2>5. ASSUME NEW l \in Links, VerifyLink(u, l)
        PROVE  UNCHANGED factorVars /\ ~UsesCode(u) /\ Proceed(u, [at |-> "verified", link |-> l])
    BY <2>5 DEF VerifyLink, UsesCode, Unused
  <2>6. Unused.at \notin {"matched", "rewritten"}
    BY DEF Unused
  <2>7. ASSUME NEW l \in Links
        PROVE  [at |-> "verified", link |-> l].at \notin {"matched", "rewritten"}
    OBVIOUS
  <2>8. QED
    BY <1>2, <2>1, <2>2, <2>3, <2>4, <2>5, <2>6, <2>7
<1>3. QED
  BY <1>1, <1>2 DEF LinkStep, UsesCode

\* A step of a code, and of the owner, leaves the links and their requests as they were.
LEMMA CodeStepKeepsLinks ==
  ASSUME OneTimeTypeOK, NEW u \in Uses,
         RewriteFactor(u) \/ AcceptCode(u) \/ CodeFails(u) \/ \E c \in Code : MatchCode(u, c)
  PROVE  /\ UNCHANGED resetVars
         /\ \A v \in Uses \ {u} : use'[v] = use[v]
         /\ use[u].at \notin {"verified", "set"} /\ use'[u].at \notin {"verified", "set"}
<1>1. ASSUME NEW r, Proceed(u, r), r.at \notin {"verified", "set"}
      PROVE  use'[u].at \notin {"verified", "set"} /\ \A v \in Uses \ {u} : use'[v] = use[v]
  BY <1>1, ProceedEffect
<1>2. ASSUME RewriteFactor(u)
      PROVE  /\ UNCHANGED resetVars /\ use[u].at \notin {"verified", "set"}
             /\ Proceed(u, [use[u] EXCEPT !.at = "rewritten"])
             /\ [use[u] EXCEPT !.at = "rewritten"].at = "rewritten"
  <2>1. use[u] = [at |-> use[u].at, code |-> use[u].code, secret |-> use[u].secret, codes |-> use[u].codes]
    BY <1>2, UseKinds DEF RewriteFactor, UsesCode
  <2>2. QED
    BY <1>2, <2>1 DEF RewriteFactor
<1>3. ASSUME AcceptCode(u)
      PROVE  UNCHANGED resetVars /\ use[u].at \notin {"verified", "set"} /\ Proceed(u, Unused)
  BY <1>3 DEF AcceptCode
<1>4. ASSUME CodeFails(u)
      PROVE  UNCHANGED resetVars /\ use[u].at \notin {"verified", "set"} /\ Proceed(u, Unused)
  BY <1>4 DEF CodeFails
<1>5. ASSUME NEW c \in Code, MatchCode(u, c)
      PROVE  /\ UNCHANGED resetVars /\ use[u].at \notin {"verified", "set"}
             /\ \E r : Proceed(u, r) /\ r.at = "matched"
  BY <1>5 DEF MatchCode, Unused
<1>6. Unused.at \notin {"verified", "set"}
  BY DEF Unused
<1>7. QED
  BY <1>1, <1>2, <1>3, <1>4, <1>5, <1>6

LEMMA OwnerStepKeepsUses ==
  ASSUME OwnerStep
  PROVE  UNCHANGED << resetVars, use, clashed, codeUses >>
  BY DEF OwnerStep, Setup2FA, SwitchFactor, OwnerFails, ProveFactor, resetVars

-----------------------------------------------------------------------------
(* Two-factor is as the owner wants it. *)

LEMMA FactorStep ==
  ASSUME OneTimeTypeOK, FactorSound, [OneTimeNext]_oneTimeVars
  PROVE  FactorSound'
<1> SUFFICES ASSUME ~unsettled'
             PROVE  FactorSound'
  BY DEF FactorSound
<1>1. ~unsettled
  BY UnsettledStays
<1> DEFINE Sound ==
      /\ factor.secret = secrets
      /\ wanted \/ owner # AtEase => secrets \in verified
      /\ \A u \in Uses : UsesCode(u) => wanted /\ use[u].secret = secrets
      /\ (\A u \in Uses : use[u].at # "rewritten") => factor.enabled = wanted
<1>2. Sound
  BY <1>1 DEF FactorSound
<1>3. SUFFICES Sound'
  BY DEF FactorSound
<1>4. ASSUME Setup2FA
      PROVE  Sound'
  <2>1. \A u \in Uses : ~UsesCode(u)'
    BY <1>4 DEF Setup2FA, UsingCodes, UsesCode
  <2>2. owner' = AtEase /\ ~wanted' /\ factor'.secret = secrets' /\ factor'.enabled = wanted'
    BY <1>4 DEF Setup2FA
  <2>3. QED
    BY <2>1, <2>2
<1>5. ASSUME NEW on \in BOOLEAN, ProveFactor(on)
      PROVE  Sound'
  BY <1>2, <1>5 DEF ProveFactor, UsesCode
<1>6. ASSUME SwitchFactor
      PROVE  Sound'
  <2>1. \A u \in Uses : ~UsesCode(u)'
    BY <1>6 DEF SwitchFactor, UsingCodes, UsesCode
  <2>2. factor'.secret = factor.secret /\ factor'.enabled = wanted' /\ owner' = AtEase
    BY <1>6 DEF SwitchFactor, OneTimeTypeOK
  <2>3. secrets' \in verified'
    BY <1>2, <1>6 DEF SwitchFactor
  <2>4. secrets' = secrets
    BY <1>6 DEF SwitchFactor
  <2>5. QED
    BY <1>2, <2>1, <2>2, <2>3, <2>4
<1>7. ASSUME OwnerFails
      PROVE  Sound'
  BY <1>2, <1>7 DEF OwnerFails, UsesCode
<1>8. ASSUME LinkStep
      PROVE  Sound'
  <2>1. /\ UNCHANGED << factor, owner, secrets, wanted, verified >>
        /\ \A v \in Uses : /\ UsesCode(v)' <=> UsesCode(v)
                           /\ UsesCode(v) => use'[v] = use[v]
    BY <1>8, LinkStepKeepsCodes DEF factorVars
  <2>2. \A v \in Uses : use[v].at = "rewritten" => use'[v].at = "rewritten"
    BY <2>1 DEF UsesCode
  <2>3. QED
    BY <1>2, <2>1, <2>2
<1>9. ASSUME NEW u \in Uses, NEW c \in Code, MatchCode(u, c)
      PROVE  Sound'
  <2>1. /\ UNCHANGED << factor, owner, secrets, wanted, verified >>
        /\ factor.enabled /\ use[u].at = "idle"
        /\ Proceed(u, [at |-> "matched", code |-> c, secret |-> factor.secret, codes |-> factor.codes \ {c}])
    BY <1>9 DEF MatchCode, factorVars, Unused
  <2>2. /\ use'[u].at = "matched" /\ use'[u].secret = factor.secret
        /\ \A v \in Uses \ {u} : use'[v] = use[v]
    BY <2>1, ProceedEffect
  <2>3. wanted
    <3>1. CASE \E v \in Uses : use[v].at = "rewritten"
      BY <1>2, <3>1 DEF UsesCode
    <3>2. CASE \A v \in Uses : use[v].at # "rewritten"
      BY <1>2, <2>1, <3>2
    <3>3. QED
      BY <3>1, <3>2
  <2>4. QED
    BY <1>2, <2>1, <2>2, <2>3 DEF UsesCode
<1>10. ASSUME NEW u \in Uses, RewriteFactor(u)
       PROVE  Sound'
  <2>1. /\ UNCHANGED << owner, secrets, wanted, verified >>
        /\ factor'.secret = use[u].secret
        /\ Proceed(u, [use[u] EXCEPT !.at = "rewritten"])
    BY <1>10 DEF RewriteFactor
  <2>2. UsesCode(u)
    BY <1>10 DEF RewriteFactor, UsesCode
  <2>3. [use[u] EXCEPT !.at = "rewritten"] = [at |-> "rewritten", code |-> use[u].code, secret |-> use[u].secret, codes |-> use[u].codes]
    <3>1. use[u] = [at |-> use[u].at, code |-> use[u].code, secret |-> use[u].secret, codes |-> use[u].codes]
      BY <2>2, UseKinds
    <3>2. QED
      BY <3>1
  <2>4. /\ use'[u].at = "rewritten" /\ use'[u].secret = use[u].secret
        /\ \A v \in Uses \ {u} : use'[v] = use[v]
    BY <2>1, <2>3, ProceedEffect
  <2>5. QED
    BY <1>2, <2>1, <2>2, <2>4 DEF UsesCode
<1>11. ASSUME NEW u \in Uses, AcceptCode(u)
       PROVE  Sound'
  <2>1. /\ UNCHANGED << owner, secrets, wanted, verified >>
        /\ factor'.secret = factor.secret /\ factor'.enabled = TRUE
        /\ Proceed(u, Unused) /\ use[u].at = "rewritten"
    BY <1>11 DEF AcceptCode, OneTimeTypeOK
  <2>2. use'[u].at = "idle" /\ \A v \in Uses \ {u} : use'[v] = use[v]
    BY <2>1, ProceedEffect DEF Unused
  <2>3. wanted = TRUE
    BY <1>2, <2>1 DEF UsesCode, OneTimeTypeOK
  <2>4. factor'.enabled = wanted'
    BY <2>1, <2>3
  <2>5. \A v \in Uses : UsesCode(v)' => UsesCode(v) /\ use'[v] = use[v]
    BY <2>2 DEF UsesCode
  <2>6. wanted => wanted'
    BY <2>1
  <2>7. QED
    BY <1>2, <2>1, <2>4, <2>5, <2>6
<1>12. ASSUME NEW u \in Uses, CodeFails(u)
       PROVE  Sound'
  <2>1. /\ UNCHANGED << factor, owner, secrets, wanted, verified >>
        /\ Proceed(u, Unused) /\ use[u].at = "matched"
    BY <1>12 DEF CodeFails
  <2>2. use'[u].at = "idle" /\ \A v \in Uses \ {u} : use'[v] = use[v]
    BY <2>1, ProceedEffect DEF Unused
  <2>3. QED
    BY <1>2, <2>1, <2>2 DEF UsesCode
<1>13. ASSUME UNCHANGED oneTimeVars
       PROVE  Sound'
  BY <1>2, <1>13 DEF oneTimeVars, UsesCode
<1>14. QED
  BY <1>4, <1>5, <1>6, <1>7, <1>8, <1>9, <1>10, <1>11, <1>12, <1>13 DEF OneTimeNext, LinkStep

-----------------------------------------------------------------------------
(* A backup code is accepted once. *)

\* What each step of a code does.
LEMMA RewriteEffect ==
  ASSUME OneTimeTypeOK, NEW u \in Uses, RewriteFactor(u)
  PROVE  /\ use[u].at = "matched" /\ UsesCode(u) /\ UsesCode(u)'
         /\ use'[u].at = "rewritten" /\ use'[u].code = use[u].code /\ use'[u].codes = use[u].codes
         /\ factor'.codes = use[u].codes
         /\ \A v \in Uses \ {u} : use'[v] = use[v]
         /\ UNCHANGED << secrets, codeUses, clashed, unsettled >>
<1>1. use[u].at = "matched" /\ UsesCode(u)
  BY DEF RewriteFactor, UsesCode
<1>2. use[u] = [at |-> use[u].at, code |-> use[u].code, secret |-> use[u].secret, codes |-> use[u].codes]
  BY <1>1, UseKinds
<1>3. [use[u] EXCEPT !.at = "rewritten"]
        = [at |-> "rewritten", code |-> use[u].code, secret |-> use[u].secret, codes |-> use[u].codes]
  BY <1>2
<1>4. /\ use'[u] = [at |-> "rewritten", code |-> use[u].code, secret |-> use[u].secret, codes |-> use[u].codes]
      /\ \A v \in Uses \ {u} : use'[v] = use[v]
  BY <1>3, ProceedEffect DEF RewriteFactor
<1>5. QED
  BY <1>1, <1>4 DEF RewriteFactor, UsesCode

LEMMA AcceptEffect ==
  ASSUME OneTimeTypeOK, NEW u \in Uses, AcceptCode(u)
  PROVE  /\ use[u].at = "rewritten" /\ UsesCode(u) /\ ~UsesCode(u)' /\ use[u].code \in Code
         /\ factor'.codes = factor.codes
         /\ codeUses'[use[u].code] = codeUses[use[u].code] + 1
         /\ \A c \in Code \ {use[u].code} : codeUses'[c] = codeUses[c]
         /\ \A v \in Uses \ {u} : use'[v] = use[v]
         /\ UNCHANGED << secrets, clashed, unsettled >>
<1>1. use[u].at = "rewritten" /\ UsesCode(u)
  BY DEF AcceptCode, UsesCode
<1>2. use[u].code \in Code
  BY <1>1, UseKinds
<1>3. use'[u] = Unused /\ \A v \in Uses \ {u} : use'[v] = use[v]
  BY ProceedEffect DEF AcceptCode
<1>4. QED
  BY <1>1, <1>2, <1>3 DEF AcceptCode, UsesCode, Unused, OneTimeTypeOK

LEMMA MatchEffect ==
  ASSUME OneTimeTypeOK, NEW u \in Uses, NEW c \in Code, MatchCode(u, c)
  PROVE  /\ ~UsesCode(u) /\ UsesCode(u)' /\ c \in factor.codes
         /\ use'[u].at = "matched" /\ use'[u].code = c /\ use'[u].codes = factor.codes \ {c}
         /\ ~clashed' => \A v \in Uses : ~UsesCode(v)
         /\ \A v \in Uses \ {u} : use'[v] = use[v]
         /\ UNCHANGED << factor, secrets, codeUses, unsettled >>
<1>1. /\ use'[u] = [at |-> "matched", code |-> c, secret |-> factor.secret, codes |-> factor.codes \ {c}]
      /\ \A v \in Uses \ {u} : use'[v] = use[v]
  BY ProceedEffect DEF MatchCode
<1>2. ~clashed' => \A v \in Uses : ~UsesCode(v)
  BY DEF MatchCode, UsingCodes, UsesCode
<1>3. QED
  BY <1>1, <1>2 DEF MatchCode, UsesCode, factorVars, Unused

LEMMA CodeFailsEffect ==
  ASSUME OneTimeTypeOK, NEW u \in Uses, CodeFails(u)
  PROVE  /\ ~UsesCode(u)'
         /\ \A v \in Uses \ {u} : use'[v] = use[v]
         /\ UNCHANGED << factor, secrets, codeUses, clashed >>
<1>1. use'[u] = Unused /\ \A v \in Uses \ {u} : use'[v] = use[v]
  BY ProceedEffect DEF CodeFails
<1>2. QED
  BY <1>1 DEF CodeFails, UsesCode, Unused

LEMMA CodesKnownStep ==
  ASSUME OneTimeTypeOK, CodesKnown, [OneTimeNext]_oneTimeVars
  PROVE  CodesKnown'
<1> USE DEF CodesKnown
<1>1. ASSUME Setup2FA
      PROVE  CodesKnown'
  <2>1. /\ secrets \in Nat /\ secrets' = secrets + 1 /\ factor'.codes = {secrets + 1} \X Codes
        /\ UNCHANGED << use, codeUses >>
    BY <1>1 DEF Setup2FA, OneTimeTypeOK
  <2>2. \A c \in factor'.codes : c[1] = secrets + 1
    BY <2>1
  <2>3. \A c \in Code : c[1] \in Nat
    BY OneTimeAssumption DEF Code, OneTimeAssumption
  <2>4. \A u \in Uses : UsesCode(u)' =>
          /\ UsesCode(u) /\ use'[u] = use[u] /\ use[u].code \in Code /\ use[u].codes \subseteq Code
    BY <2>1, UseKinds DEF UsesCode
  <2>5. \A c \in factor'.codes : c[1] <= secrets'
    BY <2>1, <2>2
  <2>6. \A u \in Uses : UsesCode(u)' =>
          use'[u].code[1] <= secrets' /\ \A c \in use'[u].codes : c[1] <= secrets'
    BY <2>1, <2>3, <2>4
  <2>7. \A c \in Code : c[1] > secrets' => codeUses'[c] = 0
    BY <2>1, <2>3
  <2>8. QED
    BY <2>5, <2>6, <2>7
<1>2. ASSUME SwitchFactor \/ OwnerFails \/ \E on \in BOOLEAN : ProveFactor(on)
      PROVE  CodesKnown'
  <2>1. factor'.codes = factor.codes /\ UNCHANGED << secrets, codeUses, use >>
    BY <1>2 DEF SwitchFactor, OwnerFails, ProveFactor, OneTimeTypeOK
  <2>2. QED
    BY <2>1 DEF UsesCode
<1>3. ASSUME LinkStep
      PROVE  CodesKnown'
  <2>1. /\ UNCHANGED << factor, secrets, codeUses >>
        /\ \A v \in Uses : /\ UsesCode(v)' <=> UsesCode(v)
                           /\ UsesCode(v) => use'[v] = use[v]
    BY <1>3, LinkStepKeepsCodes DEF factorVars
  <2>2. QED
    BY <2>1
<1>4. ASSUME NEW u \in Uses, NEW c \in Code, MatchCode(u, c)
      PROVE  CodesKnown'
  BY <1>4, MatchEffect DEF UsesCode
<1>5. ASSUME NEW u \in Uses, RewriteFactor(u)
      PROVE  CodesKnown'
  BY <1>5, RewriteEffect DEF UsesCode
<1>6. ASSUME NEW u \in Uses, AcceptCode(u)
      PROVE  CodesKnown'
  <2>1. use[u].code[1] <= secrets /\ secrets \in Nat
    BY <1>6, AcceptEffect DEF OneTimeTypeOK
  <2>2. \A c \in Code : c[1] \in Nat
    BY OneTimeAssumption DEF Code, OneTimeAssumption
  <2>3. \A c \in Code : c[1] > secrets => c # use[u].code
    BY <2>1, <2>2
  <2>4. QED
    BY <1>6, AcceptEffect, <2>3 DEF UsesCode
<1>7. ASSUME NEW u \in Uses, CodeFails(u)
      PROVE  CodesKnown'
  BY <1>7, CodeFailsEffect DEF UsesCode
<1>8. ASSUME UNCHANGED oneTimeVars
      PROVE  CodesKnown'
  BY <1>8 DEF oneTimeVars, UsesCode
<1>9. QED
  BY <1>1, <1>2, <1>3, <1>4, <1>5, <1>6, <1>7, <1>8 DEF OneTimeNext, LinkStep

LEMMA CodesSoundStep ==
  ASSUME OneTimeTypeOK, CodesKnown, CodesSound, [OneTimeNext]_oneTimeVars
  PROVE  CodesSound'
<1> SUFFICES ASSUME ~clashed'
             PROVE  CodesSound'
  BY DEF CodesSound
<1>1. ~clashed
  BY ClashesStay
<1> DEFINE Sound ==
      /\ \A c \in Code : codeUses[c] <= 1
      /\ \A c \in factor.codes : codeUses[c] = 0
      /\ \A u, v \in Uses : UsesCode(u) /\ UsesCode(v) => u = v
      /\ \A u \in Uses : UsesCode(u) =>
           /\ codeUses[use[u].code] = 0
           /\ use[u].at = "rewritten" => use[u].code \notin factor.codes
           /\ use[u].at = "matched" =>
                use[u].code \notin use[u].codes /\ \A c \in use[u].codes : codeUses[c] = 0
<1>2. Sound
  BY <1>1 DEF CodesSound
<1>3. SUFFICES Sound'
  BY DEF CodesSound
\* The codes of the new secret were never accepted; one that is being used is older.
<1>4. ASSUME Setup2FA
      PROVE  Sound'
  <2>1. \A u \in Uses : UsesCode(u)' => UsesCode(u) /\ use'[u] = use[u]
    BY <1>4 DEF Setup2FA, UsesCode
  <2>2. secrets \in Nat /\ codeUses' = codeUses /\ factor'.codes = {secrets + 1} \X Codes
    BY <1>4 DEF Setup2FA, OneTimeTypeOK
  <2>3. factor'.codes \subseteq Code
    BY <1>4, OneTimeTypeStep DEF OneTimeTypeOK
  <2>4. \A c \in factor'.codes : c[1] > secrets
    BY <2>2
  <2>5. \A c \in factor'.codes : codeUses'[c] = 0
    BY <2>2, <2>3, <2>4 DEF CodesKnown
  <2>6. \A c \in Code : c[1] \in Nat
    BY OneTimeAssumption DEF Code, OneTimeAssumption
  <2>7. \A u \in Uses : UsesCode(u) => use[u].code \in Code
    BY UseKinds DEF UsesCode
  <2>8. \A u \in Uses : UsesCode(u) => use[u].code \notin factor'.codes
    BY <2>2, <2>4, <2>6, <2>7 DEF CodesKnown
  <2>9. QED
    BY <1>2, <2>1, <2>2, <2>5, <2>8
<1>5. ASSUME SwitchFactor \/ OwnerFails \/ \E on \in BOOLEAN : ProveFactor(on)
      PROVE  Sound'
  <2>1. factor'.codes = factor.codes /\ UNCHANGED << codeUses, use >>
    BY <1>5 DEF SwitchFactor, OwnerFails, ProveFactor, OneTimeTypeOK
  <2>2. QED
    BY <1>2, <2>1 DEF UsesCode
<1>6. ASSUME LinkStep
      PROVE  Sound'
  <2>1. /\ UNCHANGED << factor, codeUses >>
        /\ \A v \in Uses : /\ UsesCode(v)' <=> UsesCode(v)
                           /\ UsesCode(v) => use'[v] = use[v]
    BY <1>6, LinkStepKeepsCodes DEF factorVars
  <2>2. QED
    BY <1>2, <2>1
<1>7. ASSUME NEW u \in Uses, NEW c \in Code, MatchCode(u, c)
      PROVE  Sound'
  <2>1. \A v \in Uses : UsesCode(v)' => v = u
    BY <1>7, MatchEffect DEF UsesCode
  <2>2. QED
    BY <1>2, <1>7, <2>1, MatchEffect
<1>8. ASSUME NEW u \in Uses, RewriteFactor(u)
      PROVE  Sound'
  <2>1. \A v \in Uses : UsesCode(v)' => v = u
    BY <1>2, <1>8, RewriteEffect DEF UsesCode
  <2>2. QED
    BY <1>2, <1>8, <2>1, RewriteEffect
<1>9. ASSUME NEW u \in Uses, AcceptCode(u)
      PROVE  Sound'
  <2>1. \A v \in Uses : ~UsesCode(v)'
    BY <1>2, <1>9, AcceptEffect DEF UsesCode
  <2>2. codeUses[use[u].code] = 0 /\ use[u].code \notin factor.codes
    BY <1>2, <1>9, AcceptEffect
  <2>3. factor.codes \subseteq Code
    BY DEF OneTimeTypeOK
  <2>4. QED
    BY <1>2, <1>9, <2>1, <2>2, <2>3, AcceptEffect
<1>10. ASSUME NEW u \in Uses, CodeFails(u)
       PROVE  Sound'
  <2>1. \A v \in Uses : UsesCode(v)' => UsesCode(v) /\ use'[v] = use[v]
    BY <1>10, CodeFailsEffect DEF UsesCode
  <2>2. QED
    BY <1>2, <1>10, <2>1, CodeFailsEffect
<1>11. ASSUME UNCHANGED oneTimeVars
       PROVE  Sound'
  BY <1>2, <1>11 DEF oneTimeVars, UsesCode
<1>12. QED
  BY <1>4, <1>5, <1>6, <1>7, <1>8, <1>9, <1>10, <1>11 DEF OneTimeNext, LinkStep

-----------------------------------------------------------------------------
(* A link sets a password once. *)

LEMMA LinksSoundStep ==
  ASSUME OneTimeTypeOK, LinksSound, [OneTimeNext]_oneTimeVars
  PROVE  LinksSound'
\* Steps that leave the links alone.
<1>1. ASSUME UNCHANGED resetVars, ~clashed' => ~clashed,
             \A v \in Uses, l \in Links : /\ UsesLink(v, l)' <=> UsesLink(v, l)
                                          /\ UsesLink(v, l) => use'[v] = use[v]
      PROVE  LinksSound'
  BY <1>1 DEF LinksSound, resetVars
<1>2. ASSUME OwnerStep
      PROVE  LinksSound'
  BY <1>1, <1>2, OwnerStepKeepsUses DEF UsesLink
<1>3. ASSUME NEW u \in Uses, RewriteFactor(u) \/ AcceptCode(u) \/ CodeFails(u) \/ \E c \in Code : MatchCode(u, c)
      PROVE  LinksSound'
  <2>1. \A v \in Uses, l \in Links : /\ UsesLink(v, l)' <=> UsesLink(v, l)
                                     /\ UsesLink(v, l) => use'[v] = use[v]
    BY <1>3, CodeStepKeepsLinks DEF UsesLink
  <2>2. ~clashed' => ~clashed
    BY ClashesStay
  <2>3. QED
    BY <1>1, <1>3, <2>1, <2>2, CodeStepKeepsLinks
<1>4. ASSUME NEW l \in Links, ForgotPassword(l)
      PROVE  LinksSound'
  BY <1>4 DEF ForgotPassword, LinksSound, UsesLink, OneTimeTypeOK
<1>5. ASSUME NEW u \in Uses, NEW l \in Links, VerifyLink(u, l)
      PROVE  LinksSound'
  <2>1. /\ use'[u] = [at |-> "verified", link |-> l]
        /\ \A v \in Uses \ {u} : use'[v] = use[v]
    BY <1>5, ProceedEffect DEF VerifyLink
  <2>2. /\ reset[l] = "valid" /\ UNCHANGED << reset, linkUses >>
        /\ \A k \in Links : ~UsesLink(u, k)
    BY <1>5 DEF VerifyLink, resetVars, UsesLink, Unused
  <2>a. ~clashed' => ~clashed /\ \A v \in Uses : ~UsesLink(v, l)
    BY <1>5 DEF VerifyLink, UsesLink
  <2>3. \A v \in Uses \ {u}, k \in Links : UsesLink(v, k)' <=> UsesLink(v, k)
    BY <2>1 DEF UsesLink
  <2>4. \A k \in Links : UsesLink(u, k)' <=> k = l
    BY <2>1 DEF UsesLink
  <2>5. ~clashed' => linkUses[l] = 0
    BY <2>2, <2>a DEF LinksSound, OneTimeTypeOK
  <2>6. QED
    BY <2>1, <2>2, <2>a, <2>3, <2>4, <2>5 DEF LinksSound
<1>6. ASSUME NEW u \in Uses, SetPassword(u)
      PROVE  LinksSound'
  <2>1. PICK l \in Links : use[u] = [at |-> "verified", link |-> l]
    BY <1>6, UseKinds DEF SetPassword
  <2>2. UsesLink(u, l) /\ use[u].at = "verified" /\ \A k \in Links : UsesLink(u, k) => k = l
    BY <2>1 DEF UsesLink
  <2>3. /\ UNCHANGED reset /\ linkUses'[l] = linkUses[l] + 1
        /\ \A k \in Links \ {l} : linkUses'[k] = linkUses[k]
    BY <1>6, <2>1 DEF SetPassword, OneTimeTypeOK
  <2>4. \A v \in Uses \ {u} : use'[v] = use[v]
    BY <1>6, ProceedEffect DEF SetPassword
  <2>5. \A v \in Uses \ {u}, k \in Links : UsesLink(v, k)' <=> UsesLink(v, k)
    BY <2>4 DEF UsesLink
  <2>6. use'[u] = [at |-> "set", link |-> l] \/ use'[u] = Unused
    <3>1. [use[u] EXCEPT !.at = "set"] = [at |-> "set", link |-> l]
      BY <2>1
    <3>2. QED
      BY <1>6, <3>1, ProceedEffect DEF SetPassword
  <2>7. \A k \in Links : UsesLink(u, k)' => k = l
    BY <2>6 DEF UsesLink, Unused
  <2>8. ~clashed' => ~clashed /\ use'[u] = [at |-> "set", link |-> l]
    <3>1. [use[u] EXCEPT !.at = "set"] = [at |-> "set", link |-> l]
      BY <2>1
    <3>2. QED
      BY <1>6, <3>1, ProceedEffect, ClashesStay DEF SetPassword
  <2>9. \A k \in Links : reset'[k] = "absent" => linkUses'[k] = 0 /\ \A v \in Uses : ~UsesLink(v, k)'
    BY <2>2, <2>3, <2>5, <2>7 DEF LinksSound
  <2>10. ~clashed' => linkUses'[l] = 1 /\ \A v \in Uses : UsesLink(v, l) => v = u
    BY <2>2, <2>3, <2>8 DEF LinksSound
  <2>11. ~clashed' => UsesLink(u, l)' /\ use'[u].at = "set"
    BY <2>8 DEF UsesLink
  <2>12. ASSUME ~clashed', NEW k \in Links
         PROVE  /\ linkUses'[k] <= 1
                /\ \A v, w \in Uses : UsesLink(v, k)' /\ UsesLink(w, k)' => v = w
                /\ \A v \in Uses : UsesLink(v, k)' /\ use'[v].at = "verified" => linkUses'[k] = 0
                /\ linkUses'[k] = 1 => reset'[k] = "revoked" \/ \E v \in Uses : UsesLink(v, k)' /\ use'[v].at = "set"
    <3>1. CASE k = l
      <4>1. \A v \in Uses : UsesLink(v, k)' => v = u
        BY <2>5, <2>10, <2>12, <3>1
      <4>2. QED
        BY <2>10, <2>11, <2>12, <3>1, <4>1
    <3>2. CASE k # l
      <4>1. \A v \in Uses : UsesLink(v, k)' <=> v # u /\ UsesLink(v, k)
        BY <2>5, <2>7, <3>2
      <4>2. ~UsesLink(u, k)
        BY <2>2, <3>2
      <4>3. linkUses'[k] = linkUses[k] /\ reset'[k] = reset[k]
        BY <2>3, <3>2
      <4>4. QED
        BY <2>4, <2>8, <2>12, <4>1, <4>2, <4>3 DEF LinksSound
    <3>3. QED
      BY <3>1, <3>2
  <2>13. QED
    BY <2>9, <2>12 DEF LinksSound
<1>7. ASSUME NEW u \in Uses, RevokeLink(u)
      PROVE  LinksSound'
  <2>1. PICK l \in Links : use[u] = [at |-> "set", link |-> l]
    BY <1>7, UseKinds DEF RevokeLink
  <2>2. UsesLink(u, l) /\ \A k \in Links : UsesLink(u, k) => k = l
    BY <2>1 DEF UsesLink
  <2>3. /\ use'[u].at = "idle" /\ \A v \in Uses \ {u} : use'[v] = use[v]
        /\ UNCHANGED linkUses
    BY <1>7, ProceedEffect DEF RevokeLink, Unused
  <2>4. /\ \A k \in Links : ~UsesLink(u, k)'
        /\ \A v \in Uses \ {u}, k \in Links : UsesLink(v, k)' <=> UsesLink(v, k)
    BY <2>3 DEF UsesLink
  <2>5. /\ \A k \in Links \ {l} : reset'[k] = reset[k]
        /\ reset'[l] # "absent"
        /\ ~clashed' => ~clashed /\ reset'[l] = "revoked"
    BY <1>7, <2>1, <2>2, ClashesStay DEF RevokeLink, OneTimeTypeOK, LinksSound
  <2>6. QED
    BY <2>2, <2>3, <2>4, <2>5 DEF LinksSound
<1>8. ASSUME NEW u \in Uses, LinkFails(u)
      PROVE  LinksSound'
  <2>1. /\ use'[u].at = "idle" /\ \A v \in Uses \ {u} : use'[v] = use[v]
        /\ UNCHANGED << reset, linkUses >>
        /\ use[u].at = "verified" /\ clashed' = clashed
    BY <1>8, ProceedEffect DEF LinkFails, Unused, resetVars
  <2>2. /\ \A k \in Links : ~UsesLink(u, k)'
        /\ \A v \in Uses \ {u}, k \in Links : UsesLink(v, k)' <=> UsesLink(v, k)
    BY <2>1 DEF UsesLink
  <2>3. QED
    BY <2>1, <2>2 DEF LinksSound
<1>9. ASSUME UNCHANGED oneTimeVars
      PROVE  LinksSound'
  BY <1>1, <1>9 DEF oneTimeVars, UsesLink, resetVars
<1>10. QED
  BY <1>2, <1>3, <1>4, <1>5, <1>6, <1>7, <1>8, <1>9 DEF OneTimeNext, OwnerStep

-----------------------------------------------------------------------------
(* The theorems. *)

OneTimeInv == OneTimeTypeOK /\ FactorSound /\ CodesKnown /\ CodesSound /\ LinksSound

\* What a request has read of the codes, or of a link, is still so when it uses them up,
\* unless a clash is on record.
THEOREM OneTimeInvariance == OneTimeSpec => []OneTimeInv
<1>1. OneTimeInit => OneTimeInv
  <2> SUFFICES ASSUME OneTimeInit PROVE OneTimeInv
    OBVIOUS
  <2>1. OneTimeTypeOK
    BY OneTimeTypeInit
  <2>2. \A u \in Uses : ~UsesCode(u) /\ use[u].at # "rewritten" /\ \A l \in Links : ~UsesLink(u, l)
    BY DEF OneTimeInit, UsesCode, UsesLink, Unused
  <2>3. FactorSound
    BY <2>2 DEF OneTimeInit, FactorSound
  <2>4. CodesKnown
    BY <2>2 DEF OneTimeInit, CodesKnown
  <2>5. CodesSound
    BY <2>2 DEF OneTimeInit, CodesSound
  <2>6. LinksSound
    BY <2>2 DEF OneTimeInit, LinksSound
  <2>7. QED
    BY <2>1, <2>3, <2>4, <2>5, <2>6 DEF OneTimeInv
<1>2. OneTimeInv /\ [OneTimeNext]_oneTimeVars => OneTimeInv'
  BY OneTimeTypeStep, FactorStep, CodesKnownStep, CodesSoundStep, LinksSoundStep DEF OneTimeInv
<1>3. QED
  BY <1>1, <1>2, PTL DEF OneTimeSpec

\* Two-factor is on exactly when the owner switched it on, for the secret set up last,
\* except while a backup code is between its statements and after the accidents named.
THEOREM FactorAsWantedAlways == OneTimeSpec => []FactorAsWanted
<1>1. OneTimeInv => FactorAsWanted
  <2> SUFFICES ASSUME OneTimeInv, ~unsettled, \A u \in Uses : use[u].at # "rewritten"
               PROVE  /\ factor.enabled = wanted /\ factor.secret = secrets
                      /\ factor.enabled => factor.secret \in verified
    BY DEF FactorAsWanted
  <2>1. factor.enabled = wanted /\ factor.secret = secrets /\ (wanted => secrets \in verified)
    BY DEF OneTimeInv, FactorSound
  <2>2. QED
    BY <2>1
<1>2. QED
  BY <1>1, OneTimeInvariance, PTL

\* Backup codes and reset links are used once, unless two uses overlap or the
\* revocation of a link is lost.
THEOREM UsedOnceAlways == OneTimeSpec => []UsedOnce
<1>1. OneTimeInv => UsedOnce
  BY DEF OneTimeInv, UsedOnce, CodesSound, LinksSound
<1>2. QED
  BY <1>1, OneTimeInvariance, PTL

-----------------------------------------------------------------------------
(* The parts side by side. *)

LEMMA ServerStepOfParts ==
  ASSUME [ServerNext]_<< part, sessionVars, oneTimeVars, limitVars >>
  PROVE  [SessionsNext]_sessionVars /\ [OneTimeNext]_oneTimeVars /\ [LimitsNext]_limitVars
<1>1. CASE ServerNext
  BY <1>1 DEF ServerNext
<1>2. CASE UNCHANGED << part, sessionVars, oneTimeVars, limitVars >>
  BY <1>2
<1>3. QED
  BY <1>1, <1>2

\* A behaviour of the server is one of its sessions, one of its codes and links,
\* and one of its limits: they share no state.
LEMMA ServerIsItsParts == ServerSpec => SessionsSpec /\ OneTimeSpec /\ LimitsSpec
<1>1. ServerInit => SessionsInit /\ OneTimeInit /\ LimitsInit
  BY DEF ServerInit
<1>2. [ServerNext]_<< part, sessionVars, oneTimeVars, limitVars >>
        => [SessionsNext]_sessionVars /\ [OneTimeNext]_oneTimeVars /\ [LimitsNext]_limitVars
  BY ServerStepOfParts
<1>3. QED
  BY <1>1, <1>2, PTL DEF ServerSpec, SessionsSpec, OneTimeSpec, LimitsSpec

\* The rows of tokens, sessions, codes and links, the counters of the limits and
\* what every request remembers keep the shapes the code gives them.
THEOREM ServerTypesAlways == ServerSpec => []ServerTypeOK
<1>1. SessionsInv /\ OneTimeInv /\ (LimitsTypeOK /\ LimitsInv) => ServerTypeOK
  BY DEF SessionsInv, OneTimeInv, ServerTypeOK
<1>2. QED
  BY <1>1, ServerIsItsParts, SessionsInvariance, OneTimeInvariance, LimitsInvariance, PTL
=============================================================================
