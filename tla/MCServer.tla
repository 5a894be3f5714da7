------------------------------- MODULE MCServer -------------------------------
(* Three parts of the server side by side, for TLC: the sessions of a learner,  *)
(* what a learner may use once, and the limits on requests. They share no       *)
(* state, so a behaviour is one of a single part, and the states of the three   *)
(* add up.                                                                      *)
EXTENDS Sessions, OneTime, RateLimits, TLC

CONSTANTS t1, t2, t3, q1, q2, c1, c2, a1, a2

VARIABLE part

ServerInit ==
  /\ part \in {"sessions", "one time", "limits"}
  /\ SessionsInit /\ OneTimeInit /\ LimitsInit

ServerNext ==
  /\ \/ part = "sessions" /\ SessionsNext /\ UNCHANGED << oneTimeVars, limitVars >>
     \/ part = "one time" /\ OneTimeNext /\ UNCHANGED << sessionVars, limitVars >>
     \/ part = "limits" /\ LimitsNext /\ UNCHANGED << sessionVars, oneTimeVars >>
  /\ UNCHANGED part

ServerSpec == ServerInit /\ [][ServerNext]_<< part, sessionVars, oneTimeVars, limitVars >>

\* Tokens, requests, backup codes and addresses are interchangeable. The three
\* sets of requests are one set.
ServerSymmetry ==
  UNION { Permutations(S) : S \in {Token, Request, Codes, Address} }

\* The types of the three modules.
ServerTypeOK == SessionsTypeOK /\ OneTimeTypeOK /\ LimitsTypeOK
=============================================================================
