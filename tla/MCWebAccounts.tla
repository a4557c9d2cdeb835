---------------------------- MODULE MCWebAccounts ----------------------------
(***************************************************************************)
(* Accounts of the web application: WebSession, a user's, and Enrolment, an*)
(* agent's, side by side.  They share no state, so a behaviour moves one of*)
(* the two and every behaviour of either is one of the run's.              *)
(***************************************************************************)
EXTENDS WebSession, Enrolment, TLC

VARIABLE part   \* which of the two moves

mcVars == <<part, webVars, enrolVars>>

Symmetry == Permutations(Agents) \union Permutations(Hands) \union Permutations(Calls)

AccountsInit ==
    /\ WebInit /\ EnrolInit
    /\ part = "session" \/ (part = "enrolment" /\ asked.what = "short")

AccountsNext ==
    /\ UNCHANGED part
    /\ \/ part = "session" /\ WebNext /\ UNCHANGED enrolVars
       \/ part = "enrolment" /\ EnrolNext /\ UNCHANGED webVars

AccountsSpec == AccountsInit /\ [][AccountsNext]_mcVars

AccountsTypeOK == WebTypeOK /\ EnrolTypeOK
=============================================================================
