---------------------------- MODULE MCAccounts -----------------------------
(***************************************************************************)
(* Instances of the models of what is kept about accounts and visitors,    *)
(* side by side: a behaviour picks one of them and the others stay as they *)
(* began.  Peers are what is alike in each: two workers that serve an      *)
(* email, two requests of the frontend, two gate threads, two tables.      *)
(***************************************************************************)
EXTENDS Signup, Sessions, Trials, KeyRotation, EdgeGate, TLC

CONSTANTS q1, q2, b1, sw, panel, web, v1, v2

Peers == {q1, q2}
OneBrowser == {b1}
OneSweeper == {sw}
BothDoors == {panel, web}
TwoVisitors == {v1, v2}
Symmetry == Permutations(Peers)

VARIABLE part

accountsVars ==
  <<part, signupVars, sessionVars, trialVars, rotationVars, gateVars>>

AccountsInit ==
  /\ part \in {"signup", "sessions", "trials", "keys", "gate"}
  /\ SignupInit /\ SessionsInit /\ TrialsInit /\ KeyRotationInit /\ EdgeGateInit
  /\ part # "keys" => listed = Tables

AccountsNext ==
  \/ /\ part = "signup" /\ SignupNext
     /\ UNCHANGED <<part, sessionVars, trialVars, rotationVars, gateVars>>
  \/ /\ part = "sessions" /\ SessionsNext
     /\ UNCHANGED <<part, signupVars, trialVars, rotationVars, gateVars>>
  \/ /\ part = "trials" /\ TrialsNext
     /\ UNCHANGED <<part, signupVars, sessionVars, rotationVars, gateVars>>
  \/ /\ part = "keys" /\ KeyRotationNext
     /\ UNCHANGED <<part, signupVars, sessionVars, trialVars, gateVars>>
  \/ /\ part = "gate" /\ EdgeGateNext
     /\ UNCHANGED <<part, signupVars, sessionVars, trialVars, rotationVars>>

AccountsSpec == AccountsInit /\ [][AccountsNext]_accountsVars

\* The variables of each model keep their types.
AccountsTypeOK ==
  /\ SignupTypeOK /\ SessionsTypeOK /\ TrialsTypeOK
  /\ KeyRotationTypeOK /\ EdgeGateTypeOK
=============================================================================
