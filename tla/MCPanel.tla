------------------------------ MODULE MCPanel ------------------------------
(***************************************************************************)
(* Instances of three models of the panel that share no state, side by     *)
(* side: a behaviour picks one of them and the others stay as they began.  *)
(* Peers are what is alike in each: two panel instances of Fleet, two      *)
(* threads of NodeClient, two requests of PanelPower.                      *)
(***************************************************************************)
EXTENDS Fleet, NodeClient, PanelPower, TLC

CONSTANTS s1, s2, n1, p1, p2

TwoServers == {s1, s2}
OneNode == {n1}
Peers == {p1, p2}
Symmetry == Permutations(TwoServers) \cup Permutations(Peers)

VARIABLE part

panelVars == <<part, vars, clientVars, powerVars>>

PanelInit ==
  /\ part \in {"fleet", "client", "power"}
  /\ Init /\ NodeClientInit /\ PanelPowerInit
  /\ part # "fleet" => row = {}
  /\ part # "client" => answers = [u \in Urls |-> "agent"]

PanelNext ==
  \/ part = "fleet" /\ Next /\ UNCHANGED <<part, clientVars, powerVars>>
  \/ part = "client" /\ NodeClientNext /\ UNCHANGED <<part, vars, powerVars>>
  \/ part = "power" /\ PanelPowerNext /\ UNCHANGED <<part, vars, clientVars>>

PanelSpec == PanelInit /\ [][PanelNext]_panelVars

\* The variables of each model keep their types.
PanelTypeOK == TypeOK /\ NodeClientTypeOK /\ PanelPowerTypeOK
=============================================================================
