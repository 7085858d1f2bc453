--------------------------------- MODULE PanelMC ---------------------------------
(***************************************************************************)
(* A small instance of Panel: a dashboard in use and one that is gone.     *)
(***************************************************************************)
EXTENDS Panel

CONSTANTS home, old

Dashboards0 == {home, old}
Gone0 == {old}

State(dash, id, at) == [dash |-> dash, id |-> id, at |-> at, era |-> 0]

Recorded0 == {State(home, 1, 1), State(old, 1, 2), State(home, 2, 3),
              State(old, 2, 4), State(home, 3, 5)}
================================================================================
