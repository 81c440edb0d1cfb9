------------------------------ MODULE MCHeaders ------------------------------
(***************************************************************************)
(* A header's fixed fields and the items behind them.  Either a viewer's   *)
(* fields are set (no iterator), or an iterator runs (no viewer).          *)
(***************************************************************************)
EXTENDS HeaderFields, OptionWalk

headerVars == << fieldVars, walkVars >>

Init == FieldsInit /\ WalkInit /\ ((viewer = "") # (grammar = "")) /\ (grammar = "" => size = 0)

Next ==
  \/ FieldsNext /\ UNCHANGED walkVars
  \/ grammar # "" /\ WalkNext /\ UNCHANGED fieldVars

Spec == Init /\ [][Next]_headerVars

MCViewers == DOMAIN Layouts \cup {""}
MCListSizes == 0 .. 12 \cup {16, 19, 20, 35, 36}
=============================================================================
