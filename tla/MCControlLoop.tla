----------------------------- MODULE MCControlLoop -----------------------------
(* ControlLoop with a battery below, between and above the limits.  The mode *)
(* 9 is none of the switch states, 257 is ChargerOnly in 8 bits.  A max_w of *)
(* 40000 does not fit into 16 bits, a min_w of 4000 has the sign the web     *)
(* page sends after it has shown -4000.                                      *)
EXTENDS ControlLoop

SomeChoices ==
  [f \in Fields |->
     CASE f = "web_override" -> {0, 1}
       [] f = "mode"         -> {257, 2, 9}
       [] f = "min_max_type" -> {0, 1}
       [] f = "min_soc"      -> {0}
       [] f = "max_soc"      -> {100}
       [] f = "min_v"        -> {51}
       [] f = "max_v"        -> {50}
       [] f = "min_w"        -> {4000}
       [] f = "max_w"        -> {40000}
       [] f = "local_w"      -> {3600}
       [] f = "local_min_v"  -> {5200}
       [] f = "bat_min_v"    -> {46}
       [] f = "bat_max_v"    -> {56}]

SomeLoaded == [f \in Fields |-> CHOOSE v \in SomeChoices[f] : TRUE]
===============================================================================
