----------------------------- MODULE MCWifiStorage -----------------------------
(* WifiStorage with seconds made few. *)
EXTENDS WifiStorage
================================================================================
