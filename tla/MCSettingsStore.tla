---------------------------- MODULE MCSettingsStore ----------------------------
(* SettingsStore with one field, which sanitize looks at, and two host      *)
(* names.                                                                   *)
EXTENDS SettingsStore

CONSTANTS h1, h2

SomeHostNames == {h1, h2}
SomeData == AnySettings \cup SomeHostNames
===============================================================================
