----------------------------- MODULE SettingsStore -----------------------------
(***************************************************************************)
(* The settings between the web server, the USB console, the control task  *)
(* and the flash (include/settings.h, include/webserver.h,                 *)
(* include/usb_interface.h, src/main.cpp).  A PUT /ui_settings changes the *)
(* settings in RAM field by field in the lwIP thread and raises changed;   *)
(* the control task writes them to flash at its next round.  The web       *)
(* thread writes the other members of the sector itself, of which          *)
(* POST /host_name stands for all.                                         *)
(***************************************************************************)
EXTENDS PersistentStorage

CONSTANTS
  Fields,    \* the fields of struct settings
  BatFields, \* those that sanitize looks at: bat_min_v, bat_max_v
  Default,   \* a field's initializer
  Chosen,    \* another value in range
  TooFar,    \* a value below 5 or above 60
  Garbage,   \* all ones: NaN for a float
  HostNames, \* the host names that are set
  NoName     \* the empty host name

ASSUME FieldsAssumption == BatFields \subseteq Fields

Values == {Default, Chosen, TooFar}
AnySettings == [Fields -> Values \cup {Garbage}]
Defaults == [f \in Fields |-> Default]

(* The control task writes the settings, the lwIP thread the host name. *)
ASSUME PartsAssumption ==
  /\ Writers = {"control", "web"} /\ Members = {"sets", "hostname"}
  /\ AnySettings \cup HostNames \subseteq Data

VARIABLES
  ram,     \* settings::Default()
  changed, \* settings::changed
  host,    \* wifi_storage::hostname
  boot,    \* startup_task: "starting", "running"
  control, \* victron_control_task: "check", "write", "reset"
  web,     \* the lwIP thread: "idle", "put", "post"
  \* history
  pending  \* a PUT ended, outside of a write and the reset after it, since the
           \* settings were last copied

vars == <<storage, ram, changed, host, boot, control, web, pending>>

-------------------------------------------------------------------------------
(* The web server.                                                          *)

PutBegin ==
  /\ web = "idle"
  /\ web' = "put"
  /\ UNCHANGED <<storage, ram, changed, host, boot, control, pending>>

(* One key of the object; the control task may run between two of them. *)
PutField(f, v) ==
  /\ web = "put"
  /\ ram' = [ram EXCEPT ![f] = v]
  /\ UNCHANGED <<storage, changed, host, boot, control, web, pending>>

PutEnd ==
  /\ web = "put"
  /\ changed' = TRUE
  /\ pending' = (pending \/ control = "check")
  /\ web' = "idle"
  /\ UNCHANGED <<storage, ram, host, boot, control>>

(* An unknown key or a value that does not parse: what came before stays. *)
PutFails ==
  /\ web = "put"
  /\ web' = "idle"
  /\ UNCHANGED <<storage, ram, changed, host, boot, control, pending>>

PostHostName(h) ==
  /\ web = "idle"
  /\ host' = h
  /\ web' = "post"
  /\ WriteBegin("web", "hostname")
  /\ UNCHANGED <<ram, changed, boot, control, pending>>

PostWrite ==
  /\ web = "post"
  /\ CopyData("web", host) \/ WriteStep("web")
  /\ web' = IF op'["web"].at = "none" THEN "idle" ELSE "post"
  /\ UNCHANGED <<ram, changed, host, boot, control, pending>>

(* The command set of the USB console; it does not raise changed. *)
UsbSet(f, v) ==
  /\ boot = "running"
  /\ ram' = [ram EXCEPT ![f] = v]
  /\ UNCHANGED <<storage, changed, host, boot, control, web, pending>>

-------------------------------------------------------------------------------
(* startup_task and the control task.                                       *)

(* No comparison holds for a NaN. *)
OutOfRange(v) == v = TooFar

Sanitized(s) == IF \E f \in BatFields : OutOfRange(s[f]) THEN Defaults ELSE s

FromFlash == IF flash["sets"] = Erased THEN [f \in Fields |-> Garbage] ELSE flash["sets"]

(* The settings are read after the web server was started. *)
LoadSettings ==
  /\ boot = "starting"
  /\ lock = Nobody
  /\ ram' = Sanitized(FromFlash)
  /\ boot' = "running"
  /\ UNCHANGED <<storage, changed, host, control, web, pending>>

(* Fault: the settings are not written while the flash is in use. *)
ControlCheck_NoWait ==
  /\ boot = "running"
  /\ control = "check"
  /\ IF changed /\ lock = Nobody
       THEN control' = "write" /\ WriteBegin("control", "sets")
       ELSE control' = "reset" /\ UNCHANGED storage
  /\ UNCHANGED <<ram, changed, host, boot, web, pending>>

ControlCheck ==
  /\ boot = "running"
  /\ control = "check"
  /\ IF changed
       THEN control' = "write" /\ WriteBegin("control", "sets")
       ELSE control' = "reset" /\ UNCHANGED storage
  /\ UNCHANGED <<ram, changed, host, boot, web, pending>>

ControlWrite ==
  /\ control = "write"
  /\ \/ CopyData("control", ram) /\ pending' = FALSE
     \/ WriteStep("control") /\ UNCHANGED pending
  /\ control' = IF op'["control"].at = "none" THEN "reset" ELSE "write"
  /\ UNCHANGED <<ram, changed, host, boot, web>>

(* changed is reset whether or not it was looked at, and the round goes on  *)
(* with the commands to the inverter.                                       *)
ControlReset ==
  /\ control = "reset"
  /\ changed' = FALSE
  /\ control' = "check"
  /\ UNCHANGED <<storage, ram, host, boot, web, pending>>

-------------------------------------------------------------------------------
(* Fault: the string is not sanitized; its size is -1. *)
HostFromFlash_Unsanitized(sector) == sector["hostname"]

(* sanitize takes an erased string for an empty one. *)
HostFromFlash(sector) ==
  IF sector["hostname"] = Erased THEN NoName ELSE sector["hostname"]

(* The host name is read at its first use, before the web server runs. *)
Init ==
  /\ StorageInit
  /\ stored["sets"] \in AnySettings \cup {Erased}
  /\ stored["hostname"] \in HostNames \cup {Erased}
  /\ op["control"].member = "sets" /\ op["web"].member = "hostname"
  /\ ram = Defaults /\ changed = FALSE /\ pending = FALSE
  /\ host = HostFromFlash(flash)
  /\ boot = "starting" /\ control = "check" /\ web = "idle"

Restart ==
  /\ PowerLoss
  /\ ram' = Defaults /\ changed' = FALSE /\ pending' = FALSE
  /\ host' = HostFromFlash(flash')
  /\ boot' = "starting" /\ control' = "check" /\ web' = "idle"

WebStep ==
  \/ PutBegin \/ PutEnd \/ PutFails \/ PostWrite
  \/ \E f \in Fields, v \in Values : PutField(f, v)
  \/ \E h \in HostNames : PostHostName(h)

ControlStep == ControlCheck \/ ControlWrite \/ ControlReset

Next ==
  \/ WebStep
  \/ \E f \in Fields, v \in Values : UsbSet(f, v)
  \/ LoadSettings
  \/ ControlStep
  \/ Restart

Spec == Init /\ [][Next]_vars

(* A write, once begun, is carried on by its task: the control task has the *)
(* highest priority and the web thread the next, and both only wait for the *)
(* mutex of the other.                                                      *)
FairSpec == Spec /\ WF_vars(PostWrite) /\ WF_vars(ControlStep)

-------------------------------------------------------------------------------
(* Properties.                                                              *)

(* The settings, the flags and the control points have their values; a task *)
(* writes to flash only where its program does.                             *)
TypeOK ==
  /\ StorageTypeOK
  /\ ram \in AnySettings
  /\ changed \in BOOLEAN /\ pending \in BOOLEAN
  /\ host \in HostNames \cup {NoName}
  /\ boot \in {"starting", "running"}
  /\ control \in {"check", "write", "reset"}
  /\ web \in {"idle", "put", "post"}
  /\ At("control", "none") <=> control # "write"
  /\ At("web", "none") <=> web # "post"

(* A POST that waits for the mutex gets it, unless the device restarts: no  *)
(* error path of the other writer keeps it.                                 *)
PostGetsLock == At("web", "lock") ~> ~At("web", "lock")

(* sanitize "will make sure that no garbage is loaded from storage": once   *)
(* started, no setting has the value of erased flash.                       *)
NoGarbageLoaded == boot = "running" => \A f \in Fields : ram[f] # Garbage

(* Settings that were PUT are not forgotten: until the control task has     *)
(* copied them to write them, changed tells it to, however long it waits    *)
(* for the mutex.  This is for a PUT that ends at any time but during a     *)
(* write or its reset of changed (main.cpp:110), which takes it for stored. *)
PutIsNotForgotten == pending => changed
===============================================================================
