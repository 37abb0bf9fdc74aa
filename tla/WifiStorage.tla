------------------------------ MODULE WifiStorage ------------------------------
(***************************************************************************)
(* wifi_search_task (src/main.cpp) with wifi_storage and access_point: one *)
(* or two seconds a round, connect with the credentials, try again when    *)
(* there is no link, open the access point when there is none for long.    *)
(* Meanwhile a request of the web server or a command of the console       *)
(* replaces the credentials, or switches the access point on or off,       *)
(* without a lock.  Scanning is what networks are listed; the DHCP server  *)
(* behind the access point is DhcpServer.                                  *)
(***************************************************************************)
EXTENDS Integers

CONSTANTS
  MaxRequests, \* bound on the number of connection requests
  Every,       \* 30: the seconds between two tries
  AtSecond,    \* 5: the second of them in which it is tried
  ap_timeout,  \* 10: the seconds without a link until the access point opens
  Lengths      \* how many seconds a round takes

ASSUME TimesAssumption ==
  /\ MaxRequests \in Nat /\ Every \in Nat /\ ap_timeout \in Nat
  /\ AtSecond \in 0 .. Every - 1
  /\ Lengths \subseteq 1 .. Every

VARIABLES
  cred,            \* ssid_wifi and pwd_wifi: the request they are of, 0 if empty
  wifi_changed, wifi_connected,
  listed,          \* the networks in wifis, each the one of a request
  link,            \* whether the driver has a link
  tried,           \* the credentials the driver was given
  at,              \* the statement the task is at
  dt,              \* the seconds since last_conn, up to a multiple of Every
  ap,              \* whether the access point is on, and access_point::active
  user,            \* the statement web server or console are at
  \* history
  asked,           \* the last request that was made completely
  overlapped       \* two calls of access_point::init and deinit overlapped

net == <<listed, link>>
creds == <<cred, wifi_changed, asked>>
points == <<ap, overlapped>>
wifiVars == <<creds, wifi_connected, net, tried, at, dt, points, user>>

Requests == 1 .. MaxRequests
Nothing == [ssid |-> 0, pwd |-> 0]
Of(r) == [ssid |-> r, pwd |-> r]

UserInAp == user \in {"init_on", "init_active", "deinit_off", "deinit_active"}
TaskInAp == at \in {"ap_on", "ap_active"}

(* Later than the timeout only the second within Every counts. *)
Fold(t) == IF t > ap_timeout + Every THEN t - Every ELSE t

-------------------------------------------------------------------------------
(* The task.                                                                *)

(* Without a network to connect to, the access point opens at once. *)
Start ==
  /\ at = "start"
  /\ at' = IF cred.ssid = 0 THEN "ap" ELSE "round"
  /\ UNCHANGED <<creds, wifi_connected, net, tried, dt, points, user>>

Round(seconds) ==
  /\ at = "round"
  /\ dt' = Fold(dt + seconds)
  /\ at' = "check"
  /\ UNCHANGED <<creds, wifi_connected, net, tried, points, user>>

Ready == wifi_changed /\ cred.ssid # 0 /\ cred.pwd # 0 /\ cred.ssid \in listed

Check ==
  /\ at = "check"
  /\ wifi_connected' = link
  /\ at' = IF Ready THEN "connect" ELSE "book"
  /\ UNCHANGED <<creds, net, tried, dt, points, user>>

(* The station is switched off and on, which drops a link. *)
Connect ==
  /\ at = "connect"
  /\ tried' = cred /\ link' = FALSE
  /\ at' = "clear"
  /\ UNCHANGED <<creds, wifi_connected, listed, dt, points, user>>

ConnectFails ==
  /\ at = "connect"
  /\ link' = FALSE
  /\ at' = "book"
  /\ UNCHANGED <<creds, wifi_connected, listed, tried, dt, points, user>>

Clear ==
  /\ at = "clear"
  /\ wifi_changed' = FALSE
  /\ at' = "book"
  /\ UNCHANGED <<cred, asked, wifi_connected, net, tried, dt, points, user>>

(* Fault: no second try. *)
Book_Once ==
  /\ at = "book"
  /\ at' = IF dt > ap_timeout THEN "ap" ELSE "scan"
  /\ dt' = IF wifi_connected THEN 0 ELSE dt
  /\ UNCHANGED <<creds, wifi_connected, net, tried, points, user>>

(* Fault: the time of the last link is the time of the last round. *)
Book_NoTimeout ==
  /\ at = "book"
  /\ wifi_changed' = (wifi_changed \/ dt % Every = AtSecond)
  /\ at' = "scan" /\ dt' = 0
  /\ UNCHANGED <<cred, asked, wifi_connected, net, tried, points, user>>

(* dt was computed before the link was looked at. *)
Book ==
  /\ at = "book"
  /\ wifi_changed' = (wifi_changed \/ dt % Every = AtSecond)
  /\ at' = IF dt > ap_timeout THEN "ap" ELSE "scan"
  /\ dt' = IF wifi_connected THEN 0 ELSE dt
  /\ UNCHANGED <<cred, asked, wifi_connected, net, tried, points, user>>

(* Networks that were not seen for a while leave the list. *)
Scan ==
  /\ at = "scan"
  /\ listed' \in SUBSET listed
  /\ at' = "round"
  /\ UNCHANGED <<creds, wifi_connected, link, tried, dt, points, user>>

-------------------------------------------------------------------------------
(* access_point::init and deinit: active is tested first and set last.      *)

ApTest ==
  /\ at = "ap"
  /\ at' = IF ap.active THEN "scan" ELSE "ap_on"
  /\ overlapped' = (overlapped \/ (~ap.active /\ UserInAp))
  /\ UNCHANGED <<creds, wifi_connected, net, tried, dt, ap, user>>

ApOn ==
  /\ at = "ap_on"
  /\ ap' = [ap EXCEPT !.on = TRUE]
  /\ at' = "ap_active"
  /\ UNCHANGED <<creds, wifi_connected, net, tried, dt, overlapped, user>>

ApActive ==
  /\ at = "ap_active"
  /\ ap' = [ap EXCEPT !.active = TRUE]
  /\ at' = "scan"
  /\ UNCHANGED <<creds, wifi_connected, net, tried, dt, overlapped, user>>

(* The same calls of the user; nothing to do when active is as wanted. *)
UserAp ==
  /\ user = "idle"
  /\ user' = IF ap.active THEN "deinit_off" ELSE "init_on"
  /\ overlapped' = (overlapped \/ TaskInAp)
  /\ UNCHANGED <<creds, wifi_connected, net, tried, at, dt, ap>>

UserSwitches ==
  /\ user \in {"init_on", "deinit_off"}
  /\ ap' = [ap EXCEPT !.on = (user = "init_on")]
  /\ user' = IF user = "init_on" THEN "init_active" ELSE "deinit_active"
  /\ UNCHANGED <<creds, wifi_connected, net, tried, at, dt, overlapped>>

(* Fault: deinit leaves active behind. *)
UserSetsActive_Keep ==
  /\ user \in {"init_active", "deinit_active"}
  /\ ap' = [ap EXCEPT !.active = TRUE]
  /\ user' = "idle"
  /\ UNCHANGED <<creds, wifi_connected, net, tried, at, dt, overlapped>>

UserSetsActive ==
  /\ user \in {"init_active", "deinit_active"}
  /\ ap' = [ap EXCEPT !.active = (user = "init_active")]
  /\ user' = "idle"
  /\ UNCHANGED <<creds, wifi_connected, net, tried, at, dt, overlapped>>

-------------------------------------------------------------------------------
(* POST /wifi_connect, and connect_wifi of the console, which also says     *)
(* that there is no link.                                                   *)

AskSsid ==
  /\ user = "idle" /\ asked < MaxRequests
  /\ cred' = [cred EXCEPT !.ssid = asked + 1]
  /\ user' = "pwd"
  /\ UNCHANGED <<wifi_changed, asked, wifi_connected, net, tried, at, dt, points>>

AskPwd ==
  /\ user = "pwd"
  /\ cred' = [cred EXCEPT !.pwd = asked + 1]
  /\ user' = "flag"
  /\ UNCHANGED <<wifi_changed, asked, wifi_connected, net, tried, at, dt, points>>

AskFlag ==
  /\ user = "flag"
  /\ wifi_changed' = TRUE
  /\ wifi_connected' \in {wifi_connected, FALSE}
  /\ asked' = asked + 1
  /\ user' = "idle"
  /\ UNCHANGED <<cred, net, tried, at, dt, points>>

(* The driver: networks are found, a link comes with the right credentials  *)
(* of a network in range, and goes.                                         *)
Found ==
  /\ \E s \in Requests \ listed : listed' = listed \cup {s}
  /\ UNCHANGED <<creds, wifi_connected, link, tried, at, dt, points, user>>

LinkUp ==
  /\ ~link /\ tried # Nothing /\ tried.ssid = tried.pwd
  /\ link' = TRUE
  /\ UNCHANGED <<creds, wifi_connected, listed, tried, at, dt, points, user>>

LinkDown ==
  /\ link /\ link' = FALSE
  /\ UNCHANGED <<creds, wifi_connected, listed, tried, at, dt, points, user>>

(* Flash holds credentials or none. *)
WifiInit ==
  /\ asked \in {0, 1} /\ cred = IF asked = 0 THEN Nothing ELSE Of(1)
  /\ wifi_changed = TRUE /\ wifi_connected = FALSE
  /\ listed = {} /\ link = FALSE /\ tried = Nothing
  /\ at = "start" /\ dt = 0
  /\ ap = [on |-> FALSE, active |-> FALSE]
  /\ user = "idle" /\ overlapped = FALSE

TaskStep ==
  \/ Start \/ (\E seconds \in Lengths : Round(seconds)) \/ Check
  \/ Connect \/ ConnectFails \/ Clear \/ Book \/ Scan \/ ApTest \/ ApOn \/ ApActive

UserStep == UserAp \/ UserSwitches \/ UserSetsActive \/ AskSsid \/ AskPwd \/ AskFlag

WifiNext == TaskStep \/ UserStep \/ Found \/ LinkUp \/ LinkDown

WifiSpec == WifiInit /\ [][WifiNext]_wifiVars

(* The task goes on, and a call of the user that has begun ends; rounds of  *)
(* one or two seconds do not always jump over the second of the try, and    *)
(* the driver does not always refuse.                                       *)
HitsSecond == \E seconds \in Lengths : Round(seconds) /\ dt' % Every = AtSecond

WifiFairSpec ==
  /\ WifiSpec
  /\ WF_wifiVars(TaskStep) /\ WF_wifiVars(UserSwitches \/ UserSetsActive)
  /\ SF_wifiVars(HitsSecond) /\ SF_wifiVars(Connect)

-------------------------------------------------------------------------------
(* Properties.                                                              *)

(* While there is no link and the network of the last request is in range,  *)
(* the driver is given its credentials, whole, again and again: neither a   *)
(* request in the middle of a try nor the flag that this try then resets    *)
(* loses it (main.cpp:68, wifi_storage.h:74).                               *)
RequestsAreTried ==
  \A r \in Requests :
    <>[](asked = r /\ user \notin {"pwd", "flag"} /\ r \in listed /\ ~link)
      => []<>(at = "clear" /\ tried = Of(r))

(* Without a link the access point does not stay off, whatever the user     *)
(* does, unless calls of init and deinit overlap (main.cpp:70).             *)
OfflineOpensAccessPoint == []<>(link \/ ap.on \/ overlapped)

(* access_point::active says whether the access point is on, whenever no    *)
(* call is between its test and its assignment, unless two calls overlap    *)
(* (access_point.h:32, 53).                                                 *)
ActiveIsOn ==
  overlapped \/ UserInAp \/ TaskInAp \/ ap.on = ap.active
===============================================================================
