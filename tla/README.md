# A TLA+ model of pico_victron

pico_victron is the firmware of a Raspberry Pi Pico 2 W that speaks the VE.Bus
protocol with a Victron inverter over RS485, and offers a web server, a USB
console and a WiFi access point to configure it. This directory holds TLA+
modules of the parts where order, time and failure matter, configurations that
check them with TLC, and theorems about them that TLAPS proves.

Run a check with `tlc -config <cfg> <module>`, a proof with
`tlapm <module>_proofs.tla`. `PROJECT.json` lists the runs, the fault that
shows what each property catches, the source lines of every definition, the
hazards and the findings.

## The system

FreeRTOS runs the tasks on both cores, preemptively and with time slicing
(`include/FreeRTOSConfig.h`).

| task | priority | does |
|---|---|---|
| `startup_task` (`src/main.cpp`) | 1 | starts WiFi, web server and VE.Bus, loads the settings, creates the other tasks, ends |
| `communication_task` (`src/ve_bus.cpp`) | 8 | woken by the UART interrupt or after 20 ms: reads bytes, decodes frames, sends a request on a sync frame |
| `vebus_comm_task` | 8 | every 10 ms: feeds the watchdog (5 s) and calls `Maintain` |
| `victron_control_task` | 8 | every 2 s: stores changed settings, computes mode and power, queues them as requests |
| lwIP thread (`webserver.h`, `tcp_server.h`, DHCP, DNS, NTP callbacks) | 2 | answers web requests, changes settings, writes to flash |
| `usb_comm_task` | 1 | reads commands from the USB console |
| `wifi_search_task` | 1 | every second: host name, connection, scan, access point, NTP |
| UART receive interrupt | - | switches itself off and notifies `communication_task` |

### Inventory

| component | state | operations | talks to | correct when |
|---|---|---|---|---|
| VE.Bus request FIFO (`VEBus`, `static_vector`) | `_dataFifo`, `_id`, two semaphores | `WriteViaID`, `Read`, `SetPower`, `SetSwitch`, ..., `commandHandling`, `decodeVEbusFrame`, `checkResponseTimeout`, `checkResponseMessage`, `saveResponseData` | callers' tasks, communication task, `Maintain` | newer set points replace older ones, answers reach the request they belong to, retries are limited, every request leaves |
| VE.Bus frame codec | a `VEBusBuffer` | `prepareCommand`, `stuffingFAtoFF`, `appendChecksum`, `DestuffingFAtoFF` | FIFO, UART | in-place loops lose nothing; one end per frame; decoding gives what was sent |
| VE.Bus communication task and UART (`rs485_serial`) | `_receiveBuffer`, `_receiveBufferList`, interrupt enable, notification | `on_uart_receive`, `communication_task`, `commandHandling`, end of `Maintain` | interrupt, `Maintain`, `receive_cb` | no byte in two frames, no frame twice, no lost wakeup |
| VE.Bus status and value conversion | `_acInfo`, `_dcInfo`, `_multiPlusStatus`, `_masterMultiLed` with new-value flags, `_semaphoreStatus` | `decodeVEbusFrame` on info frames, getters, `convert*` | web server, control task | getters return a whole value; scaling inverts |
| Control loop (`victron_control_task`) | `settings`, measured power | one round every 2 s | settings, FIFO, persistent storage | a command is one decision on settings of its round; it follows settings at rest |
| Settings (`settings.h`) | the settings, `changed` | `parse_from_json`, `sanitize`, USB `set` | web server, USB console, control task | a change is stored; garbage is not loaded |
| Persistent storage (`persistent_storage.h`, `mutex.h`) | flash sector, `_write_buffer`, `_memory_mutex` | `read`, `write`, `write_array_range` | web, USB, control task | writing one member keeps the others |
| TCP server (`tcp_server.h`) | connection slots, receive and send buffers | accept, receive, sent, poll, error callbacks | lwIP, endpoints | every buffer comes back; no callback for a freed connection |
| Web endpoints (`webserver.h`) | - | GET, PUT, POST, DELETE handlers | all of the above | see the components called |
| WiFi storage, access point | scan list, names, passwords, connected/changed flags | `update_*`, `init`, `deinit` | lwIP, storage | a scan in progress is not disturbed; reconnects happen |
| DHCP, DNS server | lease table | DISCOVER, REQUEST | access point's clients | one client per address while the lease lasts |
| NTP client | time offset | `update_time`, receive callback | lwIP | time never from an old answer |
| Log storage, measurements (`static_ring_buffer`) | ring buffers | `push`, iteration | all tasks | at most N entries, the latest ones |
| Password storage (`crypto_storage.h`) | digests, nonces | digest authentication | web, USB, storage | pure computation on strings, plus one stored member |
| USB console | - | commands | settings, WiFi, passwords | see the components called |
| JSON, string, range utilities; web pages; build files | - | - | - | pure or static |

### What is hard about it

* The FIFO is shared by callers, communication task and `Maintain`. Each
  section under the semaphore is short, but the search for a free id runs
  without it, and `checkResponseMessage` continues after giving it back.
* Entries move: `pop` and assignment put the last one in the place of a removed
  one, with an evaluation order that matters (`ve_bus.cpp:985`, `992`).
* Every entry is touched by a sync frame, an answer that may be late, wrong or
  missing, a timeout, a retry and a newer request.
* Interrupt, task and timeout meet at one enable flag and one notification.
* Flash can only be erased whole; power may fail or the watchdog may bite in
  between, and several tasks write to the same sector.
* `settings` and `settings::changed` are plain variables of three tasks, and a
  round of the control task reads the settings one after the other.
* WiFi credentials, `wifi_changed` and the access point's flag are tested and set by
  `wifi_search_task` and by the lwIP thread without a lock.
* All tasks log into one ring buffer, and two others walk it.
* Leases end on a 32 bit clock of which 16 bits are kept.

## The modules

| module | models | composed with |
|---|---|---|
| `StaticVector` | `static_vector`'s `push`, swap-removal, and the assignment from `pop` | used by `VEBusRequests` |
| `VEBusRequests` | the request FIFO with its clients, bus and `Maintain` | implements `RequestPromise` |
| `RequestPromise` | abstract: what a caller may rely on for a request | |
| `FrameCodec` | building, escaping, closing and decoding of frames | |
| `Communication` | UART, interrupt, communication task, receive list | |
| `PersistentStorage` | the flash sector under its mutex | extended by `SettingsStore` |
| `SettingsStore` | settings, web server, USB console, control task's write, startup | the composition of settings and storage; implements `PersistentStorage` |
| `TcpServer` | the web server's connections, slots and buffers on top of lwIP | |
| `VEBusStatus` | what info frames store and getters copy | |
| `ControlLoop` | a round of the control task against changing settings | a module of its own: it reads the settings of `SettingsStore` and fills the FIFO of `VEBusRequests` |
| `DhcpServer` | the lease table, its clock and its clients | |
| `LogStorage` | the ring buffer with several pushing tasks and a walk | |
| `WifiStorage` | `wifi_search_task`, credentials, access point | |
| `*_proofs` | theorems about the module of that name; those about `StaticVector` are in `VEBusRequests_proofs`, those about `PersistentStorage` in `SettingsStore_proofs`, about `FrameCodec` in `Communication_proofs`, about `WifiStorage` in `DhcpServer_proofs` | |
| `MC*` | values of the constants for TLC | |

### VEBusRequests

`dataFifo` is `_dataFifo`, `lastId` is `_id`. An entry has the fields of `struct
Data` that decide anything: `sent`, `resend` (`resendCount`), `resp` (whether
`responseData` is empty, holds the expected code or another one) and `age`
(`millis() - sentTimeMs`, cut off at the timeout). Address and command are the
request's key. A request is named by its position in the history `reqs`.

`Request` is `WriteViaID`, `SetPower`, `Read`, `ReadInfo` and the others up to
their call of `addOrUpdateFifo`: they differ in the bytes only, which `Build`
and `SaveResponse` leave out. `SetSwitch`
has no id, expects no answer and leaves address and command uninitialized, so
its key is any key. `OnSync` is the part of `commandHandling` behind a sync
frame, `OnReply` the one of `decodeVEbusFrame` that stores an answer.
`CheckTimeoutBegin`, `CheckTimeout`, `CheckResponse` and `SaveResponse` are
`Maintain`. A section under `_semaphoreDataFifo` is one step; the sweep of
`checkResponseTimeout` is one step per entry, because `getNextFreeId_1` may read
the FIFO in its middle.

Assumed: a take of the semaphore succeeds (the code waits 3 ms and ignores the
result); the scan of `getNextFreeId_1` is one step; an answer does not arrive
after its id was handed out again (with the code's numbering that takes 128
more requests).

The promise (`RequestPromise`): requests are accepted or refused in order;
an accepted one is transmitted a limited number of times and only while it is
pending, closes once, and delivers only after a transmission. The refinement
maps a request to "pending" while an entry of the FIFO holds it.

### FrameCodec

One loop round of `stuffingFAtoFF` and `DestuffingFAtoFF` is one step, so that the
distance between the read and the write pointer is in the model. Bytes are bytes
and the arithmetic is that of the code: `0x70 | (v & 0x0F)` on values of at least
0xFA, sums modulo 256. The inverter's frames are built by the protocol the receive
path expects, and reception may begin within a frame. The growth of the buffer
cannot fail: requests have at most 9 bytes of the 128 that fit.

`stuffingFAtoFF` begins at the first byte, so DATA_FRAME of the header leaves
as 0xFA 0x7E, while the receive side looks for escapes from the fifth byte on.
The model has this as it is (`SentIsStuffed` states it); whether the inverter
minds is outside of this repository.

### Communication

A byte is its position on the bus. `BusByte` is the UART, which drops bytes
when its FIFO is full; `IsrDisable` and `IsrGive` are `on_uart_receive`; the
actions in `TaskStep` are `communication_task` and `commandHandling`, one byte
per step; `MaintainReceive` is the last part of `Maintain`. The history variables
`lost`, `decoded`, `delivered` tell where a byte went. The interrupt enable
is one flag, although each core has one in its NVIC.

### PersistentStorage and SettingsStore

A write is `WriteBegin`, `Lock`, `CopyData`, `FillRest`, `FlashErase`,
`FlashProgram`, `Unlock`, each a step of the writer's task. `EraseFails`
and `ProgramFails` are the error returns, when `flash_safe_execute` does not stop
the other core in time. `PowerLoss` may come between any two steps and
inside an erase or a programming, leaving any part of it done. Copying one member
is one step. An interruption erases or programs whole members. For `settings` and
host name, the two the model writes, this is right: flash is programmed in pages of 256
bytes, and each of them lies inside one. The stored user password lies across a page
border (byte 3840 of the sector), so an interruption may also leave half of it,
which the model does not have. Leftovers in `_write_buffer` are forgotten at `Unlock`: the next
write overwrites all of it.

In `SettingsStore` the lwIP thread does `PUT /ui_settings` (`PutBegin`, one
`PutField` per key, `PutEnd` or `PutFails`) and `POST /host_name`
(`PostHostName`, `PostWrite`), which stands for all other members written by that
thread. `ControlCheck`, `ControlWrite` and `ControlReset` are the first lines
of a round of the control task, `UsbSet` the console's command (which does not
raise `changed`), `LoadSettings` the end of `startup_task`, `Restart` a reset.
Values are in range, out of range, or those of erased flash, for which no
comparison holds. A field that `sanitize` rejects resets all of them.

The history variable `pending` says that a PUT is to be written to flash: `PutEnd`
raises it, the control task's copy of the settings into the write buffer lowers
it. A PUT that ends while the control task is between its test of `changed` and
its reset is not counted, because the code forgets it (see "Seen in passing").

### TcpServer

All callbacks of lwIP run in one thread, so each is a step of its own, except
that serving a request is several: `Receive` takes the buffers, `SendSome`,
`WriteFails`, `SendFails`, `SendRefused` are the calls of `tcp_write` and
`tcp_output` in `send_data`, `RequestEnd` gives the buffers back. Meanwhile
`client` is set and no other callback comes, not even an acknowledgement. `Accept`,
`Refuse`, `AcceptFails`, `RemoteClose`, `Poll`, `Reset`, `Abort` are the other
callbacks; they share `clear_client_pcb` (`ClearSlots`), which may find that
`tcp_close` failed and abort instead.

lwIP is modelled as far as the callbacks see it: a pool of connections that are
given out again, and a heap that holds what is not acknowledged yet. `MEM_SIZE` is
not larger than `TCP_SND_BUF`, so `tcp_sndbuf` never gets to 0 and it is the heap
that makes `tcp_write` fail. Two orders of lwIP matter: the error callback comes
before the pcb is freed with `ERR_RST`, and after it with `ERR_ABRT`. Handing lwIP
a freed pcb is undefined behaviour: `corrupt` becomes true, no step follows, and
no property claims anything for what comes later. Requests are a number of units
to send; their parsing and the endpoints are left out, and so is `stop`, which
nothing calls.

### VEBusStatus

`stored` holds `_masterMultiLed`, `_multiPlusStatus`, `_dcInfo`, `_acInfo`,
`isNew` their flags, `holder` is `_semaphoreStatus`. A frame is the parts it can
be decoded to: a charger condition has one for the LEDs' low battery and one for
current and temperature, each stored in a section of its own. `Decode`, `Compare`,
`StoreTake`, `StoreField`, `StoreGive` are `decodeVEbusFrame` and what it calls,
the comparison without the semaphore; `GetTake`, `GetField`, `GetGive` are a
getter. Copying a struct takes one step per field. `_acInfo` has no elements
because nobody resizes it: `operator[]` gives the first slot for every phase, so
there is one AcInfo. The flags `...Logged`, which nothing reads, and the empty
section at the end of `decodeInfoFrame` are left out. Values are abstract; a
charge above 32767 Ah, which never equals its 16 bit copy, is not among them. The
semaphore is assumed to be taken.

### ControlLoop

`sets` are the fields of `settings` a round reads; each read of one is a step,
from `RoundBegin` (`main.cpp:112`) to `SetPower` (`main.cpp:162`). `seen`, `volt`,
`soc`, `limit`, `mode`, `power` are the locals of the round. `PutField` and
`UsbSet` change a field between any two steps; `Surroundings` are the battery and
the knob. The limits are hundredths of a volt, so that a state of charge converts
to a voltage without fractions. `web_override` is read twice by the source, and
the compiler may use one read for both; `ReadOverrideAgain` has both outcomes. The
knob is one variable: `read_pot` selects the channel of the power knob whatever pin
it is given (`main.cpp:95`), so both reads of a round measure the same knob.

Settings may have any values, also powers that do not fit into 16 bits or have the
sign their mode does not expect: nothing in the code checks them. The power passes
through `i16`. That conversion of a float is undefined out of range; the build
converts to 32 bits, where it saturates, and keeps the low 16, and so does the
model. The mode is an 8 bit enumeration (`from_web_state`). `commanded` is what the
round gives to `SetSwitch` and `SetPower`. The history variable `held` collects the
values each field has had from the round's first read to its last; `Mixes` are the
settings that can be put together from them, and `CommandsAreWanted` says that the
commands are those one decision (`Wanted`) makes for one of them. A round nobody
disturbs has one mixture only.

The energies a round adds up (`measurements.h`) are left out.

### DhcpServer

`lease` is `d->lease`: a hardware address and the upper 16 bits of the clock at
which the lease ends. `Discover` and `Request` are the two branches of
`dhcp_server_process`, each with and without the answer reaching its client. The
scan of a DISCOVER is one step (`Candidates`, `Offered`, `Cleared`): it stops at
the client's own entry, remembers the first one that is free or has expired, and
clears it in the second case. `Expired` is the sign of a difference of clocks that
wrap. `Restart` is `dhcp_server_deinit` and `dhcp_server_init`. A client uses its
address until the time it was given has passed, may leave without a word (there is
no RELEASE), and asks for the address it last had. The server answers a REQUEST
only if it carries REQUESTED_IP, so a renewal, which does not, changes nothing and
the client asks anew when its time is over. The server sends no NACK. Parsing the
options is left out.

### LogStorage

`storage`, `cur_start`, `cur_write`, `full` are those of `static_ring_buffer`. The
loads and stores of `push` are the steps `Test`, `StoreStart`, `StoreWrite`,
`StoreFull` of a task; `cur_write` and `cur_start` are plain variables used more
than once, so a value that was loaded may be used again or loaded again, and the
model has both. `SetSeverity` and `SetMessage` fill the entry in. `Begin`, `End`,
`Visit`, `Finish` are `print_errors`. A message is its number. `alone` and `quiet`
remember whether pushes overlapped each other or the walk.

### WifiStorage

`wifi_search_task` goes through `Round`, `Check`, `Connect`, `Clear`, `Book`,
`ApTest`, `Scan` once or twice a second; `dt` is the time since the last link,
folded into one period of 30 s once it is past the timeout, as only `dt % 30` and
`dt > 10` are looked at. `AskSsid`, `AskPwd`, `AskFlag` are `POST /wifi_connect`
and the console's `connect_wifi`; `UserAp`, `UserSwitches`, `UserSetsActive`
switch the access point. `Found`, `LinkUp`, `LinkDown` are the driver. The
credentials of a request are its number, so that a name and a password of two
requests can be told from a pair. Left out: the host name and its flag, signal
strengths, the entries of the scan list while both threads change them, a read of
a name that is half written, and the password shorter than 8 characters, which the
console accepts and `update_wifi_connection` never tries.

## The runs

| run | checks | bounds |
|---|---|---|
| `requests` | `TypeOK`, `NoStaleEntry`, `AnswerBelongs`, `SendBound`, `DeliveredAtMostTwice`, refinement `KeepsPromise` | 3 requests, 3 keys, FIFO of 2, 2 ids, 1 retry, timeout 1 |
| `requests_live` | `EveryRequestLeaves` | 2 requests, 2 keys |
| `frames` | `UnreadIsUntouched`, `OneEnd`, `ChecksumCloses`, `SentIsStuffed`, `ReceiveInverts` | all payloads of up to 3 of 7 bytes, 3 frame numbers |
| `communication` | `EveryByteOnce`, `OneFrameAtATime`, `DeliveredInOrder`, `NoLostWakeup`, `EveryFrameIsDecoded` | 4 bytes, UART FIFO of 2, buffer of 2, list of 1 |
| `settings` | `TypeOK`, `MembersSurvive`, `ErasedOnlyIfInterrupted`, `PutIsNotForgotten`, `PostGetsLock` | 2 writers, 2 members, 1 field, 2 host names |
| `settings_garbage` | the finding below | as `settings` |
| `status` | `SnapshotIsWhole`, `NewsIsFlagged`, `StoredFollowsBus` | 2 readers, 2 phases, 2 values |
| `tcp` | `SlotsAreConnections`, `BuffersComeBack`, `EveryClientGoes`, `EverySendEnds` | 3 connections, 2 slots, heap of 2, responses of 3, 2 retries |
| `control` | `CommandsAreWanted`, `SettlesOnSettings` | 3 modes, one of them none of the switch states; 2 voltages, 2 knob positions; powers of 40000, 4000, 3600 W |
| `dhcp` | `NoSharedAddress`, `LeaseSeenRight`, `AddressComesFree` | 3 clients, 2 addresses, a clock of 12, units of 2, leases of 3 |
| `log` | `ReadsLatest`, `WalkEnds` | 2 tasks, ring of 2, 4 messages, 2 severities |
| `wifi` | `ActiveIsOn`, `RequestsAreTried`, `OfflineOpensAccessPoint` | 2 requests, period of 6 s, try in second 1, timeout 2 s, rounds of 1 or 2 s |

Why the bounds are enough. In `requests` the third request meets a full FIFO and
an id that is still in use, and with two slots a swap, an assignment to the wrong
slot and a removal in the middle of the sweep all happen; a retry may be the last
one. In `frames` the bytes lie on both sides of 0xFA and of the checksum's
borders; three of them are enough to have an escape before, between and behind
plain bytes, and the sums reach checksums of 0xFA, 0xFB to 0xFF and others. In
`communication` every container overflows and two frames with a loss between them
fit. In `settings` both writers wait for each other, and an interruption can hit
each of them; the number of restarts is not bounded. In `status` two values are
enough to tell old from new, and two readers to have one in its section while
another waits. In `tcp` the pool is larger than the table, so that a client is
refused, a connection aborted behind the server's back can be given out again
beside its old slot, and a response does not fit on the heap. In `control` one
voltage lies below and one above what is asked for, as volts and as a state of
charge; the three powers are different after the conversion, so a power that is sent
with another's mode shows, and one of them does not fit into 16 bits. In `dhcp` a
lease, the unit that is cut off, half the clock and the whole of it are all different and within
reach, and the third client finds both addresses taken. In `log` the ring fills,
goes round and fills again. In `wifi` a round of two seconds jumps over the second
of the try, and the timeout passes within one period as it does in the code (10 of
30).

`frames` stops at the end of a frame and `tcp` when the pool is corrupt, so
these two do not check for deadlock. All other passing runs do.

### Fairness

* `requests_live`: weak fairness of `Maintain` and `Tick`. `Maintain` is called
  every 10 ms by a task of the highest priority in use, and time passes.
  Client and bus owe nobody a step: the property holds on a dead bus.
* `communication`: weak fairness of `TaskStep`. The task has the highest
  priority, shared under time slicing with two others on two cores.
  `Maintain`, the interrupt and the bus owe nothing, since the task wakes up
  after 20 ms by itself.
* `settings`: weak fairness of `PostWrite` and `ControlStep`: a task in the
  middle of a write goes on. New requests are not owed.
* `tcp`: weak fairness of `Serve`, lwIP's thread in the middle of a request; and for
  each connection strong fairness of `Poll`, unless it is acknowledged again and
  again. Strong, because every request makes the thread busy, but it looks at the
  timers before each message it takes; conditional, because lwIP starts a
  connection's poll timer anew at each acknowledgement. Clients owe nothing.

* `control`: weak fairness of `ControlStep`. The task has the highest priority in
  use, and its delay and the semaphores it waits for end. Settings, battery
  and knob owe nothing; `SettlesOnSettings` asks for them to come to rest.
* `dhcp`: weak fairness of the clock; for a patient client strong fairness of
  `Discover` and `Request` with an answer that arrives: it asks again and again,
  and not every message is lost. Strong, because it cannot ask while it has an
  address and a DISCOVER finds nothing while the others have all of them. The
  other clients owe nothing.
* `wifi`: weak fairness of `TaskStep` and of a call of the user that has begun.
  Strong fairness of `Connect`: the driver does not refuse every time. Strong
  fairness of a round that ends in the second of the try: a round takes one second
  and what connecting and scanning take on top, which is not the same every time,
  so that it does not jump over the second for ever.

### Findings

* `settings_garbage`: `sanitize` compares with `<` and `>`, which are both false for
  the NaN that erased flash reads as, so an erased sector is loaded
  (`settings.h:37`); `main.cpp:185` says it cannot be.

Seen in passing, in the model as the code has it, and, where no other text is named,
not a run because nothing in the repository says otherwise:

* giving up the entry in the last slot overwrites slot 0 and keeps the entry
  (`ve_bus.cpp:992`). Line 985 does the same with an answered one: it is delivered
  a second time, which is why two deliveries are allowed;
* a PUT that ends while the control task writes is forgotten by `changed = false`
  (`main.cpp:110`);
* all phases share one AcInfo (`ve_bus.cpp:341`, `ve_bus.h:130`), so the web page
  shows one phase under eight names;
* the reset of one connection closes all of them (`tcp_server.h:221`);
* two pushes that overlap can leave a full ring that looks nearly empty, or an
  entry with the severity of another message (`static_types.h:112`);
* `dt` is computed before the link is looked at: a link that just came up is
  dropped again by a retry, or the access point opens beside it (`main.cpp:62` to
  `68`);
* overlapping calls of `init` and `deinit` leave the access point's flag wrong,
  and a second `init` clears the leases (`access_point.h:31`);
* a lease that nobody looked at for half the clock (24.8 days) looks unexpired
  again for as long (`dhcpserver.c:230`);
* a request that finds the FIFO full is dropped and its caller is told Success
  (`ve_bus.cpp:409`; `ve_bus.h:67` promises 0);
* after a wrong answer `responseData` stays, so each `Maintain` counts the same
  answer again (`ve_bus.cpp:998`);
* `idUsed` is never reset, so one used candidate refuses the request although ids
  are free (`ve_bus.cpp:417`);
* the retries of `send_data` cannot be helped by acknowledgements, which
  wait for the same thread (`tcp_server.h:486`);
* AcInfo's new flag is raised and then overwritten (`ve_bus.cpp:867`, `869`);
* the control loop reads `web_override` twice; when it is cleared in between,
  the commands are computed twice, when it is set, not at all, and the inverter is
  sent to sleep (`main.cpp:130`, `148`);
* a power out of range changes its sign when it is converted to 16 bits: a `max_w` of
  40000 makes ChargerOnly discharge with 25536 W (`main.cpp:161`). And the web page
  negates `min_w` when it sends it (`settings.html:43`), but shows the stored value as
  it is (`settings.html:63`): it shows -4000 and sends 4000, and InverterOnly then
  charges with 4000 W;
* both knobs are read from the channel of the power knob (`main.cpp:95`), so the knob
  for the least voltage has no effect;
* the default host name is always replaced by the load, by an empty one on a new
  device; a PUT may store battery voltages that `sanitize` rejects at the next
  start, and then all settings are lost;
* `tcp_server.h:51` notes that the server "instantly discards any connection after the
  response was sent". No path of `RequestEnd` closes one: it stays until the client
  closes it or a poll finds it, which is what `EveryClientGoes` states. This is a
  divergence without a run of its own, as the code plainly has no such step;
* outside of what is modelled: `last_scanned - cur` is unsigned, so the interval
  of ten seconds between scans does not hold (`wifi_storage.h:79`); the flag of a
  new host name is reset although another one came meanwhile
  (`wifi_storage.h:53`); `README.md:49` names the access point `pico_iot`, the
  code `victron-steuerung`; the separator of the log's JSON is decided by a second
  `begin()`, which another push may have moved (`webserver.h:30`); a float given
  to `WriteViaID(Settings, ...)` is checked against its range and then sent as 0
  (`ve_bus.cpp:175`, `187`), an offset is added twice (`ve_bus.cpp:1061`), and an
  answer to `ReadInfo` leaves `available` and `dataType` of its entry
  uninitialized (`ve_bus.cpp:1137`).

## The proofs

All theorems hold for all values of the constants that satisfy the modules'
named assumptions. The theorems about `FrameCodec` are in `Communication_proofs`,
which extends both modules of the way of a frame, and the one about `WifiStorage`
is in `DhcpServer_proofs`, with the other half of the access point; that is why
these two modules call their specifications `CodecSpec` and `WifiSpec`.

* `VEBusRequests_proofs`: first what push, swap-removal and the assignment from
  `pop` do to length and slots of a `StaticVector`; then `TypeOK`, `NoStaleEntry`,
  `SendBound`, `AnswerBelongs`, `DeliveredAtMostTwice`. `TypeOK` is inductive. The
  others rest on it and on `EntriesDistinct`: no request is in two slots. That is
  where `_dataFifo[i] = *_dataFifo.pop()` could do harm, and does not: it
  overwrites slot 0 by the popped entry. A lemma sums up what any step but an
  addition does to the FIFO (`FifoKept`), so that each invariant needs one look at
  each kind of change instead of one at each action. `SendBound` is not inductive:
  an entry's `resend` and `sent` must account for every transmission of its
  request (`SendsCounted`), and requests not yet added must be untouched
  (`FreshUntouched`). `AnswerBelongs` needs that no newer request carries the id
  of a queued one (`IdsFresh`), which holds although the scan reads the FIFO
  without the semaphore: only the client task adds. `DeliveredAtMostTwice` needs
  to know what a second delivery costs (`SavedCounted`): an entry that was
  delivered and left behind by the wrong assignment is in the first slot.
  `KeepsPromise`, the refinement of `RequestPromise`, takes all of these together
  (`PInv`): a request that is transmitted was sent less often than it may be, one
  that is delivered was sent. Which requests are queued changes in few ways, one
  lemma for each shape of a step (`QueuedKept`, `QueuedDrops`): because of
  `EntriesDistinct`, a slot that is dropped is one request that closes.
* `Communication_proofs`: `TypeOK`: the sizes of UART FIFO, buffer and list are
  kept, and a frame is stored only with its end. It needs that everything in FIFO
  and buffer came from the bus (`FromBus`). `NoLostWakeup` is
  inductive as it stands. `OneFrameAtATime`: an `END_OF_FRAME` in the
  receive buffer is its last byte, and then nothing but the store comes next
  (`BufferEnds`). `DeliveredInOrder`: what was given away ended before everything
  that is still in the buffer or the FIFO (`GivenInOrder`), and the buffer comes
  before the FIFO (`BytesInOrder`). `EveryByteOnce`: the bytes that are kept, put
  one behind the other, and the lost ones split what was on the bus (`Split`); a
  step of the task cuts the kept ones at another place (`StoreFrameKept`) or moves
  some to the lost ones (`ReadByteKept`), and only `BusByte` adds one to either.
* `Communication_proofs`, the frames: `UnreadIsUntouched`, `OneEnd`,
  `ChecksumCloses`, `SentIsStuffed`, `ReceiveInverts`, for payloads of any length and
  any bytes. On the way down (`StuffsDown`) everything above the write pointer is
  as it will be sent, everything up to the read pointer as it was, and the write
  pointer is the length of the escaped form of what is still to be read, so it is
  not below the read pointer. On the way up `Destuffs` says which bytes have not
  been touched, for whatever arrives; for a whole frame `Stage` says what has been
  written, behind each byte of the payload, behind the checksum and behind the
  end, and each round goes from one stage to the next although it may take two
  bytes. `AccessesInside`, which no run states, follows from the same invariant:
  no index of either loop is outside of the buffer, also when a frame arrives
  without its beginning.
* `Communication_proofs`, the lemmas on sequences: `FlattenSeq` and the sum behind
  the checksum are folds, recursive functions beneath. The library's induction
  theorems have an operator as parameter, which the provers cannot instantiate;
  so the module derives an induction on sets (`SetInduction`) from the least element
  of a set of naturals, and with it what an appended element does to either fold.
* `SettingsStore_proofs`, the storage: `MembersSurvive` and
  `ErasedOnlyIfInterrupted`, for any writers and members. The invariant adds
  mutual exclusion, that `_write_buffer` holds the rest of the sector once it is
  filled (`RestIsSaved`), and that everything in it is worth programming when the
  sector is erased (`ReadyToProgram`).
* `SettingsStore_proofs`, the settings: `SettingsStore` implements
  `PersistentStorage` (`ImplementsStorage`: every step is one of the storage or a
  stutter), hence `MembersSurvive` and `ErasedOnlyIfInterrupted` hold for settings
  and host name. `TypeOK` needs that each thread writes its own member only
  (`OwnMembers`): otherwise a host name could be programmed as settings.
  `PutIsNotForgotten` needs to know that nothing is pending any more when the
  control task has copied the settings, until it has reset `changed` (`Waiting`).
* `TcpServer_proofs`: `TypeOK`, `SlotsAreConnections`, `BuffersComeBack`. Closing
  is the only step that changes many slots at once; `ClearKeepsConnections` does
  it once, for any set of slots that covers all slots of the connections it closes.
  The invariant adds that stale slots are taken ones (`StaleIsTaken`).
* `VEBusStatus_proofs`: `TypeOK`, `SnapshotIsWhole`, `NewsIsFlagged`. A half
  finished copy agrees with what is stored (`CopiedIsStored`), because whoever
  stores holds the semaphore and nobody else is in a section (`OneInSection`).
  `StoredFollowsBus`, an action property, needs that what of a part has been stored
  is what the part says (`StoredIsContent`).

* `ControlLoop_proofs`: `TypeOK` and `CommandsAreWanted`, for any settings, voltages
  and knob positions: nothing is assumed of the powers. The invariant carries a
  witness: at every statement there are settings `s`, each field with a value it had
  during the round (`Mix`), of which everything the round has found out so far is
  true (`TrueOf`). Each read replaces in `s` the fields it has just read by their
  values now (`Blend`) and leaves those the earlier reads rest on; what others change
  meanwhile only adds mixtures.
* `LogStorage_proofs`: `TypeOK` (no push writes outside of the ring, however many
  overlap) and `WalkEnds`. A walk that has left its begin gets nearer to its end
  with every entry (`WalkOf`, `StepAhead`); `stop` is read once, so pushes cannot
  move it.
  `ReadsLatest`: while pushes do not overlap, the ring is a queue (`Whole`), and each
  statement of a push says how far the queue is from it (`Stage`); the walk is at
  its end exactly when it has seen all (`EndOfWalk`), full ring or not.
* `DhcpServer_proofs`, the leases: `NoSharedAddress` and `LeaseSeenRight`, for any
  clients, addresses and steps of the clock, and for any circle of the clock, unit
  and lease time that `SizesAssumption` allows: a lease and a unit together are
  shorter than half the circle (in the program a day, 65.5 s and 24.8 days).
  A client that uses an address is the holder of its lease, and the time it has
  left is at most what the lease has left on the clock, which is less than half of
  it (`Holds`), so that the sign of the difference tells the truth.
  `LeaseSeenRight`: as long as the end of a lease is less than half way round, the
  rest that the server sees is the rest at the acknowledgement less the time since
  (`SeenInv`). Beneath are lemmas about `%` by a variable: a remainder is unique
  (`OneRemainder`), and numbers that differ by a multiple share it
  (`SameRemainder`).
* `DhcpServer_proofs`, the access point: `ActiveIsOn` of `WifiStorage`. Whoever is
  alone inside of `init` or `deinit` finds the access point as its last statement
  has left it (`Alone`); once two calls have overlapped, nothing is claimed.

Only model-checked: the liveness properties, `PostGetsLock` among them, which are
beyond the proof system. All other properties of the passing runs are theorems.

Of three liveness properties the half that is safety is proved, for all constants:
the step a fair scheduler owes leads somewhere, and nothing undoes it.

* `RequestsMoveOn` (`VEBusRequests_proofs`, for `EveryRequestLeaves`): a queued request
  has been tried more often, or transmitted, or is nearer to its timeout after any
  step that leaves it in the FIFO (`Nearer`). It needs `EntriesDistinct`: with a
  request in two slots the younger entry could survive.
* `SendingRunsOut` (`TcpServer_proofs`, for `EverySendEnds`): what is left of the
  response, times the retries, plus the retries left is a budget that every call of
  lwIP draws on, and no other callback comes meanwhile.
* `MutexComesBack` (`SettingsStore_proofs`, for `PostGetsLock`): each step of the
  mutex' holder is one nearer to the unlock, on the error paths too. It is proved of
  the storage and carried over to the settings by the refinement.

## Not modelled

* Value conversion (`convert...ToRawValue` and back, decoding in
  `saveResponseData`): products of 32 bit floats that are truncated; TLC and
  TLAPS have no floating point numbers, and in integers it would be another
  program.
* Measurements: sums of floats in the ring buffer that `LogStorage` models,
  written by one task.
* Web endpoints, web pages, JSON and string parsing: formatting and pure string
  code. The endpoints that change shared state are actions of `SettingsStore`,
  `LogStorage`, `WifiStorage`.
* Password storage: digests computed by mbedtls, and one more member of
  `PersistentStorage`.
* DNS server: no state; every question gets the own address. NTP client: an offset
  that each answer replaces.
* The USB console's other commands, which call the components above; the
  host name's way to the driver; scan results while two threads change them.
* Build files: the configuration they hold (priorities, cores, lwIP's memory)
  is used above.
* Scheduling: the tasks of priority 8 spin with `taskYIELD` while bytes are
  missing (`ve_bus.cpp:59`); which lower priority starves on which core is
  not in the model. The 3 ms limit of every semaphore take, whose result the code
  ignores, is taken not to expire.
