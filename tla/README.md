# Verification of the lora-hacks firmware

TLA+ modules, TLC configurations and TLAPS proofs for the Zephyr application in
`src/app`, the SMP-over-LoRa transport in `src/subsys` and the two drivers in
`src/drivers`. The firmware reads a temperature and humidity sensor, reports over
LoRaWAN, obeys downlinks (door opener, infrared LED, settings, reboot), can be
managed with SMP over LoRa and, in one build, advertises over Bluetooth.

To check a run: `tlc -config <cfg> <module>`; to check a proof: `tlapm <module>`.

## 1. Inventory

### Threads

| thread | code | calls into |
|---|---|---|
| main | `main.c:85-267` | join, uplinks, sensor, ADC, clock, watchdog feed |
| LoRaWAN stack, downlink callbacks | `lora.c:31-45`, `main.c:336-406`, `smp_lora.c:125-163` | settings, garage, IR, Bluetooth, an error uplink of its own |
| SMP uplink thread | `smp_lora.c:63-122` | `lorawan_send`, clock |
| SMP work queue | `smp_lora.c:186-221` | hands a response to the uplink thread and waits |
| garage door thread | `garage.c:70-98` | GPIO, watchdog_fatal |
| system work queue | `bluetooth.c:79-177`, `garage.c:42-63` | advertising, LED, button debouncing |
| Bluetooth callbacks | `bluetooth.c:180-252` | advertising work, garage |
| interrupts | timer `bluetooth.c:85-92`, buttons `bluetooth.c:256`, `garage.c:65` | submit work |

### Components

| component | state | operations | what makes it correct |
|---|---|---|---|
| Clock reference count, `hfclk.c` | semaphore, `hfclk_count` (uint8_t), the hardware clock | `hfclk_enable`, `hfclk_disable` | count and hardware agree; a user has its clock; an idle clock stops; the count never wraps |
| LoRa uplink, `lora.c:156-202` | `unconfirmed_packets` (uint8_t, no lock) | `lora_send_message`: choose, send, retry, count | a call succeeds with its last packet, and only a confirmed packet nobody acknowledged goes out again; the counter stays comparable; confirmed packets in the configured cadence; calls return |
| Main loop and join, `main.c`, `lora.c:47-154` | `lora_joined`, `lora_sent_join_message`, `failed_messages`, `send_flags`, `sensor_reading_time` | a loop of join, start-up, uptime, readings, sleep | no readings in a session without its start-up message; a dead link is left; a requested uptime is kept until it is sent; the clock is off asleep |
| Downlink callback, `main.c:269-406`, `lora.c:31-45` | the list of callbacks in the stack; the flags above | dispatch by type; reboot, clear, uptime, interval; error uplink | malformed downlinks change nothing; every downlink is dispatched to its end |
| SMP over LoRa, `smp_lora.c` | `smp_lora_fifo`, `empty_message` (static), `tx_data` (on a stack), reassembly | receive, poll, send fragments, wake the caller | the fifo is well formed; nobody touches a dead stack frame; polls match partial packets; the caller gets back |
| Garage, `garage.c`, `garage.overlay` | door thread, binary `door_sem`, output pin, `button_work` and its counter | door request, pulse, debounce, failure | one pulse per request, none lost; output let go in the end; one clearing of bonds per press |
| Watchdog, `watchdog.c` | `watchdog_feed_allowed`, the hardware counter | `watchdog_feed`, `watchdog_fatal`; `watchdog_init`, which nothing calls | a fatal error resets the device, which it does not |
| Bluetooth advertising, `bluetooth.c` | `continue_advert`, `in_connection`, `active_conn`, timer, work items | window opened by press or LoRa, closed by timer or LoRa, connections | every window closes; flags agree, and the connection is used while it exists; LED goes off |
| Bluetooth pairing, `bluetooth.c:306-379` | bonds, accept list, security level | pairing callbacks, `bluetooth_clear_bonds` | bond limit; only bonded peers open the door; advertising comes back |
| Settings, `settings.c` | keys, device name, passkey, ADC offset, each in RAM and flash | set, get, load, clear, set over LoRa | RAM and flash agree; sizes are checked; cleared keys are not used |
| Sensor, `sensor.c` | the regulator's reference count | fetch, set-up | powered only while read |
| DHT driver, `dht.c` | last sample, pulse durations, pin, timer, interrupt lock | fetch (40 pulse widths), channel get | every bit decoded right; a sample is a frame received whole; line and interrupts released |
| ADC driver, `adc_nrfx_adc_internal.c` | channels, buffer pointer, active channels | set-up, read, interrupt | samples land in the caller's buffer, each in its place |
| Supply voltage, `adc.c`, `main.c:195-233` | the voltage in the readings | read, convert, add the offset | a report carries its own round's values |
| Infrared LED, `ir_led.c` | the frame being sent, interrupt lock | `ir_led_send` | the frame is its command's bits, timed under a running clock |
| LEDs, shell, board set-up | little or none | GPIO, parsing | conversions |

### How they interact

Main and the downlink callback meet in `send_flags`, `sensor_reading_time`, the
counter of unconfirmed packets and the clock; the callback runs inside the stack's
dispatch, so nothing else is delivered while it sends its own error uplink. The SMP
transport registers its own downlink callback, collects packets and gives complete
requests to the SMP work queue, which blocks until the uplink thread has sent the
response. A receive window, and with it a downlink, follows any uplink of the device.
Garage is asked by LoRa, by a Bluetooth write and by a Bluetooth security change;
every fatal error of garage, Bluetooth and uplink goes to `watchdog_fatal`, and main
alone feeds. The watchdog itself is never started.

### What is hard here

* Four threads share a count and the hardware behind it, and ignore failures.
* An unlocked counter and flags shared between main and a callback.
* Two intrusive list nodes (`downlink_cb`, `empty_message`) that can be linked twice.
* A buffer on the stack of one thread, read by another.
* Retries, gateway loss, rejoin, reset at any point, erased flash under live RAM.
* Interrupts between a test and the action it guards.
* uint8_t arithmetic at its edges: `len - 2`, the failure count, the clock count.
* Bonds counted by one thread, cleared by another and compared in a callback.
* Drivers that release line, interrupts and power on some paths and report on others.

PROJECT.json lists these at their lines, with the properties that watch them.

## 2. Plan

The order in which the modules were written, the behaviour that matters most first:

1. Hfclk and its contract, LoraUplink, AppMain (with SList), with proofs.
2. SmpLora on the same list module; Watchdog and Garage composed, with proofs.
3. BtOnDemand and Settings, with proofs.
4. BtBonds: bonds, accept list, clearing while a peer pairs, the door behind it.
5. IrLed as a user of Hfclk; Readings on AdcNrfx; Dht with its decode.
6. Proofs of the invariants of SmpLora, AdcNrfx, Readings and IrLed; UplinkContract, which
   relates LoraUplink to the single step that AppMain makes of it.
7. The decode of Dht bit by bit, as the loop has it, so that ReadingExact can be proved; what
   SmpLora has sent when its caller gets back.

Modules keep parameters as constants with named assumptions, one action per step,
invariants as conjunctions of named parts, and no RECURSIVE operators, so that every
module can be proved about. Names that two modules of one proof module would share carry the
component's (SmpSpec, DhtSpec, IrSpec).

## 3. Modules and the code

`Mutant...` operators stand before the definition they vary; each is a plausible slip
of the code that breaks one property. They are in no specification.

**Hfclk** (`hfclk.c`). State: the semaphore's holder, the count, the clock, where each
user is, whether it was granted, and which driver calls ever failed (history). Steps:
take, hardware call or its failure, counting or clearing with the return. Users
alternate enable and disable, whatever enable returned: every caller does
(`main.c:134,251`, `main.c:392,402`, `smp_lora.c:76,120`, `ir_led.c:194,261`).
**HfclkContract** is the header's promise without count and semaphore: the clock runs
before it is granted and stops when nobody holds it. The promise is void once the
clock could not be started, because the user it was refused to disables it anyway.

**LoraUplink** (`lora.c:156-202`). One action per access to the unlocked counter. The
load is one step for comparison and increment (`lora.c:183-187`, `++` on the value
just compared) and the store another. `lorawan_send` has three outcomes. Accept: it
returned 0, for an unconfirmed packet because it is on the air, for a confirmed one because
the gateway acknowledged it. Reject: it failed with nothing sent. Unheard: it failed although
the confirmed packet was sent, because no acknowledgement came; the next attempt sends the same
packet once more. Payload, data rate and the five-second sleeps carry no state.
**UplinkContract** is what the callers rely on: a call that succeeds did so with the last packet it
put on the air; a packet is sent again only if it asked for an acknowledgement, at most once per
attempt; and only a failure stops the feeding of the watchdog. An error does not mean that nothing
was sent. Which packets are confirmed and the counter do not show in it. AppMain, which takes a call
for one step, stands on it.

**AppMain** (`main.c`, `lora.c:47-154`). One program counter for main, the stack's walk
over its callbacks as a second thread, and resets at any time. A message is one step that succeeds or
not; LoraUplink has the attempts. A confirmed packet succeeds only with the gateway in reach, an
unconfirmed one without it: the start-up message is always confirmed, uptime and readings
are when `unconfirmed_packets` is at its limit (MayGoUnconfirmed, NextCounts). While the callback
sends its error uplink as well, that counter may be anything, as LoraUplink shows. The step
of a successful uplink is the packet going out; the receive window behind it comes after that
step. `activated` is whether the stack has a session, which it keeps when main decides to join
again: downlinks come through it.
A downlink is its operation, the size the code computes and a value; with a length of
one the operation is whatever follows in the buffer and the size is 255. The list of
callbacks is **SList**, Zephyr's `sys_slist`, modelled from how its two users call it;
`lora_setup` appends the same node on every call. What is in a list is defined without
following it (Members: the nodes in every set that is Closed under the links), which a
circular list does not disturb. `keys` is in RAM, `stored` in flash.
`CallbackReplied` always comes: `lorawan_send` is taken to return in the stack's thread.

**SmpLora** (`smp_lora.c`, default options: reassembly, polling, fragments). The fifo is
SList with the rule of `k_fifo_put` that a waiting thread is handed the data; `loop` is
where the uplink thread is. The nodes
are the static `empty_message` and the response on the work queue's stack. Fragment
sizes are the code's `data_size` and `pos`; bytes are not modelled. The server sends one
request at a time and one packet per receive window. Windows open behind every uplink of the device:
those of this transport, also one that failed for want of an acknowledgement, and those of main
and its callback, which may come at any time (OtherUplink). `relinked` records that a
packet in such a window has put `empty_message` into the fifo while it was in it. From then on the node
points to itself, the list has no end, and what is behind it, a `tx_data` long gone included, stays
linked; the properties of the fifo hold up to there, and smp_polls is the way there.

**Watchdog** (`watchdog.c`): the test and the feed are two steps, and `watchdog_fatal` may come
between. The boot is that of `main.c:85-131`, which calls nothing of it. `watchdog_init` is
translated, and no behaviour takes it; so feeding is never allowed, the hardware never counts, and
FeedTest, Feed, Tick and Expire are never enabled. **Garage** (`garage.c`) extends it with
the door: it begins with that boot, and a failed GPIO call ends in `watchdog_fatal`. Each GPIO
call can fail. The overlay's hog is why the output is inactive after a reset, for which there is only
the reboot a downlink asks for (or the power).

**Settings** (`settings.c`, the setting commands of `shell.c`, `lora.c:71-100`,
`main.c:87-99`). A job per thread says where it is in the set handler: the name zeroed, the
first and the last byte copied to RAM, the lock taken and the first byte read back for
flash, the rest read and the entry replaced. Both handlers are one operator; they differ
in the treatment of the name. `settings_runtime_set` enters a handler without the lock,
a load with it; `settings_save_one` takes it again. Values are pairs of bytes so that
copies can be torn; a name is its length. The argument that the handler inspects for
its name is not the name (`settings.c:164`), so a load may refuse any stored name.
`settings_delete` removes the entry of exactly the name it is given.

**BtOnDemand** (`bluetooth.c` as `bluetooth.conf` builds it). The work queue's items in
order, the stack's callback thread, the LoRa callback and the timer's interrupt; a
callback's two assignments are two steps, and so are the test of `in_connection` and the
use of `active_conn` in `bluetooth_remote`. One connection object: connectable
advertising cannot start until it is recycled. `target` is what `bt_conn_disconnect` was given; NULL is
among it (section 4). The stack is external, and NULL is assumed to make it return an error.

**BtBonds** (`bluetooth.c` as `garage.conf` builds it: `BT_SMP`, always advertising). Main at
boot, the work queue and the LoRa callback are threads inside `bluetooth_clear_bonds` or
`advertise`, each of which is one step per access to what they share: the test of
`in_connection`, stop or disconnect, `bt_unpair`, the zeroing of `bonds`, the count with the accept list, and
`bt_le_adv_start` with the choice that the count makes. The stack's thread has the
callback it is about to run. The stack is external: one connection object, a bond
table in flash that refuses nobody, security levels, an accepted pairing that
succeeds or fails. `bt_le_adv_start` fails while the device advertises or the
connection object is in use; the `watchdog_fatal` behind it does nothing without a watchdog.
`connected` searches the peer among the
bonds but never reads what it found; its comment (`bluetooth.c:192`, "if not, disconnect")
is not carried out and the model has no such branch. `overlapped` records whether a thread or the end of a
pairing ever came while another thread was at work. `Disconnected` is `disconnected` with
the `do_advert` behind it, which in this build submits unconditionally.

**IrLed** (`ir_led.c`) extends Hfclk with one of its users: the call, its use of the clock
(whose results it drops), the interrupt lock, and the two loops over bytes and bits.
A frame is the sequence of its spaces. While interrupts are locked the other users
stand still. Command bytes are those of the source.

**AdcNrfx** (`adc_nrfx_adc_internal.c`) is the driver: configuration of a channel, the
checks of a read in their order, the start, and the interrupt, which goes on with the next
sampling and moves the buffer pointer, repeats a sampling and does not, or ends. The
channel's gain is written before its reference is found to be wrong and so survives the
error. **Readings** (`main.c:187-266`, `sensor.c`, `adc.c`) extends it with the round of the
main loop that uses it: the regulator's count and whether the sensor is powered, the sensor's three calls, each of which
may fail, the conversion to millivolts in the code's integers, the offset and the
uint16_t it is added into, and the message of the round. Main asks for one channel once; the
other requests of the instance stand for other users of the driver's interface.

**Dht** (`dht.c`, `dht.h`: `dht22`, interrupts locked). The two response pulses, one step per
bit's pulse, threshold, one step per turn of the loop that shifts a bit into its byte (`buf`, and
its indices `i` and `j`), checksum, cleanup. What a fetch has on its stack (durations, threshold,
bytes) is cleared where nothing reads it any more. What the sensor sends, the bits of a
frame, is external; the duration of a bit is any member of two sets, and the line may
turn up to MaxNoise pulses of a frame into the other kind; `noise` is which. FramesMixed says of a
frame that it has two bits of each kind, which only the frame of zeros alone has not: that one has no
long pulse, its threshold is a short one, and some or all of it is misread as ones. `sensor.c` cannot be built with
this driver (`#error`, `sensor.c:20`), so the two are separate modules: Readings lets
every sensor call fail without saying why.

## 4. Runs

| run | question | result |
|---|---|---|
| ir_frame | four users, every driver call may fail, one of them the IR LED | ClockMatchesCount always; ContractSpec and FrameHasClock while starts succeed; FrameIsCommand |
| uplink_shared | main and callback in `lora_send_message` at once | CountInRange, PromiseSpec (the refinement of UplinkContract), CallReturns; SerialCadence while calls do not overlap |
| main_loop | main, callback, resets, gateway that comes and goes | FailuresBounded, StartupFirst, ClockReleased, ClearedStaysOff, RequestKept, DeadLinkLeft, UptimeAnswered |
| main_downlink | does the dispatch of a downlink end | no: DownlinkEnds is violated after a second `lora_setup` |
| smp_exchange | requests in up to four packets, responses in fragments, uplinks of main at any time | SmpTypeOK (which includes the clock held only while sending) always; BufferOwned, PollsOnlyAskedFor, ReleasedWhole, ResponseReturns until `empty_message` is linked to itself |
| smp_polls | is every empty packet asked for | no: PollsMatchPartials is violated |
| garage_door | requests, button, failures, reboots | PulsesAskedFor, ClearsAskedFor, DoorReleased, RequestAnswered |
| settings_store | loads, shell and downlinks in the handlers at once, failures, resets | StoredIsCurrent, PromiseKept, NameTerminated, HandlersReturn |
| bt_window | presses, LoRa, timer, connections in every order | ConnectionKnown, WindowTimed, LedGoesOff |
| bt_bonds | peers pair and return while button and downlink clear the bonds | BondLimit while nothing overlaps a count, DoorForBonded, TriesToAdvertise |
| readings | a round's readings with every error, and the converter's interrupt | SamplesInPlace, ReportFresh |
| dht_fetch | frames with varying and disturbed pulses, fetches that fail | BitsRight, ReadingExact, LineReleased |

What the violated ones show, with the text they contradict:

* **main_downlink**: `lora_setup` registers the same list node again at a rejoin; the
  list becomes a circle and the next dispatch never ends (`lora.c:110`, `Kconfig:90`).
* **smp_polls**: main sends while a request is being collected, its receive window brings the next
  packet, and `empty_message` is put into the fifo while it is queued: the node points to itself
  and the thread sends empty packets for ever (`smp_lora.c:160`; `Kconfig.lora:50`, "Will send an
  empty packet if a partial (fragmented) message has been recieved").

Statements of the repository that the code does not keep and that a module has as a definition. To see
the behaviour, name the definition in a copy of the run's configuration:

* ClearedIsGone (Settings, `settings_store.cfg`): `lora_keys_clear` deletes an entry that does not
  exist; the keys stay in RAM and flash (`settings.c:134`; `settings.h:25`, "Clear LoRa keys";
  `shell.c:252`, "LoRa keys cleared").
* FatalResets (Watchdog, `SPECIFICATION WatchdogSpec` and `Window = 2`): nothing calls
  `watchdog_init`, so nothing follows `watchdog_fatal` (`main.c:85`, `watchdog.c:22`; `Kconfig:122`,
  "will setup and feed watchdog which will reboot device if the device stops responding").
  NeverArmed in GarageProofs proves that the watchdog never runs.
* AlwaysAdvertises (BtBonds, `bt_bonds.cfg`; one peer and a table of one are enough): `disconnected`
  submits the advertising before the stack has recycled the connection object;
  `bt_le_adv_start` fails and in this build nothing tries again (`bluetooth.c:154`; `Kconfig:145`,
  "will always advertise"). Clearing the bonds of a connected peer (`bluetooth.c:472`) fails the
  same way. TriesToAdvertise, which the code keeps, is that an attempt follows every
  connection; it says nothing of its outcome.
* PoweredDown (Readings, `readings.cfg`): a reading that fails between `regulator_enable` and
  `regulator_disable` leaves the sensor powered, and the regulator's count one too high,
  for good (`sensor.c:49`; `Kconfig:110`, "will power down the external sensor port when it is
  not in use").

More disagreements and limits that the models show:

* `failed_messages` is not reset by a success, so rare failures add up to a rejoin
  (`main.c:258`, "No successful messages after a period of time").
* With `CONFIG_APP_LORA_CONFIRMED_PACKET_AFTER=0`, which `Kconfig:21-28` allows, only start-up
  messages are confirmed; without a gateway every later `lorawan_send` succeeds and main stays
  joined for ever. DeadLinkLeft is about builds that send confirmed packets.
* A request of the uptime that arrives between the uplink that answers an earlier one, its receive
  window included, and the clearing of the flag (`main.c:180`) is cleared with it and
  lost. RequestKept and UptimeAnswered are about every other request: `request` is "late" for this one.
* `lora_send_message` may fail with its packet received: the gateway heard it and the
  acknowledgement was lost. The retry is then a duplicate (`lora.c:174`).
* `bluetooth_remote` tests `in_connection` and then uses `active_conn` (`bluetooth.c:285-286`). If the
  connection ends in between, `bt_conn_disconnect` is given NULL, and what the stack makes of that is
  not in this repository (the model takes an error). ConnectionKnown says that this is the only way to it; `bluetooth_clear_bonds`
  (`bluetooth.c:462-463`) has the same two steps.
* The last fragment of a response is as long as the frame or the whole message
  allows, not as what is left (`smp_lora.c:86`), so it carries bytes beyond the message.
* A user whose `hfclk_enable` failed lowers the count of another one with its
  `hfclk_disable` and stops the clock under it: the contract is void after a start that
  failed, and FrameHasClock has the same premise, so no property sees it.
* A door output whose GPIO call failed stays active (`garage.c:84`): the thread exits and no watchdog
  resets the device. DoorReleased therefore ends with the thread.
* A set from the shell during the loads at boot may be overwritten in RAM by the old value
  and then saved as that, and still reports success; two overlapping sets may store a
  mix: PromiseKept excludes overlaps.
* Two overlapping calls of `lora_send_message` can undo each other's store, so more
  unconfirmed packets go in a row than configured: SerialCadence excludes overlaps, CountInRange does not.
* The timer's interrupt between the test and the submission in `do_advert`
  (`bluetooth.c:98`) lets the stop work run before the advertising work, and the device
  goes on advertising after its window.
* Without `~overlapped` BondLimit does not hold: a pairing that ends, or a second thread that
  counts, while another thread is between clearing, counting and starting leaves a count
  that is not the table's, and `auth_pairing_accept` compares with it (`bluetooth.c:328`). While
  nothing overlaps, the filter on the accept list alone keeps the limit.
* `dht_sample_fetch` returns what `counter_stop` returns, whatever failed before
  (`dht.c:176`), so ReadingExact speaks of the last frame kept and not of this fetch.

### Bounds

* *ir_frame*: four users, the number the code has, and all four commands in full. Deadlock is
  checked. No bound.
* *uplink_shared*: the two threads that call the function; three attempts (SEND_ATTEMPTS)
  so that first, middle and last differ; After = 3 so that the counter has values that
  are neither limit. `since` stops counting one above After.
* *main_loop*: FailLimit = 2, so failures on both sides of the limit and two in one round
  occur; two join attempts; After = 2, so that two packets in a row need no gateway; one reading
  time that is accepted and one that is refused. No other bound: resets, downlinks and link changes
  are unlimited. 169,764 states.
* *main_downlink*: the smallest instance that reaches the case.
* *smp_exchange*: responses of 1, 4 and 5 units in frames of 2 or 3 (a part, one
  fragment with a rest, three fragments) and 0 (the frame is full of MAC answers); requests
  of up to four packets. MaxPartials bounds the packets that leave a request incomplete
  over the whole run, the only unbounded history. The application's uplinks are unlimited.
  *smp_polls* is the same instance.
* *garage_door*: three requests and two presses since a boot: one in the pulse, one in
  the semaphore, one merged; a second press while the handler runs. Reboots are
  unlimited and start the counts again.
* *settings_store*: one key of each kind: set by the shell, by shell and downlink, and the
  name. Three sets are two that overlap and one before or after; names of length 1 and
  2 fit, 3 does not. Resets, loads and failures are unlimited. MaxSets is the only bound.
* *bt_window*: three prompts: window, its renewal or stop, and one during the connection.
  Deadlock is not checked because the prompts run out. MaxPrompts is the only bound.
* *bt_bonds*: three peers for a table of two (garage.conf has one, which is never partly
  filled), so a peer can be refused while another comes back. Pairings, clearings, connections and resets are unlimited; no bound.
  367,811 states.
* *readings*: two channels, buffers of exactly the size a read needs and one short of it, one
  sampling and three, each error of set-up and read; converter values 0, 1 and 1023; offsets
  default, negative and positive. MaxFailures = 3 bounds the only unbounded count. Main may
  stop after `sensor_setup` failed, so deadlock is not checked.
* *dht_fetch*: bytes of three bits, so that a frame has 15; the set of pulses has one duration of a
  zero and two of a one, so that the threshold may be exactly the shorter one; four pairs of quantities
  use both signs and both bytes. MaxNoise = 1: a single
  wrong bit is always caught by the checksum, two need not be. Fetches are unlimited. 1.75 million
  states, most of them patterns of pulses.

### Fairness

* *uplink_shared*: each thread inside the function goes on; the sleep and `lorawan_send`
  return, acknowledged or not. No fairness makes a send succeed: CallReturns holds if all fail.
* *main_loop*: main and the callback go on (WF). LinkFairness (SF on a successful set-up,
  join, start-up and uptime) says that a network in reach does not refuse for ever; it
  is needed by UptimeAnswered only, whose premise is that the gateway stays in reach.
  DeadLinkLeft's premise, a gateway out of reach for good and no callback stuck in its reply, disables
  the joins and start-ups; what it rests on is that some packet is confirmed and then fails.
* *smp_exchange*: the uplink thread and the work queue go on; SF on a fragment of more
  than no bytes says that MAC answers do not fill every frame for ever. With a frame that
  stays full the loop would send empty fragments for ever: `pos` does not move.
  Nothing says that a send succeeds or that main sends.
* *garage_door*: the door thread alone, whose sleeps end. The button, the callbacks and a reboot are
  not fair.
* *settings_store*: a thread in a handler and a load that was begun go on. Weak fairness is
  enough for the lock because the sets of others run out; Zephyr's mutex hands itself
  to a waiting thread. Nothing says that flash can be written.
* *bt_window*: timer, work queue and callbacks go on and the stack recycles a dead
  connection; SpecPeersLeave adds that a peer leaves some day, without which the LED
  rightly stays on.
* *bt_bonds*: the threads, the work queue and the callbacks go on, and the stack ends a connection it was
  told to end and recycles it. Peers need not come, pair or leave.
* *ir_frame, smp_polls, readings, dht_fetch*: safety only.

## 5. Proofs

Each proof holds for every value of the constants that the named assumptions allow and,
where a model has bounds, for every bound.

**HfclkProofs** (any finite number of users below 255). `ClockMatchesCount` says nothing
while someone is inside, so it is not inductive. IInv adds which thread is inside
(SemaphoreHeld), what the clock is at each step inside (ClockInv) and CountBounded,
without which the uint8_t could wrap to 0 under a running clock; that needs the
cardinality of the counted users. For the properties that depend on failures two bounds
are added: the count is at least the counted users until a start fails (Lower) and at
most until a stop fails (Upper). GrantedClock needs only the first, IdleStopped only the
second, and ImplementsContract maps every step to one of the contract. IrLedIsUser shows that IrLed's behaviours
are behaviours of Hfclk, so what is proved there holds here, and FrameClock follows from it
with the interrupt lock (Sending). FrameSent needs FrameInv: so far `8q + t` bits have been
sent, each the command's bit at its place, and `check` is the q-th byte with t bits shifted
out modulo 256 (the uint8_t). ShiftedBit says that the bit then tested is the t-th from the top, and
CommandBytes that the four commands are eleven bytes each, which is all that the proof uses of
them. Other users change the clock and nothing of the frame.

**UplinkProofs**, on LoraUplink (any senders, attempts and limit). CounterInRange: what is loaded was
in range, so what is stored is. CallsAgree: where a call is says how many of its packets were
accepted and, with the attempts left, how many went unheard at most; OneHeardPerCall is the outer part.
KeepsPromise maps the steps to those of UplinkContract: a refused attempt with more
to come, the choice and the load of the counter are stutters, an accepted packet is Deliver (with the
return when there is no counter), a confirmed one that nobody acknowledged is Lose (with the error when it
was the last attempt), a last refusal is Fail, the store is Succeed. Lose needs to know
that only a caller that may confirm has chosen to, and that packets and attempts left stay within the
attempts. CadenceWhenSerial: while calls do not overlap at most one thread is inside
(OneInside), what it chose unconfirmed was chosen below the limit and is counted before
the next choice (Counting), and between calls `since` is at most the counter (Settled).

On SmpLora (any sizes of responses and frames, any length of a request, any bound on partial
packets, uplinks of the application at any time). SmpTyping needs no premise; it rests on lemmas about
the list (PutKeeps, RestKeeps: what is put in or taken out of a list leaves a list, whatever its links
were). BufferIsOwned, PollsAreAskedFor and ReleasesAreWhole say what holds until `empty_message` is
put into the fifo while it is in it (`relinked`), after which they do not (section 4); the step
that relinks is excluded by no assumption. Until then (SmpInv) the fifo is empty, a
poll, a response, or a poll with the response behind it, and nothing is in it while the thread waits
(FifoInv); a response is in it, or in the thread's hands, only while `smp_lora_uplink` waits and
was not given the semaphore (OwnInv, HandInv, which also has its length); the polls taken and the one in the
fifo are at most the partial packets (PollInv); and a request the work queue has lacks nothing
(RequestInv), so that no poll comes behind its response.

**AppMainProofs** (any limits, join attempts and reading times). FailInv says how far the
count may be at each point of the loop, SessionInv that the two flags of the session
are never apart and that joining takes keys, ClockInv in which span of the program each
thread holds the clock, and RequestKept that an open request is in the flags. The theorems are
consequences. Typing is put together from the same parts.

**GarageProofs** (any number of requests and presses). Each part says
what is still owed: a pulse taken but not begun, a handler queued or running; Doors is where
the output may be active. NeverArmed is about WatchdogSpec, the watchdog with main's boot: the hardware
counter never runs and no feed is ever allowed.

**SettingsProofs** (any keys, bytes, size of names and number of sets). PromiseKept is not
inductive: a load rewrites flash from RAM. PromiseInv adds that nobody sets a promised key
and that a load of it carries the promised value; OwnInv that whoever is alone on a key
finds in RAM what it has copied so far, so that what it saves is what it was given;
JobInv that a writer holds the lock. HandlerMoves and HandlerEnds are the two shapes of
a handler's step, to which the actions are reduced. RamIsStored needs CurrentInv beside
them: a writer whom nobody has joined on its key holds the byte that is in RAM, and where
nobody is on a key the two agree unless the key's last access failed, or the boot still has the
entry to load (Waits).

**BtOnDemandProofs** (any number of prompts). QueueInv says that no item is queued twice,
which bounds the queue; ConnectionInv has what holds between the two assignments of a
callback and between the test and the use of the connection, of which ConnectionKnown is the outer part; WindowTimed is inductive with them.

**BtBondsProofs** (any finite set of peers, any table). CountInv says, while nothing ever
overlapped, that at most one thread is at work and what its count is at each step, that
open advertising and a connected peer without a bond find room in the table, and that the accept
list in force holds bonded peers only; LinkInv what the connection
object allows, LevelInv that level 4 takes a bond or a connection that is ending. BondLimit
and DoorForBonded follow.

**DriverProofs**, on Dht (any width of a byte, any quantities, any two ranges of durations with
DurationsApart). The threshold is the average of two pulses of the frame between which
all others lie (ThresholdInv); AverageParts shows that it tells the kinds when one pulse of
each is there. LineReleased is part of the invariant. ChannelsInvert is about the
conversions alone: the humidity and the signed temperature that `dht_channel_get` makes of
a frame's bytes are those the sensor made the bytes of, for every sign and magnitude a frame can hold.

ReadingsAreExact puts these together, for at most one disturbed pulse in a frame. NoiseInv: a pulse is
of the kind of its bit unless it is among the disturbed. FramesMixed leaves a pulse of each kind even
then (OnePulse), so the threshold tells every bit but that one (BitsTold, DecodedRight). The
induction over the bits is the loop's own: DecodeInv says of each byte that it is
the sensor's byte without the bits that are still to come if, and only if, none of the pulses stored in
it so far was disturbed (Holds, Stored, Undisturbed); a turn of the loop adds one bit (BitStored, on NextBit and ShiftedIn,
the arithmetic of shifting in modulo 2^Width). At the checksum at most one byte is
wrong, and then the sum is (OneByteWrong, OneByteCaught): what is kept is what the sensor sent
(KeptInv), and ChannelsInvert ends the argument. MaxNoise <= 1 is necessary: two wrong bits can agree
with the checksum. PowersAssumption says what powers of two are; that is arithmetic and not a
condition on the code. TLC evaluates it, the provers do not know powers.

On AdcNrfx and Readings (any channels, converter values, requests, offsets and number of rounds).
SamplesInPlace is inductive only with PointerInv, which says while a sampling is under way where
the buffer pointer is (index times the number of channels), that the index is at most the
extra samplings asked for and that the buffer passed the check, and with WaitInv, that a thread
waits for the sampling, so that no other read is started in it. PlaceFits and PlaceAmong are the
arithmetic and the counting behind it: the i-th sampling's place for a channel lies in the buffer that
the check computed, and a channel comes after fewer channels than there are. RoundsUseTheDriver
reduces every step of a round to one of the driver or none, so AdcInv holds there. BalanceInv says
that the regulator has a user while the sensor is read, StepsInv which readings of this round
are behind each point of it; ReportFresh is the outer part.

The type invariants, but for that of SmpLora, are proved and not repeated in the runs, as are
CountBounded, IdleClockStopped, GrantedHasClock, IntervalInRange, OneHeardPerCall and ActiveOnlyInPulse.

Only model-checked: liveness (DeadLinkLeft, UptimeAnswered, CallReturns, ResponseReturns,
HandlersReturn, DoorReleased, RequestAnswered, LedGoesOff, TriesToAdvertise),
because the prover has no fairness or ENABLED. Every invariant and every other action property or
refinement of the passing runs is a theorem. The properties of the two violated runs do not
hold and have none.

## 6. What is not modelled

* LEDs (`leds.c`), board set-up, build configuration: GPIO and register writes and options,
  without state of their own that anything else reads.
* The shell's parsing and printing; several of its handlers are stubs. What it sets and
  clears is in Settings.
* The SMP builds without reassembly, polling or fragments, `get_mtu` and registration.
* Bluetooth: the passkey and how it is shown, the advertised name, and the build with both
  `BT_SMP` and advertising on demand, which no configuration of the repository has.
* The DHT11's scaling, the ADC's asynchronous read, the length of an infrared pulse.
* Settings: the get and export handlers, which copy RAM; what the flash translation layer
  makes of a partition erased under it (`CallbackClear` of AppMain).
* What the downlink handlers of IR, settings, garage and Bluetooth do is one step in
  AppMain that changes none of its state; each has its own module.
* Time: sleeps are steps. (With a watchdog of 600 s that ran, and reading times of up to
  7200 s, a healthy device would be reset.)
* The stack below `lorawan_send`, the Bluetooth controller, the SMP server, the converter's and
  the timer's hardware and the hardware watchdog are external, as their callers use them.
