# A TLA+ development of zmk-ble-mouse

`zmk-ble-mouse` is a ZMK module that lets the central half of a keyboard own a Bluetooth LE mouse:
it scans, pairs (Legacy pairing, in a window opened by a key), discovers the HID service, subscribes
to the input reports, decodes them, and hands buttons and motion to ZMK's input subsystem, which
forwards them to whatever endpoint (USB or a BLE host) is selected. This directory holds TLA+ models
of that code, TLC configurations that check them on small instances, and theorems about them checked
by TLAPS. `PROJECT.json` maps every definition to the lines it translates and lists the runs,
hazards, findings and theorems.

1. [Inventory](#1-inventory)
2. [Modules, and how they correspond to the code](#2-modules-and-how-they-correspond-to-the-code)
3. [Execution model and assumptions](#3-execution-model-and-assumptions)
4. [Runs: bounds, and what they show](#4-runs-bounds-and-what-they-show)
5. [Fairness](#5-fairness)
6. [What is proved](#6-what-is-proved)
7. [Findings](#7-findings)
8. [Not modelled, or only model-checked](#8-not-modelled-or-only-model-checked)
9. [Plan](#9-plan)

## 1. Inventory

| component (`src/src/`) | state | operations | what makes it correct |
|---|---|---|---|
| Mouse output, `mouse_output.c` | message queue `mouse_inputs`, `stream_epoch`, `physical_buttons`, `reset_pending`, `reset_buttons`, the worker's button state | receive a report, reset on an endpoint change, reset on disconnection, drain the queue | no stuck or missing button, no report of an old stream applied, motion adds up |
| Button state, `button_state.c` | forwarded and suppressed masks | update (edges), reset | what is held across a reset stays hidden until released |
| Mouse client, `ble_mouse.c` | `stage`, `failure`, `mouse_conn`, `peer`, pairing window, candidate, Clear request, GATT session, connection event; timers; eight advertisers | Pair, Clear, connect, secure, discover, subscribe, register, disconnect, retry | bonds and the registration change only as asked; every attempt ends; the client never sleeps while it should look; references balance |
| Central scan, `central_scan.c` | work queue, `scan_owned`, `connecting`, `split_settling`, `pending_address` | schedule scans around the split transport, hand an address to the client | the mouse never starves the keyboard's halves, no scan or address is lost |
| HID parser, `hid_parser.c` | parser state on the stack, the parsed report map | parse a report map, decode a report | decoded values equal the descriptor's meaning; saturation; bounds |
| Pairing admission, `auth_guard.c` | the wrapped authentication callbacks | register, replace, decide on Just Works | only the candidate in its window may pair without a passkey |
| SC requirement, `smp_guard.c` | none | one test before the real function | hosts still need Secure Connections |
| Bond records, `bond_compat.c` | a settings record in flash | load and save across firmware versions | a bond is never read as stronger than it was made |
| Split battery guard, `split_battery_guard.c` | none | a bounds check before the real event handler | the disconnection of a device that is no keyboard half does not index the battery array |
| Behavior, `behavior_ble_mouse.c` | none | key press to Pair, hold to Clear | each key reaches its operation; a short Clear is taken back |

How they interact:

- The client and the output are work items of the one preemptible thread `BLE mouse`, whose queue
  belongs to `central_scan.c`. Everything else calls them from cooperative threads: the Bluetooth
  receive thread (connection, security, GATT and notification callbacks), the system work queue
  (endpoint changes, timers) and key presses. State is shared through globals, in part under
  `input_state_lock` (the output) and in part only by the scheduling rule (the client).
- `notify_cb` decodes a report and calls `zmk_mouse_output_receive` while the client is READY;
  `disconnected_work_cb` and `forget_peer` call `zmk_mouse_output_disconnect`.
- An advertisement goes from `central_scan.c` to `zmk_ble_mouse_advertisement`, which hands an
  address back by `zmk_ble_central_connect`; `connect_work_cb` then calls `connect_mouse`.
- `auth_guard.c` asks `zmk_ble_mouse_legacy_pairing_allowed`, which reads the client's state in the
  receive thread.
- Flash keeps two things separately: the bonds (written by Zephyr when a pairing completes) and
  `ble_mouse/peer` (written by `finish_ready`, deleted by `forget_peer`).

What is hard: handlers of the worker are preempted by callbacks between a check and the assignment
that depends on it; the host answers a cancelled attempt in three different ways; four timers race
with the events they guard against; two pieces of flash are written at different times; the queue of
reports overflows; a reset must not lose the release of a button nor let a stale press through; the
radio has one explicit scan for two owners, and a callback that gives it up waits for the controller
while the worker runs; the layout of a report is put together from items in any order and nesting;
bond records pass between two firmwares that disagree on their length. The hazards are listed with
their lines in `PROJECT.json`.

## 2. Modules, and how they correspond to the code

| module | role |
|---|---|
| `ButtonState` | `button_state.c`: masks as sets of buttons, the two operations as operators |
| `MouseStream` | abstract specification: what the output promises about buttons, with no queue, epoch or thread |
| `MouseOutput` | `mouse_output.c`, its callers and its worker; refines `MouseStream` |
| `MouseOutputMC` | constants for TLC |
| `MouseOutputProofs` | lemmas and theorems about `MouseOutput` |
| `MouseClient` | `ble_mouse.c`, with the host, the worker queue and flash as far as it uses them |
| `MouseClientMC` | scenarios for TLC: devices, GATT databases, faults, budgets |
| `MouseClientAccounts` | the invariant of the client's connections, the lemmas about the work queue, and the worker's steps |
| `MouseClientProofs` | the rest of that invariant, and the theorems about `MouseClient` and `Receiver` |
| `MouseSession` | abstract specification: the contract between the client and the output |
| `Receiver`, `ReceiverMC` | `MouseClient` with its calls into the output recorded; refines `MouseSession` |
| `CentralScan`, `CentralScanMC` | `central_scan.c` with the split transport and the host's scanner |
| `CentralScanProofs` | theorems about `CentralScan` |
| `Advertisers`, `AdvertisersMC` | the advertiser table of `zmk_ble_mouse_advertisement` |
| `AdvertisersProofs` | theorems about `Advertisers`, and the arithmetic of the clock |
| `HidBits` | fixed-width arithmetic of `hid_parser.c` |
| `HidParser`, `HidParserMC` | `mouse_hid_parse`: a report map, item by item, into a layout |
| `HidReports`, `HidReportsMC` | `mouse_hid_decode` and `notify_cb` on top of that layout |
| `HidProofs` | theorems about `HidParser` and `HidReports`, and about binary arithmetic |
| `AuthGuard`, `AuthGuardProofs` | `auth_guard.c`, with the host latching a table per connection; theorems |
| `BondRecords`, `BondRecordsMC` | `bond_compat.c`, the previous firmware, and restarts |
| `BondRecordsProofs` | theorems about `BondRecords` |

**MouseOutput.** The variables under `input_state_lock` have the code's names. `buttons` is the
worker's static button state; `pc`, `input`, `rest`, `packet` and `sent` are the position and the
locals of `output_work_cb` and `send_frame`: `rest` is what is left of the motion, `packet` is what
`send_packet` still has to report, one key per step, as each report may block. `ApplyPendingReset`
occurs three times because the code calls it three times (before the queue is read, after a report
is taken, and at the end). The locked section of each function is one step. `listener` counts
presses minus releases seen by the input subsystem; `stale` and `moved` are history variables no
action reads. `Receive`, `EndpointChanged` and `Disconnect` are the module's three entry points, and
`StartQueue`, `LinkReady`, `LinkLost` say when its callers call them; what the client does in those
is not written here but taken from `MouseSession`.

**MouseClient.** `stage`, `failure`, `mouse_conn`, `pairing` and so on are the globals; `have_peer`
is `peer # None`. `work_queue` and `timers` are the work queue and the armed delayable items; an
item sits at most once in the queue, may be queued again while it runs, and
`k_work_cancel_delayable` also takes it from the queue. `pc` tells where a split handler is:

| handler | steps |
|---|---|
| `connect_work_cb`, `connect_mouse` | `ConnectHandler`, `AutoConnect`, `Lookup` |
| `connected_work_cb` | `ConnectedHandler`, `EventTaken`, `Completed`, `Secure`, `RequestSecurity`, `Secured` |
| `discovery_work_cb`, `finish_ready` | `DiscoveryHandler`, one of `DiscoverList`, `DiscoverReferences`, `DiscoverProtocol`, `DiscoverSubscriptions`, then `FinishReady`, `SavePeer`, `BecomeReady` |
| `disconnected_work_cb` | `DisconnectedHandler`, `Teardown`, `Release`, and `forget_peer`: `Forget`, `Delete` |
| `failure_work_cb` | `FailureHandler`, and `Teardown` when the host says -ENOTCONN |
| `clear_work_cb` | `ClearHandler`, and `Forget`, `Delete` |
| `retry_work_cb`, `timeout_work_cb`, `pair_timeout_cb`, `pair_work_cb` | one step each |

A handler is split where it reads or writes what a callback writes or reads, and at calls into the
host or into flash; in between, nobody can tell. The host is `link`, `security`, `auto_connect`,
`gatt` and the references held to each connection object: `LinkUp`, `LinkRefused`, `LinkLost`, the
security and pairing steps and the GATT answers each contain the client's callback. `PowerLoss`
clears all but flash (`bonds`, `saved_peer`); `Start` is the boot. Addresses stand for devices and
their connections; error codes are a truth value; a GATT database is a record of what discovery
finds (`map`: none, bad, good; a list of reports with the four facts the client asks of each: has a
reference, useful, has a CCC, what it covers; how the protocol is selected). `Pressed` and
`Released` are the behavior's two callbacks. `scenario` is fixed in the initial state: the devices,
the calls that may fail and the bounds on key presses and power losses.

**MouseSession and Receiver.** `MouseSession` has three states: down, up (reports are handed over),
closing (no more reports, `zmk_mouse_output_disconnect` is owed). `MouseOutput` uses its actions as
its environment, so nothing is assumed of the client but this. `Receiver` adds one history variable
to `MouseClient`, whether reports were accepted since the last disconnect call, and maps the state
of the client to a session: `Accepts` is `notify_cb`'s condition, `DisconnectCalled` the places of
the call. That the client implements the contract, fairness included, is `ImplementsSession`.

**CentralScan.** The atomics have the code's names; `queue` and `delayed` hold `scan_work`,
`settle_work` and `connect_work`. The worker's steps are cut at each atomic operation and call of
the host: `ScanWork`, `ScanDecide`, `ScanOwned`, `ScanStart`, `ScanStarted`, `ScanRecheck` are
`scan_work_cb`; `StopTake` and `StopScan` are `stop_own_scan`, with `next` for what its caller does
after; `ConnectWork`, `Connect`, `ConnectRelease` are `connect_work_cb`. `connection_changed` is one
step when there is nothing to stop; otherwise it waits inside `bt_le_scan_stop`
(`ConnectionChangedStops`, `ConnectionChangedRest`) and the worker may run. The split transport's
own callback follows it in the same step, in the order Zephyr calls them. `scanner` is whose
explicit scan the host runs. The client is `ClientWants`, `ClientStops`, `ClientFailsToForget` and
`Advertisement`: the calls `ble_mouse.c` makes, at any time.

**Advertisers.** Each entry is an address, the time it was seen and the facts known
(connectable, named M720). `time` never wraps, `now` is what the code sees of it. `runs` records
independently of the table what each advertiser said without a gap of the two-second window.

**HidParser, HidReports.** An item is an action with its value and width; the parser's stack, local
state and collections have the code's names. Reports are a function from ids, fields a set.
`opened`, `named` and `inputs` record, independently of the parser's bookkeeping, the open
collections, the usages given since the last main item, and what each Input item described: its
room, from the end of the item before it, and the meanings of its usages, which are the fields it
must have if it is `Exact` (a cell for each usage). A payload is a sequence
of bytes; the reference reads it as one number. `ByteBits` and `WordBits` are 8 and 32 in the code,
smaller in the runs.

**AuthGuard.** `Register`, `Install`, `InstallFails`, `Fallback` are the calls inside one
registration, between which the host may pair; the host may also refuse to give up the first table
(`Register` with nothing removed). A connection latches the host's table at its first pairing and
keeps it. `early` records the connections that did so inside a registration, `decided` the last
answer given to a pairing, a request without `feat` included.

**BondRecords.** A record is its length, its content, its key and what its last bytes hold (zero,
padding, a Legacy key). `Load` is `__wrap_settings_call_set_handler` in this firmware and the plain
`keys_set` in the previous one; `Saved` is `__wrap_settings_save_one`. `Boot` restarts in either
firmware at any time, also between two records.

In all modules the definitions named `Mut...` are slips the code might have had. Each property has
one that breaks it when it takes the place of the definition it names: a property that no slip
breaks would say nothing about the code.

## 3. Execution model and assumptions

- Bluetooth callbacks, system work and key presses run in cooperative threads and the worker in a
  preemptible one of priority 5 (`k_work_queue_start` in `zmk_ble_central_scan_init`). A cooperative
  callback that does not block is therefore one atomic step, and may fall between any two steps of
  the worker; the worker never interrupts a callback.
- `bt_conn_disconnect` first turns auto-connect off; a connection that was only waited for then
  answers -ENOTCONN (Zephyr 3.5, `bt_le_set_auto_conn(conn, NULL)`), one that is being initiated is
  cancelled, one that is up is disconnected. All three are choices of `FailureHandler`.
- `KeepsUp`: handlers queued by one connection event run before the host initiates or completes the
  next connection, which takes at least an advertising interval. Without it a second `connected_cb`
  overwrites `connected_event_conn` and its reference is lost (a hazard in the list).
- `PairingCompletes` does not happen between `bt_le_set_auto_conn` and the lookup right after it:
  pairing takes several connection events.
- A lost link is one step with its last GATT answers and `disconnected_cb`, in either order: they
  run in cooperative threads without the worker in between.
- A mouse pairs by Legacy Just Works only, which `legacy_pairing_allowed` admits or not.
- A bond and `ble_mouse/peer` reach flash when the call that writes them returns.
- `stream_epoch` has no upper bound in the proofs. In the code it wraps after 2^32 resets; a report
  would have to stay in the worker all that time to be mistaken for a current one.
- The client and the output share a worker: in `MouseOutput` a session opens, and
  `zmk_mouse_output_disconnect` is called, only between two runs of `output_work_cb`. The rest of
  what the output assumes is `MouseSession`, which `Receiver` shows the client implements.
- `connection_changed` runs before the split transport's callback (Zephyr 3.5 calls dynamically
  registered callbacks in reverse order), and the split transport scans whenever a half is missing
  and the host lets it. A scan start is refused while any explicit scan runs; a stop ends whichever
  scan there is.
- SMP latches the authentication table of a connection at its first pairing, as the comment in
  `auth_guard.c` says. A connection first paired on between the two calls of a registration latches
  no table and is never asked about. ZMK registers its table before it can be connected to;
  `LegacyOnlySelected` says that these connections (`early`) are the only way past the guard.
- The previous firmware deletes a record of a length it does not expect (`keys_set`), which is why a
  Legacy bond does not survive it.

## 4. Runs: bounds, and what they show

The runs of the output and the client set `CHECK_DEADLOCK FALSE`: the budgets of resets and key
presses end, and a client with no mouse to find is idle for ever. All others check deadlock.

| run | instance | shows |
|---|---|---|
| `output` | 1 button, queue of 2, 3 resets of any origin, motions that need 1, 2, and more packets than allowed (3), two axes with opposite signs | no interleaving of reports, overflow, OUT change and disconnection with the worker loses, repeats or resurrects a button or part of a motion: `NoStuckButton`, `HeldStaySuppressed`, `WholeReport`, `StaysReleased`, and the invariant `OutputInv` of the proofs (`ListenerMatches`, `MotionAccounted`, `ResetPrecedesFrames`, `QueueIsCurrent` and what they rest on); refinement `ImplementsStream` and its liveness `ResetHonoured`, and `ReleasedAfterLoss` |
| `client_safety` | four scenarios, below | `NoOrphanBond`, `OnlyOwnBondsRemoved`, `RegistrationInWindow`, `ClearForgets`, `ReadyMeansUsable`, `AttemptIsWatched`, `KeepsLooking`; `ClientInv`: types, `ReferencesBalanced`, `NoStrayLink` |
| `client_live` | 1 mouse, new or saved; connection, security, GATT and flash fail any number of times; one Pair | `AttemptEnds`, `WindowCloses`, `Rearms` |
| `receiver_session` | 1 mouse, new or saved; GATT and flash fail any number of times; one Pair, one Clear | `ImplementsSession`: every session the client opens is ended once, before the next, and the call always comes; `ClearEnds` |
| `client_stale` | 1 mouse, one Pair, one Clear, one power loss, no faults | `ClearRemovesMouseBond` is violated: see section 7 |
| `scan` | 2 halves, 2 addresses; nothing fails, `bt_unpair` may fail, or `bt_le_scan_stop` as well | `ScanInv`: types, `OwnershipIsTrue`, `SettlingIsTimed`, `ConnectingEnds`, `ScanComes`, `ScanEnds`; `OnlyOwnScanStopped`, `AddressKept`; `YieldsToSplit`: outside three named races the split transport gets its scan when a half is lost; `SplitServed`: in every race the mouse's scan ends and makes room; `MouseServed` |
| `scan_race` | 2 halves, 1 address, no faults | `YieldsBeforeSplit` is violated: see section 7 |
| `advertisers` | 3 advertisers, 2 entries, window 2, the clock of 16 just started or about to end | `TableInv`: types, `OneLiveEntry`; `AskedIsMouse`, and before the clock ends `MouseIsFound` |
| `parser` | four scenarios, below | `LayoutInv`: types and table limits, `LayoutSound`, `LayoutMatches`, `SummaryAgrees`; `MouseFieldsOnly`, `UsagesFound` |
| `reports` | two scenarios, below | `DecodeInv`: frames fit a word, `MotionDecoded`; `PhysicalIsTrue` |
| `auth_guard` | 2 connections, 2 application tables, each call of a registration may fail | `GuardInv`: types, `AlwaysGuarded`; `LegacyOnlySelected`, `PolicyImmutable` |
| `bonds` | 2 peers, 2 secrets, both firmwares, restarts at any point | `BondsInv`: types, `ScBondSurvives`, `LegacyBondWhole`, `NoInventedKey`; `RecordsPreserved` |

An invariant that relates the same variables in several ways is checked as the conjunction of its
named parts (`OutputInv`, `ClientInv`, `ScanInv`, ...).

A *scenario* is a choice made in the initial state and kept (the variables `scenario`, `faults`,
`start`): which devices there are, which calls may fail, which items a map is made of. One run looks
at several, each rich in one respect, where all of it together is out of reach.

- `client_safety`: *Slots*, two symmetric mice and another device for two bond slots, one Pair and
  one Clear, flash may fail; *Setup*, one mouse, new or saved, with any of seven databases and six
  kinds of failing calls; *AllFaults*, one mouse, new or saved, all eight kinds of fault, one Pair,
  one Clear, one power loss; *Clearing*, a saved mouse, no faults, two Clears and one power loss, also
  in the middle of a Clear.
- `parser`: *Layout*, two reports of up to seven bits, cells of two bits, counts 1 and 2; *Saved*,
  Push and Pop between the items of two reports, and a third that finds no room; *Nested*,
  application and physical collections up to three deep, pages 1 and 9, a page and an id out of
  range; *Ranges*, lists and ranges of usages.
- `reports`: *Motion*, payloads of up to two bytes of two bits, up to four fields of one or two bits,
  the last of them signed, or all, or none, words of two bits; *Pressing*, two characteristics and
  two reports with the same button.

Why the bounds are enough. A button's history is independent of the other buttons'; that several
share a packet makes no difference is part of what the theorems of section 6 say, which hold for
every set of buttons, queue size and packet bound. A queue of two has an oldest and a newest report,
and overflows after the second; two resets let one fall on the other at every place of the worker
(before the first check, while a report is held, between packets), and the third follows a full
cycle. The packet bound of 3 (32 in the code) is exceeded by a delta of 4 on an axis limited to 1.
For the client two mice are enough to have one registered, or being paired, and one competing for
its place; two slots are filled by any two of the three devices. The number of link losses, retries,
timer expiries and faults is not bounded: only Pair, Clear and power losses are (`budget`), and one
Clear can fall on each place of an attempt. Two reports per database let the discovery skip, read,
and subscribe one before another, and three exceed `MaxCharacteristics`.

For the scan, one half lost while another joins needs two; a second address is there to replace the
first. Links change, delays expire and calls fail without a bound. The advertiser table is smaller
than the number of advertisers, so that entries are given away, and the time looked at is longer
than the window. Every map of a scenario's items is explored until a table is full, since each Input
item takes room in one. In `reports`
words of two bits have the cases of 32: a signed field narrower than a word and one as wide, a field
inside a byte and one that straddles two, an unsigned value too large for a word, and sums beyond
either limit (three fields of 2, 1 and 1 bits make -3, below the least word). A bond's record depends on no other, but
restarts fall between two, so two peers; two secrets tell an old bond from a new one.

Faults a property excludes are named in it or left out of its scenario, where their effect is known:
after a failed `bt_conn_disconnect` on a live link the client waits in CLOSING for the link to end
by itself, and a failed `bt_unpair` in `forget_peer` drops the Clear; both are in *AllFaults* only.
A `bt_le_set_auto_conn` that fails for ever is no way to be connected again, and is left out of
`client_live`. `ScanEnds` is about a run with no
fault, `YieldsToSplit` and `SplitServed` about one in which `bt_le_scan_stop` works.

## 5. Fairness

`MouseOutput`: weak fairness of the worker (the thread is scheduled, the input subsystem takes its
events sooner or later) and of the disconnection that is queued behind it. Nothing is assumed of the
mouse or of endpoint changes.

`MouseClient`: weak fairness of the worker, of the boot, of each armed timer, and of the host
completing a disconnection or a cancellation it accepted, which the controller's supervision timeout
guarantees. The mouse may stop answering at any stage: that attempts end anyway is what the setup
timeout is for. `receiver_session` uses the same fairness.

`CentralScan`: weak fairness of the worker, of the two delays, and of the controller's answer to a
scan stop a callback waits for. Nothing is assumed of the split transport, which may stop and start
its scan, nor of the links.

## 6. What is proved

Eight modules hold theorems, all for every value of the constants that the named assumption of the
component's module allows. `SafeSpec` is the specification without its fairness. Every invariant
below is inductive, or follows from one that is; the inductive ones were found with TLC on the
instances of section 4 (the parser's consists of the properties of its run and of types).

| component | theorem | statement |
|---|---|---|
| output, `MouseOutputProofs` | `OutputInvariant` | `[]OutputInv`, with the bounds of the queue and of a report's packets |
| | `FramesFollowReset` | `[]ResetPrecedesFrames` |
| | `QueueStaysCurrent` | `[]QueueIsCurrent` |
| | `SuppressionHolds` | `[]HeldStaySuppressed` |
| | `ListenerBalanced` | `[]ListenerMatches` |
| | `NoButtonStuck` | `[]NoStuckButton` |
| | `MotionAddsUp` | `[]MotionAccounted` |
| | `ReportsComplete` | `WholeReport`, an action property: no report is cut short while its stream lasts, nor goes on after it ended |
| | `NoPressAfterLoss` | `StaysReleased`, an action property |
| | `OutputImplementsStream` | `SafeSpec => Stream!SafeSpec`: the refinement |
| client, `MouseClientProofs` | `ConnectionsAccounted` | `[]ClientInv`: types, `ReferencesBalanced`, `NoStrayLink` |
| | `ReadyIsUsable` | `[]ReadyMeansUsable` |
| | `RegisteredInWindow` | `RegistrationInWindow`, an action property |
| | `BondsAreSafe` | `OnlyOwnBondsRemoved`, an action property |
| | `ClearIsDone` | `ClearForgets`, an action property: bond and registration are gone, from flash too if settings cannot fail |
| | `NoBondIsOrphaned` | `[]NoOrphanBond` |
| | `AttemptsAreWatched` | `[]AttemptIsWatched` |
| | `AlwaysLooking` | `[]KeepsLooking` |
| | `ClientKeepsContract` | `ReceiverSpec` implies that every step is one of `MouseSession`, or a power loss, after which the contract begins anew |
| | `ClientImplementsContract` | `ReceiverSpec => Contract!SafeSpec`: the refinement, if no scenario has a power loss |
| scan, `CentralScanProofs` | `ScanHangsTogether` | `[]ScanInv` |
| | `SplitScanIsLeftAlone` | `OnlyOwnScanStopped`, an action property |
| | `AddressStays` | `AddressKept`, an action property |
| | `MouseYields` | `YieldsToSplit`, an action property |
| advertisers, `AdvertisersProofs` | `TableTyped` | `[]TypeOK` |
| | `OneEntryEach` | `[]TableInv`, if `Span < Wrap` |
| | `OnlyMiceAsked` | `[]AskedIsMouse`, if `Span < Wrap` |
| | `MiceAreFound` | `MouseIsFound`, an action property |
| admission, `AuthGuardProofs` | `GuardAlways` | `[]GuardInv` |
| | `LegacyNeedsSelection` | `[]LegacyOnlySelected`: Legacy on a connection not selected only if that was first paired on inside a registration |
| | `PolicyStays` | `PolicyImmutable`, an action property |
| bonds, `BondRecordsProofs` | `BondsKeepMeaning` | `[]BondsInv` |
| | `LengthIsEnough` | `[]LengthTellsKind` |
| | `NewFirmwarePreserves` | `RecordsPreserved`, an action property |
| parser and decoder, `HidProofs` | `LayoutIsSound` | `[]LayoutInv` |
| | `OnlyMouseFields` | `[]MouseFieldsOnly` |
| | `NoUsageLost` | `[]UsagesFound` |
| | `MotionIsDecoded` | `[]DecodeInv` |
| | `ButtonsAreTrue` | `[]PhysicalIsTrue` |

Two of them have a hypothesis beyond the assumption on the constants.

- `Span < Wrap`: the clock has not gone round once since the table was first used, about 49 days in
  the code; it may pass its end in that time. The code never clears the table, so an entry exactly
  2^32 ms old looks fresh again: both properties are false after it, for as long as the window is.
- `ClientImplementsContract` takes scenarios whose budget has no power loss, as `receiver_session`
  does. Losing power ends the output together with the client, so that the session of before and the
  one of after are not of one output; `ClientKeepsContract` says what holds across it.

**Output.** For every finite or infinite set of button numbers, every set of axes and motions, every
queue size, packet limit and packet bound (`OutputAssumption`); `MaxEpoch` is any number, so that
the bound on resets is no restriction. None of the properties is inductive. Stuck buttons are
excluded because at any moment the newest known state of the physical buttons is at one of four
places, looked for in this order (`NewestButtons`): the back of the queue, the report the worker has
taken if it is current, the reset that is owed, and finally the button state itself; and because
wherever there is work left, a run of the worker is to come (`Scheduled`; `BeforeStart` covers the
time in which submissions are ignored). Suppression holds because whatever is held since a reset is
contained in that reset, in each later report of the stream on its way, and after the reset was
applied in the suppressed mask (`StaleIsMasked`). A current report meets no pending reset because
the queue never holds a report of an older stream (`QueueIsCurrent`): a reset that is asked for
after a report is taken makes that report stale. These form `StreamInv`. The listener's side
(`PacketInv`) relates the packet under way to the button state and to the motion (`PacketMatches`,
`ListenerMatches`, `MotionAccounted`); it does not depend on the epochs. `OutputInv` is their
conjunction; the proof that each action preserves it has one lemma per part and one step per action,
and arithmetic on `CLAMP` and set lemmas on `ButtonState` are stated once. The refinement maps
`buttons` and the pending reset to `MouseStream`: a reset is a `RequestReset`, applying it a
`Settle`, `Check` on a current report a `Report` (here `ResetPrecedesFrames` is needed), everything
else stutters. That nothing is pressed between a lost link and the next session (`NothingToPress`, a
conjunct of `OutputInv`) rests on the shared worker: the call that ends the session finds
`output_work_cb` at rest and purges the queue, and nothing is received until a session opens.

**Client.** For any mice and other devices, any number of bond slots and characteristics, and any
scenarios: which calls fail, which databases the mice have, and how often keys are pressed and power
is lost (`ClientAssumption`). The invariant has three layers, each inductive together with those
before it; each has one lemma per group of handlers, one step per action and one per conjunct.

- `Accounts` (`MouseClientAccounts`) is about who holds what. `Balanced` and `NoStrayLink` depend on
  the position in a handler (`ConnectingHolds`, `ConnectionHolds`), on the connection event that is
  still to be handled (`EventAccounted`), on what the host did to a link and the worker is about to
  hear (`LinksAccounted`, `LinkSettled`), and on the order of the work queue (`QueueOrder`): an
  event is handled before the disconnection that follows it, and both before the next connection.
  The lemmas about the queue say what `Enqueue`, `Dequeue` and taking the head do to membership and
  order. `OneRequest` is needed for the type of `session.index`: discovery has one request under
  way, or its next step queued, or runs.
- `Registered` ties the candidate, the pairing window, a pending Clear and the registered mouse to
  the attempt. Three of its facts make the theorems: a candidate is new exactly when no mouse is
  registered; its bond, once made, is there until the attempt's own teardown; and a Clear or an end
  of the window that falls on an attempt leaves `failure` set, so that `finish_ready` cannot pass.
- `Attended` is about what is scheduled: a timeout for each attempt, a failure or disconnection in
  the worker's hands, a retry for a mouse that is to be found, and the bond of an attempt that goes
  with it. The timeout must be armed even where `connected_work_cb` or `discovery_work_cb` is about
  to overwrite the CLOSING that a callback has set meanwhile (`Watched`): without that conjunct the
  invariant is not inductive, and with it the overwriting is harmless.

The action properties follow from these and from which steps can change the registration, a pending
Clear and the bonds at all (`LastingSteps`). `ClearForgets` also needs that, where settings cannot
fail, flash and RAM name the same mouse except between `settings_save_one` and READY (`FlashAgrees`):
a Clear that finds no mouse in RAM deletes nothing. The refinement needs one more invariant, `Served`: from
READY on, and as long as a disconnect call is owed, the client keeps its connection and is at no
point from which it could become ready again.

**Scan.** For any halves, addresses and failing calls (`ScanInd`). `ScanInv` speaks of the worker at
rest; `ScanInd` says for each place the worker and the link callback may be in what is owed there:
one at most holds the mouse's scan (the flag, the worker between a call of the host and the flag, or
a callback whose stop failed: `OneHolder`), why the worker is where it is (`WorkerKnows`), and that
`connect_work` is queued or runs, never both, while `connecting` is set (`OneConnect`).

**Advertisers.** For any number of advertisers and entries, any window and width of the clock
(`TableInd`). An entry in use was heard at some true time (`SeenAt`), and in the first revolution
the code's wrapping difference is the true age (`Elapsed`); a live entry is of its advertiser's run
under way, which is why one advertiser has only one and nothing is inherited with it. `MiceAreFound`
counts: the code gives away the oldest entry, so if it were that of a run under way, all entries
would be of advertisers heard since the run began, and there are fewer of these than entries.

**Admission.** For any connections and checks, whichever calls of a registration fail: the host is
without a table exactly inside a registration, and never after one that failed; a connection can
only have latched the guarded table from the host, and no table only inside a registration
(`UnguardedIsEarly`, a conjunct of `GuardInd`). Were the first table not put back after a failure, a
connection made at any later time could pair past the guard.

**Bond records.** For any peers and secrets: only Legacy keys are in full records, with their tail,
and the previous firmware never has a Legacy key in RAM (`BondInd`).

**Parser.** For any report map (a sequence of items with any values `ParserAssumption` allows, ended
or cut off anywhere), tables of any size, and bytes and words of any width. The invariant has two
parts. `Parsing` types the global, local and collection state, and says of *every* open collection,
not only the innermost one, that its flag is what the application collections around it make of it:
without this `EndCollection` would not be known to return to the right one. It also says that the
local state is what was given since the last main item (`named`), which holds because every main
item ends it, the ones the parser ignores included. `Layout` is changed by
an Input item that fits (`Takes`) and by `Clear` only. It says that the rooms of a report's items
follow one another (`Rooms`) and that each field is a cell of one item (`Placed`); from these follow
that fields stay inside their report, that a new field is apart from all old ones, and that the
fields found in an item's room stay the same when later items are added (`OldItems`), which carries
`MouseFieldsOnly` and `UsagesFound` over a step. That the meanings of the cells are those of the
named usages is the pure lemma `CellsAreNamed` about `local_usage`: for a list, a range, missing
usages and an empty range.

**Decoder.** For any layouts the parser can make, payloads of any length and words of any width of
two bits or more. The theorems rest on three results about numbers and one about states.

- *A field is a slice of a number.* `Number` reads the payload as one number; `NumberBits` says that
  its bits are the payload's, by induction over the bytes, and `RawDigits` that the loop of
  `extract_field` collects `Digits`, by induction over the field's bits: the field may straddle any
  number of bytes, but must end inside the payload (`BytesHoldBits`), which is where the parser's
  layout is needed.
- *A slice is a value.* `SignedValue`: flipping the sign bit and taking it away again, cast to a
  signed word, is two's complement at any size, the full word included.
- *A saturated sum is a sum.* `AxisSum`: the values of an axis, added one by one and cut to a word
  after each, give the exact sum while the magnitudes fit a word together, and the limit when all
  are of one sign and the sum is beyond it. In between the order matters, and nothing is claimed.
- *The state.* `Reporting` says that what is kept of each characteristic is what its latest payload
  says (`Kept`), and that what was handed on is the latest payload of one characteristic with the
  buttons of all (`HandedOn`); until the map is accepted there is neither (`Quiet`).

Inductions are over natural numbers and finite sets. The library states its induction theorems for
any predicate, which no installed backend can instantiate; `HidProofs` starts with versions in which
the predicate is a set, from the minimal element principle of a well-founded order (`SetInduction`,
`InductionUpTo`), and with one for recursive functions (`StepRecursion`). This is also why shifts
are the recursive function `Shift` and not a power of two.

Not proved, and why: liveness under fairness (`AttemptEnds`, `WindowCloses`, `Rearms`,
`ResetHonoured`, `ReleasedAfterLoss`, `SplitServed`, `MouseServed`, `ClearEnds`, and the fairness
half of the two refinements) is beyond the proof system's backends.

## 7. Findings

`client_stale`: the bond is stored when pairing completes, `ble_mouse/peer` only after the whole
discovery (`ble_mouse.c:474`). If power is lost in between, the restarted client knows no mouse; the
mouse's bond remains, `connect_mouse` refuses a device that is bonded but not registered
(`ble_mouse.c:190`), and Mouse Clear, which only knows the registered mouse, ends without removing
the bond. The behavior's binding says "Pair a BLE mouse or clear only its bond after a two-second
hold", and README.md:135 that a stale bond "must be cleared explicitly". The mouse can be neither
cleared nor paired, and its bond slot stays taken until all bonds are erased by other means.

`scan_race`: `stop_own_scan` takes `scan_owned` (`central_scan.c:44`) and then stops the scan. If a
keyboard half is lost while the worker is between the two, because it stops the scan to connect to
the mouse or because nobody wants it, `connection_changed` finds nothing to stop and the split
transport's callback, right after it, is refused its scan. README.md:254 relies on the order of the
callbacks "to yield an owned pairing scan before the split disconnect callback" and, like the
comment in the code, leaves open only a scan *start* that races the disconnection. `scan` shows
(`SplitServed`) that the mouse's scan does end soon after, but the start the split transport was
refused is its own to repeat.

Seen while modelling, with nothing in the repository that says otherwise:

- When `settings_delete` fails, `forget_peer` logs it and goes on (`ble_mouse.c:784-788`): the Clear
  ends with the bond gone and no mouse registered in RAM, but the registration stays in flash and is
  back at the next boot, without a bond. The client then leaves that mouse alone until it is cleared
  again, when flash may work. `ClearForgets` asks for an empty flash only where settings cannot fail.
- The settling time can end early: `settle_work` of an older link change may run while the callback
  of a newer one waits in `bt_le_scan_stop`, and the worker may then start the scan again before the
  split callback (`SettledEarly` in `YieldsToSplit`).
- An unwanted scan whose stop fails, or one that `forget_peer` leaves when `bt_unpair` fails, has no
  further run of `scan_work` scheduled: it ends at the next link change or refresh.
- Once the 32-bit clock has wrapped, an advertiser entry never used (seen at 0) looks younger than
  one heard just before the wrap, so that a live entry may be given away while others are free; the
  mouse is found from its next packets.
- A usage range in an item that also has a list is counted from the item's first cell, not from the
  end of the list.

## 8. Not modelled, or only model-checked

- Only model-checked: all liveness, which is beyond the proof system's backends. Every safety
  property of a passing run is also a theorem.
- Left out of the client: the arithmetic of retry delays, connection parameters, the text matching
  of `parse_ad` (a packet says M720 or not).
- Left out of the parser: the byte form of items (prefix, long items), whose effect is the value,
  its width, or a truncated map.
- Left out of `BondRecords`: settings that are no bonds, and direct loads, which pass through.
- `smp_guard.c` and `split_battery_guard.c`: one stateless test around one call of code outside the
  repository. There is no second actor and no state a property could relate.
- Build integration, devicetree and tests: nothing that runs on the device. The host tests were read
  for the intended behaviour.
- Zephyr and ZMK: only as far as this module relies on them; such definitions are marked external in
  the map.

## 9. Plan

1. *(done)* `MouseOutput` with its abstract specification and proofs; `MouseClient` with safety and
   liveness runs.
2. *(done)* `MouseSession` between the two; `CentralScan`; `Advertisers`; `HidParser` and
   `HidReports`; `AuthGuard` and `BondRecords`. All are free of RECURSIVE operators, so that they
   can be proved about.
3. *(done)* `CentralScanProofs`, `BondRecordsProofs`, `AuthGuardProofs`, `AdvertisersProofs`:
   every safety property of these components.
4. *(done)* `MouseClientAccounts` and `MouseClientProofs`: every safety property of the client, and
   the safety half of its refinement of `MouseSession`.
5. *(done)* `HidProofs`: every safety property of the parser and of the decoder, for every report
   map and payload.
6. `MouseRegistry`: an abstract specification of bonds and registration, implemented by
   `MouseClient`: `LastingSteps`, `RegisteredInWindow`, `BondsAreSafe` and `ClearIsDone` are most of
   its proof.
