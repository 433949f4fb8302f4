------------------------------ MODULE MouseClient ------------------------------
(***************************************************************************)
(* ble_mouse.c: the life of the mouse's connection and of its bond.        *)
(*                                                                         *)
(* One preemptible worker runs the handlers that are queued for it, in     *)
(* order.  Bluetooth callbacks, key presses and timers come from threads   *)
(* it cannot preempt: each of them is one step, and may fall between any   *)
(* two steps of a handler.  A handler that only touches what the worker    *)
(* owns, or whose shared reads and writes nobody can tell apart, is one    *)
(* step; the others are split where they read or write what a callback     *)
(* reads or writes, and where they call into the Bluetooth host or flash.  *)
(*                                                                         *)
(* Addresses stand for devices and for their connection objects.  Error    *)
(* codes, retry delays and the reports' contents are abstracted.           *)
(*                                                                         *)
(* The definitions named Mut... are slips the code might have had; each    *)
(* replaces the definition after it to see a property fail.                *)
(***************************************************************************)
EXTENDS Integers, Sequences, FiniteSets

CONSTANTS Mice,           \* devices that advertise as the mouse
          Others,         \* keyboards, hosts: bonds of other slots
          None,           \* no device
          MaxPaired,      \* CONFIG_BT_MAX_PAIRED
          MaxCharacteristics, \* MAX_CHARACTERISTICS (12)
          Needs,          \* inputs the client must have covered to be ready
          Scenarios       \* what a behaviour may meet; it is in one of these

FaultKinds == {"stop",        \* bt_le_scan_stop fails
               "auto",        \* bt_le_set_auto_conn or the lookup fails
               "connect",     \* a connection attempt is reported as failed
               "security",    \* encryption or pairing fails
               "gatt",        \* a GATT request is refused or answered by an error
               "disconnect",  \* bt_conn_disconnect fails on a live link
               "unpair",      \* bt_unpair fails
               "settings"}    \* saving or deleting the peer fails

ASSUME ClientAssumption ==
    /\ Mice \cap Others = {}
    /\ None \notin Mice \cup Others
    /\ MaxPaired \in Nat
    /\ MaxCharacteristics \in Nat
    /\ Needs # {}
    /\ \A s \in Scenarios :
        /\ s.mice \subseteq Mice /\ s.others \subseteq Others
        /\ s.stored \subseteq s.mice \cup {None}   \* ble_mouse/peer at the first boot
        /\ s.faults \subseteq FaultKinds            \* calls and callbacks that may fail
        /\ s.profiles # {}                          \* the GATT databases of the mice
        /\ s.profiles \subseteq
              [map : {"none", "bad", "good"}, protocol : {"none", "write", "command"},
               reports : Seq([reference : BOOLEAN, useful : BOOLEAN, ccc : BOOLEAN,
                              covers : SUBSET Needs])]
        /\ s.budget \in [pair : Nat, clear : Nat, power : Nat]  \* bound: presses, power losses

VARIABLES
    (* ble_mouse.c; have_peer is peer # None, failure is a truth value.      *)
    stage, failure, mouse_conn, peer, pairing, scan_wanted, connecting_address,
    new_candidate, candidate_bonded, forget_requested, clear_held, started,
    connected_event_conn, connected_error, session,
    (* central_scan.c: the address a queued connect_work will connect to.    *)
    pending_address,
    (* The worker: queued handlers, armed timers, where a split handler is,  *)
    (* and its local variable.                                               *)
    work_queue, timers, pc, local,
    (* The Bluetooth host: per mouse its link and how far its security got;  *)
    (* the auto-connect flags, the GATT request under way, and how many      *)
    (* references to each connection the client holds.                       *)
    link, security, auto_connect, gatt, references,
    (* Flash: the bonds, and the value of ble_mouse/peer.                    *)
    bonds, saved_peer,
    (* History: the bond made by the connection attempt under way.           *)
    attempt_bond,
    (* The scenario, which no action changes, and what is left of its budget.*)
    scenario, budget

candidateVars == <<connecting_address, new_candidate, candidate_bonded, attempt_bond>>
peerVars == <<peer, saved_peer, forget_requested>>
userVars == <<clear_held, started, scenario, budget>>
eventVars == <<connected_event_conn, connected_error>>
keptVars == <<peerVars, candidateVars, userVars, eventVars, session>>
workerVars == <<pc, local, pending_address>>
queueVars == <<work_queue, timers>>
stepVars == <<keptVars, mouse_conn, pairing, local, pending_address, timers>>
linkVars == <<link, security, auto_connect, gatt>>
hostVars == <<linkVars, references, bonds>>
clientVars == <<stage, failure, mouse_conn, pairing, scan_wanted>>
vars == <<clientVars, keptVars, workerVars, queueVars, hostVars>>

Faults == scenario.faults

Profiles == scenario.profiles

Addresses == Mice \cup Others

Stages == {"IDLE", "CONNECTING", "SECURITY", "SERVICE", "CHARACTERISTICS", "DESCRIPTORS",
           "REPORT_MAP", "REPORT_REFERENCES", "PROTOCOL", "SUBSCRIPTIONS", "READY", "CLOSING"}

Timers == {"retry", "timeout", "pair_timeout", "clear"}

Handlers == Timers \cup {"discovery", "failure", "connected", "disconnected", "pair", "connect"}

Links == {"down",     \* no connection object
          "scan",     \* waiting for the mouse: background auto-connect
          "cancel",   \* an attempt the host is initiating was cancelled
          "up",
          "closing"}  \* a disconnection was requested

Securities == {"none", "requested", "pairing", "keys", "done"}

NoProfile == [map |-> "none", reports |-> << >>, protocol |-> "none"]

NoSession == [profile |-> NoProfile, index |-> 0, covered |-> {}]

NoRequest == [conn |-> None, kind |-> "none"]

(* Types; the report being discovered is one the database has                *)
(* (session.index, discovery_work_cb and its callbacks).                     *)
TypeOK ==
    /\ stage \in Stages
    /\ failure \in BOOLEAN
    /\ mouse_conn \in Mice \cup {None}
    /\ peer \in Mice \cup {None}
    /\ pairing \in BOOLEAN
    /\ scan_wanted \in BOOLEAN
    /\ connecting_address \in Mice \cup {None}
    /\ new_candidate \in BOOLEAN
    /\ candidate_bonded \in BOOLEAN
    /\ forget_requested \in BOOLEAN
    /\ clear_held \in BOOLEAN
    /\ started \in BOOLEAN
    /\ connected_event_conn \in Mice \cup {None}
    /\ connected_error \in BOOLEAN
    /\ session \in [profile : Profiles \cup {NoProfile}, index : Nat, covered : SUBSET Needs]
    /\ session.index <= Len(session.profile.reports)
    /\ pending_address \in Mice \cup {None}
    /\ work_queue \in Seq(Handlers)
    /\ timers \subseteq Timers
    /\ pc \in {"idle", "auto", "lookup", "taken", "completed", "secure", "request", "secured",
               "discover", "count", "save", "ready", "teardown", "release", "forget", "delete"}
    /\ local \in Mice \cup Stages \cup {"retry", None}
    /\ link \in [Mice -> Links]
    /\ security \in [Mice -> Securities]
    /\ auto_connect \subseteq Mice
    /\ gatt \in [conn : Mice, kind : {"discover", "read", "write", "subscribe"}] \cup {NoRequest}
    /\ references \in [Mice -> Nat]
    /\ bonds \subseteq Addresses
    /\ saved_peer \in Mice \cup {None}
    /\ attempt_bond \in Mice \cup {None}
    /\ scenario \in Scenarios
    /\ budget \in [pair : Nat, clear : Nat, power : Nat]

(* Everything in RAM, at reset. *)
RamCleared ==
    /\ stage = "IDLE" /\ failure = FALSE /\ mouse_conn = None
    /\ pairing = FALSE /\ scan_wanted = FALSE /\ connecting_address = None
    /\ new_candidate = FALSE /\ candidate_bonded = FALSE /\ forget_requested = FALSE
    /\ clear_held = FALSE /\ started = FALSE /\ peer = None
    /\ connected_event_conn = None /\ connected_error = FALSE
    /\ session = NoSession
    /\ pending_address = None
    /\ work_queue = << >> /\ timers = {} /\ pc = "idle" /\ local = None
    /\ link = [m \in Mice |-> "down"]
    /\ security = [m \in Mice |-> "none"]
    /\ auto_connect = {}
    /\ gatt = NoRequest
    /\ references = [m \in Mice |-> 0]
    /\ attempt_bond = None

(* Boot, with some slots taken by others and perhaps a mouse registered.     *)
Init ==
    /\ RamCleared
    /\ scenario \in Scenarios
    /\ saved_peer \in scenario.stored
    /\ \E S \in SUBSET scenario.others : bonds = S \cup ({saved_peer} \ {None})
    /\ Cardinality(bonds) <= MaxPaired
    /\ budget = scenario.budget

--------------------------------------------------------------------------------
(* The work queue: an item is queued at most once, and again while it runs.  *)

Holds(queue, item) == \E i \in 1 .. Len(queue) : queue[i] = item

Queued(item) == Holds(work_queue, item)

Enqueue(queue, item) == IF Holds(queue, item) THEN queue ELSE Append(queue, item)

Submit(item) == work_queue' = Enqueue(work_queue, item)

(* k_work_cancel_delayable takes an item from the queue, too.                *)
Dequeue(queue, item) ==
    IF Holds(queue, item)
    THEN LET at == CHOOSE i \in 1 .. Len(queue) : queue[i] = item
         IN  [i \in 1 .. Len(queue) - 1 |-> IF i < at THEN queue[i] ELSE queue[i + 1]]
    ELSE queue

(* The worker starts on an item; what is left of the queue.                  *)
Runs(item) == pc = "idle" /\ work_queue # << >> /\ Head(work_queue) = item

Rest == Tail(work_queue)

(* A timer expires: its item is queued.                                      *)
Expire(timer) ==
    /\ timer \in timers
    /\ timers' = timers \ {timer}
    /\ Submit(timer)
    /\ UNCHANGED <<clientVars, keptVars, workerVars, hostVars>>

--------------------------------------------------------------------------------
(* Helpers of ble_mouse.c.                                                   *)

owns(conn) == conn # None /\ conn = mouse_conn

valid_callback(conn) == owns(conn) /\ ~failure /\ stage # "CLOSING"

(* zmk_ble_mouse_legacy_pairing_allowed, for a central link.                 *)
legacy_pairing_allowed(conn) ==
    /\ pairing /\ peer = None /\ ~failure /\ new_candidate
    /\ stage \in {"CONNECTING", "SECURITY"}
    /\ \/ owns(conn)
       \/ mouse_conn = None /\ stage = "CONNECTING" /\ conn = connecting_address

MutFailNotSubmitted(queue) == failure' = TRUE /\ work_queue' = queue

(* fail(): the first error is kept, failure_work is queued behind `queue`.   *)
Fail(queue) ==
    /\ failure' = TRUE
    /\ work_queue' = Enqueue(queue, "failure")

next_stage(next, queue) ==
    /\ stage' = next
    /\ work_queue' = Enqueue(queue, "discovery")

MutRetryNotScheduled(armed, queue) ==
    /\ scan_wanted' = FALSE
    /\ timers' = armed
    /\ work_queue' = queue

(* request_retry(), with the timers and the queue as they are by then.       *)
RequestRetry(armed, queue) ==
    /\ scan_wanted' = FALSE
    /\ timers' = armed \cup {"retry"}
    /\ work_queue' = queue

(* retry_work_cb, with pairing as it is by then: look for the mouse, or for  *)
(* a saved one connect in the background.                                    *)
RetryWanted(paired) ==
    /\ mouse_conn = None
    /\ peer # None \/ paired
    /\ peer # None => peer \in bonds

RetryWork(paired, queue) ==
    /\ scan_wanted' = RetryWanted(paired)
    /\ IF RetryWanted(paired) /\ peer # None /\ pending_address = None
       THEN /\ pending_address' = peer
            /\ work_queue' = Enqueue(queue, "connect")
       ELSE /\ UNCHANGED pending_address
            /\ work_queue' = queue

--------------------------------------------------------------------------------
(* The Bluetooth host, as ble_mouse.c uses it.                               *)

(* bt_le_set_auto_conn(conn, NULL): a link only waited for is dropped.       *)
AutoOff(conn) ==
    /\ auto_connect' = auto_connect \ {conn}
    /\ link' = [link EXCEPT ![conn] = IF @ = "scan" THEN "down" ELSE @]

(* bt_unpair: the bond goes, and the link with it.                           *)
Unpair(conn) ==
    /\ bonds' = bonds \ {conn}
    /\ auto_connect' = auto_connect \ {conn}
    /\ link' = [link EXCEPT ![conn] =
                  CASE @ = "up" -> "closing" [] @ = "scan" -> "down" [] OTHER -> @]

(* The worker keeps up with the radio: the next connection is not initiated, *)
(* or completed, before the handlers of the last one ran.                    *)
KeepsUp ==
    /\ connected_event_conn = None
    /\ pc \notin {"taken", "completed"}
    /\ ~Queued("disconnected")

(* connected_cb *)
Connected(conn, err) ==
    IF owns(conn) \/ (stage = "CONNECTING" /\ conn = connecting_address)
    THEN /\ connected_event_conn' = conn
         /\ connected_error' = err
         /\ references' = [references EXCEPT ![conn] = @ + 1]
         /\ Submit("connected")
    ELSE UNCHANGED <<eventVars, work_queue, references>>

(* The mouse answers, also where the host was about to give up.              *)
LinkUp(conn) ==
    /\ link[conn] \in {"scan", "cancel"}
    /\ KeepsUp
    /\ link' = [link EXCEPT ![conn] = "up"]
    /\ security' = [security EXCEPT ![conn] = "none"]
    /\ Connected(conn, FALSE)
    /\ UNCHANGED <<clientVars, peerVars, candidateVars, userVars, session, workerVars, timers,
                   auto_connect, gatt, bonds>>

(* An attempt ends without a link: cancelled, or failed.                     *)
LinkRefused(conn) ==
    /\ \/ link[conn] = "cancel"
       \/ "connect" \in Faults /\ link[conn] = "scan"
    /\ KeepsUp
    /\ link' = [link EXCEPT ![conn] = IF conn \in auto_connect THEN "scan" ELSE "down"]
    /\ Connected(conn, TRUE)
    /\ UNCHANGED <<clientVars, peerVars, candidateVars, userVars, session, workerVars, timers,
                   security, auto_connect, gatt, bonds>>

(* The link is lost, or a requested disconnection is complete.  The host     *)
(* answers the request under way (a list just ends) and ends subscriptions,  *)
(* before or after disconnected_cb, which outdates them; with auto-connect   *)
(* on it goes back to waiting.  All this runs in cooperative threads, so     *)
(* that the worker does not come in between.                                 *)
LastAnswers(conn) ==
    {"none"}
    \cup (IF valid_callback(conn) /\ (gatt.conn = conn \/ stage = "READY") THEN {"failure"} ELSE {})
    \cup (IF valid_callback(conn) /\ gatt = [conn |-> conn, kind |-> "discover"]
          THEN {"discovery"} ELSE {})

LinkLost(conn) ==
    /\ link[conn] \in {"up", "closing"}
    /\ link' = [link EXCEPT ![conn] = IF conn \in auto_connect THEN "scan" ELSE "down"]
    /\ security' = [security EXCEPT ![conn] = "none"]
    /\ gatt' = IF gatt.conn = conn THEN NoRequest ELSE gatt
    /\ IF owns(conn)
       THEN /\ stage' = "CLOSING"
            /\ scan_wanted' = FALSE
            /\ \E answer \in LastAnswers(conn) :
                /\ failure' = (failure \/ answer = "failure")
                /\ work_queue' = Enqueue(IF answer = "none" THEN work_queue
                                         ELSE Enqueue(work_queue, answer), "disconnected")
       ELSE UNCHANGED <<stage, failure, scan_wanted, work_queue>>
    /\ UNCHANGED <<stepVars, pc, auto_connect, references, bonds>>

(* security_cb without an error.                                             *)
SecurityChanged(conn) ==
    IF valid_callback(conn) /\ stage = "SECURITY"
    THEN next_stage("SERVICE", work_queue)
    ELSE UNCHANGED <<stage, work_queue>>

(* A bonded mouse is encrypted with its stored keys.                         *)
Encrypted(conn) ==
    /\ link[conn] = "up"
    /\ security[conn] = "requested"
    /\ conn \in bonds
    /\ security' = [security EXCEPT ![conn] = "done"]
    /\ SecurityChanged(conn)
    /\ UNCHANGED <<failure, stepVars, scan_wanted, pc, link, auto_connect, gatt, references,
                   bonds>>

(* Pairing starts, at the client's or the mouse's request, if it is allowed. *)
PairingStarts(conn) ==
    /\ link[conn] = "up"
    /\ security[conn] \in {"none", "requested"}
    /\ conn \notin bonds
    /\ legacy_pairing_allowed(conn)
    /\ security' = [security EXCEPT ![conn] = "pairing"]
    /\ UNCHANGED <<clientVars, keptVars, workerVars, queueVars, link, auto_connect, gatt,
                   references, bonds>>

(* ... its encryption is on, the keys still have to be exchanged ...         *)
PairingEncrypts(conn) ==
    /\ link[conn] = "up"
    /\ security[conn] = "pairing"
    /\ security' = [security EXCEPT ![conn] = "keys"]
    /\ SecurityChanged(conn)
    /\ UNCHANGED <<failure, stepVars, scan_wanted, pc, link, auto_connect, gatt, references,
                   bonds>>

(* ... and pairing_complete_cb: bonded if a slot is left by then.  Pairing   *)
(* takes longer than the worker from bt_le_set_auto_conn to the lookup.      *)
PairingCompletes(conn) ==
    /\ link[conn] = "up"
    /\ security[conn] = "keys"
    /\ pc # "lookup"
    /\ security' = [security EXCEPT ![conn] = "done"]
    /\ LET bonded == Cardinality(bonds) < MaxPaired
       IN  /\ bonds' = IF bonded THEN bonds \cup {conn} ELSE bonds
           /\ attempt_bond' = IF bonded THEN conn ELSE attempt_bond
           /\ IF owns(conn)
              THEN /\ candidate_bonded' = bonded
                   /\ IF bonded THEN UNCHANGED <<failure, work_queue>> ELSE Fail(work_queue)
              ELSE UNCHANGED <<failure, candidate_bonded, work_queue>>
    /\ UNCHANGED <<stage, mouse_conn, pairing, scan_wanted, peerVars, connecting_address,
                   new_candidate, userVars, eventVars, session, workerVars, timers, link,
                   auto_connect, gatt, references>>

(* security_cb with an error, pairing_failed_cb: pairing is not allowed, or  *)
(* the peer or the radio fails.  pairing_failed_cb asks only who owns it.    *)
SecurityFails(conn) ==
    /\ link[conn] = "up"
    /\ \/ "security" \in Faults /\ security[conn] \in {"requested", "pairing", "keys"}
       \/ security[conn] = "requested" /\ conn \notin bonds /\ ~legacy_pairing_allowed(conn)
    /\ security' = [security EXCEPT ![conn] = "none"]
    /\ IF valid_callback(conn) \/ (owns(conn) /\ security[conn] # "requested")
       THEN Fail(work_queue)
       ELSE UNCHANGED <<failure, work_queue>>
    /\ UNCHANGED <<stage, stepVars, scan_wanted, pc, link, auto_connect, gatt, references, bonds>>

(* Another device takes a bond slot.                                         *)
OtherPairs(device) ==
    /\ device \notin bonds
    /\ Cardinality(bonds) < MaxPaired
    /\ bonds' = bonds \cup {device}
    /\ UNCHANGED <<clientVars, keptVars, workerVars, queueVars, linkVars, references>>

--------------------------------------------------------------------------------
(* GATT answers, in the receive thread.                                      *)

Refused(conn) == "gatt" \in Faults \/ link[conn] # "up"

Answer(kind) ==
    /\ gatt.kind = kind
    /\ gatt' = NoRequest
    /\ UNCHANGED <<mouse_conn, pairing, scan_wanted, peerVars, candidateVars, userVars, eventVars,
                   workerVars, timers, link, security, auto_connect, references, bonds>>

Ignored == UNCHANGED <<stage, failure, session, work_queue>>

Failed == Fail(work_queue) /\ UNCHANGED <<stage, session>>

Advance(next) == next_stage(next, work_queue) /\ UNCHANGED failure

Usable(profile) ==
    /\ profile.map # "none"
    /\ Len(profile.reports) \in 1 .. MaxCharacteristics

(* discover_cb, from the first attribute to the end of the list.  `found`:   *)
(* a service was among them; the list also ends when the link does.          *)
DiscoverCb(found, profile) ==
    /\ Answer("discover")
    /\ ~found => Refused(gatt.conn)
    /\ \/ ~valid_callback(gatt.conn) /\ Ignored
       \/ /\ valid_callback(gatt.conn)
          /\ CASE stage = "SERVICE" ->
                    IF found THEN Advance("CHARACTERISTICS") /\ UNCHANGED session ELSE Failed
               [] stage = "CHARACTERISTICS" ->
                    /\ session' = [session EXCEPT !.profile = profile]
                    /\ IF Usable(profile) THEN Advance("DESCRIPTORS")
                       ELSE Fail(work_queue) /\ UNCHANGED stage
               [] stage = "DESCRIPTORS" -> Advance("REPORT_MAP") /\ UNCHANGED session
               [] OTHER -> Failed

(* read_cb, to the end of the value. *)
ReadCb(ok) ==
    /\ Answer("read")
    /\ ~ok => Refused(gatt.conn)
    /\ \/ ~valid_callback(gatt.conn) /\ Ignored
       \/ valid_callback(gatt.conn) /\ ~ok /\ Failed
       \/ /\ valid_callback(gatt.conn) /\ ok
          /\ CASE stage = "REPORT_MAP" -> Advance("REPORT_REFERENCES") /\ UNCHANGED session
               [] stage = "REPORT_REFERENCES" ->
                    /\ session' = [session EXCEPT !.index = @ + 1]
                    /\ Submit("discovery")
                    /\ UNCHANGED <<stage, failure>>
               [] OTHER -> Ignored

(* written_cb *)
WrittenCb(ok) ==
    /\ Answer("write")
    /\ ~ok => Refused(gatt.conn)
    /\ \/ ~valid_callback(gatt.conn) /\ Ignored
       \/ valid_callback(gatt.conn) /\ ~ok /\ Failed
       \/ valid_callback(gatt.conn) /\ ok /\ Advance("SUBSCRIPTIONS") /\ UNCHANGED session

(* subscribed_cb: the report at `index` covers its inputs.                   *)
SubscribedCb(ok) ==
    /\ Answer("subscribe")
    /\ ~ok => Refused(gatt.conn)
    /\ \/ ~valid_callback(gatt.conn) /\ Ignored
       \/ valid_callback(gatt.conn) /\ ~ok /\ Failed
       \/ /\ valid_callback(gatt.conn) /\ ok
          /\ session' = [session EXCEPT !.index = @ + 1,
                !.covered = @ \cup session.profile.reports[session.index + 1].covers]
          /\ Submit("discovery")
          /\ UNCHANGED <<stage, failure>>

(* notify_cb without data: the subscription ended. *)
NotifyEnds(conn) ==
    /\ link[conn] = "up"
    /\ valid_callback(conn)
    /\ stage = "READY"
    /\ Fail(work_queue)
    /\ UNCHANGED <<stage, stepVars, scan_wanted, pc, hostVars>>

--------------------------------------------------------------------------------
(* Advertisements, keys, boot and power.                                     *)

(* zmk_ble_mouse_advertisement, once the device qualifies as the mouse (new) *)
(* or is the saved one; then zmk_ble_central_connect.                        *)
Advertises(conn) ==
    /\ started
    /\ scan_wanted
    /\ IF peer # None THEN conn = peer ELSE pairing
    /\ pending_address = None
    /\ pending_address' = conn
    /\ Submit("connect")
    /\ UNCHANGED <<clientVars, keptVars, pc, local, timers, hostVars>>

(* zmk_ble_mouse_pair *)
PairPressed ==
    /\ started
    /\ budget.pair > 0
    /\ budget' = [budget EXCEPT !.pair = @ - 1]
    /\ Submit("pair")
    /\ UNCHANGED <<clientVars, peerVars, candidateVars, clear_held, started, scenario, eventVars,
                   session, workerVars, timers, hostVars>>

(* zmk_ble_mouse_clear_hold *)
ClearHold(pressed) ==
    /\ started
    /\ clear_held # pressed
    /\ clear_held' = pressed
    /\ IF pressed
       THEN /\ budget.clear > 0
            /\ budget' = [budget EXCEPT !.clear = @ - 1]
            /\ timers' = timers \cup {"clear"}
            /\ UNCHANGED work_queue
       ELSE /\ timers' = timers \ {"clear"}
            /\ work_queue' = Dequeue(work_queue, "clear")
            /\ UNCHANGED budget
    /\ UNCHANGED <<clientVars, peerVars, candidateVars, started, scenario, eventVars, session,
                   workerVars, hostVars>>

(* The keys, behavior_ble_mouse.c: releasing MOUSE_PAIR does nothing.        *)
Pressed(param1) ==
    \/ param1 = "MOUSE_PAIR" /\ PairPressed
    \/ param1 = "MOUSE_CLEAR" /\ ClearHold(TRUE)

Released(param1) == param1 = "MOUSE_CLEAR" /\ ClearHold(FALSE)

(* settings_set, ble_mouse_settings_commit, zmk_ble_mouse_start.             *)
Start ==
    /\ ~started
    /\ started' = TRUE
    /\ peer' = saved_peer
    /\ timers' = timers \cup {"retry"}
    /\ UNCHANGED <<clientVars, saved_peer, forget_requested, candidateVars, clear_held, scenario,
                   budget, eventVars, session, workerVars, work_queue, hostVars>>

(* Power is lost: only flash is kept.                                        *)
PowerLoss ==
    /\ started
    /\ budget.power > 0
    /\ budget' = [budget EXCEPT !.power = @ - 1]
    /\ stage' = "IDLE" /\ failure' = FALSE /\ mouse_conn' = None
    /\ pairing' = FALSE /\ scan_wanted' = FALSE /\ connecting_address' = None
    /\ new_candidate' = FALSE /\ candidate_bonded' = FALSE /\ forget_requested' = FALSE
    /\ clear_held' = FALSE /\ started' = FALSE /\ peer' = None
    /\ connected_event_conn' = None /\ connected_error' = FALSE
    /\ session' = NoSession
    /\ pending_address' = None
    /\ work_queue' = << >> /\ timers' = {} /\ pc' = "idle" /\ local' = None
    /\ link' = [m \in Mice |-> "down"]
    /\ security' = [m \in Mice |-> "none"]
    /\ auto_connect' = {}
    /\ gatt' = NoRequest
    /\ references' = [m \in Mice |-> 0]
    /\ attempt_bond' = None
    /\ UNCHANGED <<saved_peer, bonds, scenario>>

--------------------------------------------------------------------------------
(* The worker's handlers.                                                    *)

(* retry_work_cb *)
RetryHandler ==
    /\ Runs("retry")
    /\ RetryWork(pairing, Rest)
    /\ UNCHANGED <<stage, failure, mouse_conn, pairing, keptVars, pc, local, timers, hostVars>>

(* timeout_work_cb *)
TimeoutHandler ==
    /\ Runs("timeout")
    /\ IF mouse_conn # None /\ stage # "READY"
       THEN Fail(Rest)
       ELSE work_queue' = Rest /\ UNCHANGED failure
    /\ UNCHANGED <<stage, stepVars, scan_wanted, pc, hostVars>>

MutWindowSparesAttempt == FALSE

AbandonsCandidate == mouse_conn # None /\ new_candidate /\ stage # "READY"

MutWindowStaysOpen ==
    /\ Runs("pair_timeout")
    /\ RetryWork(pairing, Rest)
    /\ UNCHANGED <<stage, failure, mouse_conn, pairing, keptVars, pc, local, timers, hostVars>>

(* pair_timeout_cb *)
PairTimeoutHandler ==
    /\ Runs("pair_timeout")
    /\ pairing' = FALSE
    /\ failure' = (failure \/ AbandonsCandidate)
    /\ RetryWork(FALSE, IF AbandonsCandidate THEN Enqueue(Rest, "failure") ELSE Rest)
    /\ UNCHANGED <<stage, mouse_conn, keptVars, pc, local, timers, hostVars>>

(* pair_work_cb *)
PairHandler ==
    /\ Runs("pair")
    /\ IF mouse_conn # None \/ (peer = None /\ Cardinality(bonds) >= MaxPaired)
       THEN /\ work_queue' = Rest
            /\ UNCHANGED <<pairing, scan_wanted, pending_address, timers>>
       ELSE /\ pairing' = (pairing \/ peer = None)
            /\ timers' = IF peer = None THEN timers \cup {"pair_timeout"} ELSE timers
            /\ RetryWork(pairing', Rest)
    /\ UNCHANGED <<stage, failure, mouse_conn, keptVars, pc, local, hostVars>>

(* clear_work_cb *)
ClearHandler ==
    /\ Runs("clear")
    /\ IF ~clear_held
       THEN /\ work_queue' = Rest
            /\ UNCHANGED <<failure, pairing, scan_wanted, forget_requested, pc, local>>
       ELSE /\ pairing' = FALSE
            /\ scan_wanted' = FALSE
            /\ forget_requested' = TRUE
            /\ IF mouse_conn # None
               THEN Fail(Rest) /\ UNCHANGED <<pc, local>>
               ELSE /\ pc' = "forget"
                    /\ local' = None
                    /\ work_queue' = Rest
                    /\ UNCHANGED failure
    /\ UNCHANGED <<stage, mouse_conn, peer, saved_peer, candidateVars, userVars, eventVars,
                   session, pending_address, timers, hostVars>>

MutNotConnectedIgnored == UNCHANGED pc

(* -ENOTCONN: the connection is torn down here, no callback will come.       *)
NotConnected == pc' = "teardown"

(* failure_work_cb: bt_conn_disconnect turns auto-connect off first, which   *)
(* drops a link only waited for.                                             *)
FailureHandler ==
    /\ Runs("failure")
    /\ IF mouse_conn = None
       THEN /\ stage' = "IDLE"
            /\ failure' = FALSE
            /\ RequestRetry(timers, Rest)
            /\ UNCHANGED <<pc, link, auto_connect>>
       ELSE /\ stage' = "CLOSING"
            /\ scan_wanted' = FALSE
            /\ auto_connect' = auto_connect \ {mouse_conn}
            /\ work_queue' = Rest
            /\ \/ /\ link[mouse_conn] \in {"down", "scan"}
                  /\ link' = [link EXCEPT ![mouse_conn] = IF @ = "scan" THEN "down" ELSE @]
                  /\ NotConnected
               \/ /\ link[mouse_conn] = "cancel" \/ (link[mouse_conn] = "scan" /\ KeepsUp)
                  /\ link' = [link EXCEPT ![mouse_conn] = "cancel"]
                  /\ UNCHANGED pc
               \/ /\ link[mouse_conn] \in {"up", "closing"}
                  /\ link' = [link EXCEPT ![mouse_conn] = "closing"]
                  /\ UNCHANGED pc
               \/ /\ "disconnect" \in Faults
                  /\ link[mouse_conn] = "up"
                  /\ UNCHANGED <<pc, link>>
            /\ UNCHANGED <<failure, timers>>
    /\ UNCHANGED <<mouse_conn, pairing, keptVars, local, pending_address, security, gatt,
                   references, bonds>>

(* disconnected_work_cb, queued by the callback. *)
DisconnectedHandler ==
    /\ Runs("disconnected")
    /\ pc' = IF mouse_conn = None THEN "idle" ELSE "teardown"
    /\ work_queue' = Rest
    /\ UNCHANGED <<stage, failure, stepVars, scan_wanted, hostVars>>

(* ... auto-connect off, and the bond of a candidate that failed removed ... *)
MutRemovesAnyBond == candidate_bonded
MutRemovesNoBond == FALSE

RemovesCandidateBond == new_candidate /\ candidate_bonded

Teardown ==
    /\ pc = "teardown"
    /\ pc' = "release"
    /\ IF RemovesCandidateBond
       THEN \/ Unpair(mouse_conn)
            \/ "unpair" \in Faults /\ AutoOff(mouse_conn) /\ UNCHANGED bonds
       ELSE AutoOff(mouse_conn) /\ UNCHANGED bonds
    /\ UNCHANGED <<stage, failure, stepVars, scan_wanted, work_queue, security, gatt, references>>

(* What disconnected_work_cb and a failed connected_work_cb do alike: the    *)
(* connection is let go, and the mouse forgotten or looked for again.        *)
LetGo ==
    /\ references' = [references EXCEPT ![mouse_conn] = @ - 1]
    /\ mouse_conn' = None
    /\ failure' = FALSE
    /\ stage' = "IDLE"
    /\ IF forget_requested
       THEN /\ pc' = "forget"
            /\ local' = "retry"
            /\ timers' = timers \ {"timeout"}
            /\ work_queue' = Dequeue(work_queue, "timeout")
            /\ UNCHANGED scan_wanted
       ELSE /\ pc' = "idle"
            /\ RequestRetry(timers \ {"timeout"}, Dequeue(work_queue, "timeout"))
            /\ UNCHANGED local

(* ... and the connection let go; zmk_mouse_output_disconnect is called.     *)
Release ==
    /\ pc = "release"
    /\ candidate_bonded' = FALSE
    /\ LetGo
    /\ UNCHANGED <<pairing, peerVars, connecting_address, new_candidate, attempt_bond, userVars,
                   eventVars, session, pending_address, linkVars, bonds>>

ForgetDone ==
    /\ forget_requested' = FALSE
    /\ pc' = "idle"
    /\ local' = None
    /\ IF local = "retry"
       THEN RequestRetry(timers \ {"pair_timeout"}, Dequeue(work_queue, "pair_timeout"))
       ELSE /\ scan_wanted' = FALSE
            /\ timers' = timers \ {"pair_timeout"}
            /\ work_queue' = Dequeue(work_queue, "pair_timeout")

MutBondKnown == peer \in bonds

have_peer == peer # None

(* forget_peer: the saved mouse is unpaired ...                              *)
Forget ==
    /\ pc = "forget"
    /\ pairing' = FALSE
    /\ IF ~have_peer
       THEN ForgetDone /\ UNCHANGED <<link, auto_connect, bonds>>
       ELSE \/ /\ Unpair(peer)
               /\ pc' = "delete"
               /\ scan_wanted' = FALSE
               /\ timers' = timers \ {"pair_timeout"}
               /\ work_queue' = Dequeue(work_queue, "pair_timeout")
               /\ UNCHANGED <<forget_requested, local>>
            \/ "unpair" \in Faults /\ ForgetDone /\ UNCHANGED <<link, auto_connect, bonds>>
    /\ UNCHANGED <<stage, failure, mouse_conn, peer, saved_peer, candidateVars, userVars,
                   eventVars, session, pending_address, security, gatt, references>>

MutFlashKept ==
    /\ pc = "delete"
    /\ UNCHANGED saved_peer
    /\ peer' = None
    /\ ForgetDone
    /\ UNCHANGED <<stage, failure, mouse_conn, pairing, candidateVars, userVars, eventVars, session,
                   pending_address, hostVars>>

(* ... and its registration deleted; without it if flash fails.              *)
Delete ==
    /\ pc = "delete"
    /\ \/ saved_peer' = None
       \/ "settings" \in Faults /\ UNCHANGED saved_peer
    /\ peer' = None
    /\ ForgetDone
    /\ UNCHANGED <<stage, failure, mouse_conn, pairing, candidateVars, userVars, eventVars,
                   session, pending_address, hostVars>>

--------------------------------------------------------------------------------
(* connect_work_cb and connect_mouse.                                        *)

MayConnect(conn) ==
    /\ mouse_conn = None
    /\ scan_wanted
    /\ IF peer # None THEN conn = peer ELSE pairing /\ conn \notin bonds

NoFreeBond == peer = None /\ Cardinality(bonds) >= MaxPaired

ConnectHandler ==
    /\ Runs("connect")
    /\ work_queue' = Rest
    /\ \/ (* refused, or the scan cannot be stopped *)
          /\ ~MayConnect(pending_address) \/ "stop" \in Faults
          /\ pending_address' = None
          /\ UNCHANGED <<stage, failure, pairing, scan_wanted, candidateVars, session, pc>>
       \/ /\ MayConnect(pending_address) /\ NoFreeBond
          /\ pairing' = FALSE
          /\ scan_wanted' = FALSE
          /\ pending_address' = None
          /\ UNCHANGED <<stage, failure, candidateVars, session, pc>>
       \/ /\ MayConnect(pending_address) /\ ~NoFreeBond
          /\ session' = NoSession
          /\ new_candidate' = (peer = None)
          /\ candidate_bonded' = FALSE
          /\ attempt_bond' = None
          /\ failure' = FALSE
          /\ scan_wanted' = FALSE
          /\ connecting_address' = pending_address
          /\ stage' = "CONNECTING"
          /\ pc' = "auto"
          /\ UNCHANGED <<pairing, pending_address>>
    /\ UNCHANGED <<mouse_conn, peerVars, userVars, eventVars, local, timers, hostVars>>

MutConnectFailedNoRetry ==
    /\ stage' = "IDLE"
    /\ scan_wanted' = FALSE
    /\ pending_address' = None
    /\ pc' = "idle"
    /\ UNCHANGED queueVars

ConnectFailed ==
    /\ stage' = "IDLE"
    /\ RequestRetry(timers, work_queue)
    /\ pending_address' = None
    /\ pc' = "idle"

(* bt_le_set_auto_conn: from now on the link may come up.                    *)
AutoConnect ==
    /\ pc = "auto"
    /\ \/ /\ auto_connect' = auto_connect \cup {pending_address}
          /\ link' = [link EXCEPT ![pending_address] = IF @ = "down" THEN "scan" ELSE @]
          /\ pc' = "lookup"
          /\ UNCHANGED <<stage, scan_wanted, pending_address, queueVars>>
       \/ "auto" \in Faults /\ ConnectFailed /\ UNCHANGED <<link, auto_connect>>
    /\ UNCHANGED <<failure, mouse_conn, pairing, keptVars, local, security, gatt, references,
                   bonds>>

(* bt_conn_lookup_addr_le: the client takes its reference.                   *)
Lookup ==
    /\ pc = "lookup"
    /\ \/ /\ mouse_conn' = pending_address
          /\ references' = [references EXCEPT ![pending_address] = @ + 1]
          /\ timers' = timers \cup {"timeout"}
          /\ pending_address' = None
          /\ pc' = "idle"
          /\ UNCHANGED <<stage, scan_wanted, work_queue, link, auto_connect>>
       \/ /\ "auto" \in Faults
          /\ link[pending_address] = "scan"
          /\ AutoOff(pending_address)
          /\ ConnectFailed
          /\ UNCHANGED <<mouse_conn, references>>
    /\ UNCHANGED <<failure, pairing, keptVars, local, security, gatt, bonds>>

--------------------------------------------------------------------------------
(* connected_work_cb.                                                        *)

(* The event's connection is read ...                                        *)
ConnectedHandler ==
    /\ Runs("connected")
    /\ local' = connected_event_conn
    /\ pc' = "taken"
    /\ work_queue' = Rest
    /\ UNCHANGED <<clientVars, keptVars, pending_address, timers, hostVars>>

MutEventKeepsReference ==
    /\ pc = "taken"
    /\ connected_event_conn' = None
    /\ local' = None
    /\ pc' = IF mouse_conn = None THEN "idle" ELSE "completed"
    /\ UNCHANGED <<clientVars, peerVars, candidateVars, userVars, connected_error, session,
                   pending_address, queueVars, hostVars>>

(* ... and its reference dropped ...                                         *)
EventTaken ==
    /\ pc = "taken"
    /\ connected_event_conn' = None
    /\ references' = [m \in Mice |-> IF m = local THEN references[m] - 1 ELSE references[m]]
    /\ local' = None
    /\ pc' = IF mouse_conn = None THEN "idle" ELSE "completed"
    /\ UNCHANGED <<clientVars, peerVars, candidateVars, userVars, connected_error, session,
                   pending_address, queueVars, linkVars, bonds>>

(* ... auto-connect is turned off; a failed attempt ends here, a cancelled   *)
(* one is disconnected ...                                                   *)
Completed ==
    /\ pc = "completed"
    /\ AutoOff(mouse_conn)
    /\ IF connected_error
       THEN LetGo
       ELSE /\ IF failure \/ stage = "CLOSING"
               THEN Fail(work_queue) /\ pc' = "idle"
               ELSE pc' = "secure" /\ UNCHANGED <<failure, work_queue>>
            /\ UNCHANGED <<stage, mouse_conn, scan_wanted, local, timers, references>>
    /\ UNCHANGED <<pairing, keptVars, pending_address, security, gatt, bonds>>

(* ... the stage is set, whatever a callback made of it since the check ...  *)
Secure ==
    /\ pc = "secure"
    /\ stage' = "SECURITY"
    /\ pc' = "request"
    /\ UNCHANGED <<failure, stepVars, scan_wanted, work_queue, hostVars>>

(* ... bt_conn_set_security ...                                              *)
RequestSecurity ==
    /\ pc = "request"
    /\ \/ /\ link[mouse_conn] = "up"
          /\ security' = [security EXCEPT ![mouse_conn] = IF @ = "none" THEN "requested" ELSE @]
          /\ pc' = "secured"
          /\ UNCHANGED <<failure, work_queue>>
       \/ /\ link[mouse_conn] # "up" \/ "security" \in Faults
          /\ Fail(work_queue)
          /\ pc' = "idle"
          /\ UNCHANGED security
    /\ UNCHANGED <<stage, stepVars, scan_wanted, link, auto_connect, gatt, references, bonds>>

(* ... and the link may be secure already.                                   *)
Secured ==
    /\ pc = "secured"
    /\ pc' = "idle"
    /\ IF security[mouse_conn] \in {"keys", "done"} /\ stage = "SECURITY"
       THEN next_stage("SERVICE", work_queue)
       ELSE UNCHANGED <<stage, work_queue>>
    /\ UNCHANGED <<failure, stepVars, scan_wanted, hostVars>>

--------------------------------------------------------------------------------
(* discovery_work_cb and finish_ready.                                       *)

Reports == session.profile.reports
Count == Len(Reports)

(* The first report from `index` on that is in `wanted`, or the count.       *)
FirstFrom(wanted) ==
    LET ahead == {i \in session.index .. Count - 1 : Reports[i + 1] \in wanted}
    IN  IF ahead = {} THEN Count ELSE CHOOSE i \in ahead : \A j \in ahead : i <= j

Referenced == {r \in {Reports[i] : i \in 1 .. Count} : r.reference}

(* Input reports with a useful layout; only a reference that was read names  *)
(* the report, so that one without a reference is never subscribed.          *)
Useful == {r \in Referenced : r.useful}

(* The request is sent, or refused.                                          *)
Request(kind) ==
    \/ /\ link[mouse_conn] = "up"
       /\ gatt' = [conn |-> mouse_conn, kind |-> kind]
       /\ UNCHANGED <<failure, work_queue>>
    \/ /\ Refused(mouse_conn)
       /\ Fail(work_queue)
       /\ UNCHANGED gatt

DiscoveryHandler ==
    /\ Runs("discovery")
    /\ IF mouse_conn = None \/ failure \/ stage = "CLOSING"
       THEN UNCHANGED <<pc, local>>
       ELSE pc' = "discover" /\ local' = stage
    /\ work_queue' = Rest
    /\ UNCHANGED <<clientVars, keptVars, pending_address, timers, hostVars>>

DiscoverStep(next) ==
    /\ pc = "discover"
    /\ pc' = next
    /\ local' = None
    /\ UNCHANGED <<mouse_conn, pairing, scan_wanted, peerVars, candidateVars, userVars, eventVars,
                   pending_address, timers, link, security, auto_connect, references, bonds>>

(* SERVICE, CHARACTERISTICS, DESCRIPTORS, REPORT_MAP; nothing in the rest.   *)
DiscoverList ==
    /\ DiscoverStep("idle")
    /\ \/ local \in {"SERVICE", "CHARACTERISTICS", "DESCRIPTORS"} /\ Request("discover")
       \/ local = "REPORT_MAP" /\ Request("read")
       \/ local \in {"IDLE", "CONNECTING", "SECURITY", "READY"}
          /\ UNCHANGED <<failure, work_queue, gatt>>
    /\ UNCHANGED <<stage, session>>

(* REPORT_REFERENCES: the map is parsed once, then each reference is read.   *)
DiscoverReferences ==
    /\ DiscoverStep("idle")
    /\ local = "REPORT_REFERENCES"
    /\ IF session.profile.map # "good"
       THEN Fail(work_queue) /\ UNCHANGED <<stage, session, gatt>>
       ELSE IF FirstFrom(Referenced) = Count
       THEN /\ session' = [session EXCEPT !.index = 0]
            /\ next_stage("PROTOCOL", work_queue)
            /\ UNCHANGED <<failure, gatt>>
       ELSE /\ session' = [session EXCEPT !.index = FirstFrom(Referenced)]
            /\ Request("read")
            /\ UNCHANGED stage

(* PROTOCOL: the report protocol is selected, by the means the mouse has.    *)
DiscoverProtocol ==
    /\ DiscoverStep("idle")
    /\ local = "PROTOCOL"
    /\ \/ Refused(mouse_conn) /\ Fail(work_queue) /\ UNCHANGED <<stage, gatt>>
       \/ /\ session.profile.protocol # "write"
          /\ session.profile.protocol = "command" => link[mouse_conn] = "up"
          /\ next_stage("SUBSCRIPTIONS", work_queue)
          /\ UNCHANGED <<failure, gatt>>
       \/ /\ session.profile.protocol = "write"
          /\ Request("write")
          /\ UNCHANGED stage
    /\ UNCHANGED session

(* SUBSCRIPTIONS: the next useful report; its callback may run before `index` *)
(* is compared with the count.                                               *)
DiscoverSubscriptions ==
    /\ DiscoverStep("count")
    /\ local = "SUBSCRIPTIONS"
    /\ session' = [session EXCEPT !.index = FirstFrom(Useful)]
    /\ IF FirstFrom(Useful) = Count
       THEN UNCHANGED <<failure, work_queue, gatt>>
       ELSE IF Reports[FirstFrom(Useful) + 1].ccc
       THEN Request("subscribe")
       ELSE Fail(work_queue) /\ UNCHANGED gatt
    /\ UNCHANGED stage

CandidateNotBonded == new_candidate /\ ~candidate_bonded

(* All subscribed: finish_ready checks what is covered and the bond ...      *)
FinishReady ==
    /\ pc = "count"
    /\ IF session.index # Count
       THEN pc' = "idle" /\ UNCHANGED <<failure, work_queue>>
       ELSE IF session.covered # Needs \/ CandidateNotBonded
       THEN pc' = "idle" /\ Fail(work_queue)
       ELSE /\ pc' = IF new_candidate THEN "save" ELSE "ready"
            /\ UNCHANGED <<failure, work_queue>>
    /\ UNCHANGED <<stage, stepVars, scan_wanted, hostVars>>

MutSaveErrorIgnored ==
    /\ pc = "save"
    /\ mouse_conn \in bonds
    /\ saved_peer' = mouse_conn \/ ("settings" \in Faults /\ UNCHANGED saved_peer)
    /\ pc' = "ready"
    /\ UNCHANGED <<stage, failure, mouse_conn, pairing, scan_wanted, peer, forget_requested,
                   candidateVars, userVars, eventVars, session, local, pending_address, queueVars,
                   hostVars>>

(* ... a new mouse is saved in flash ...                                     *)
SavePeer ==
    /\ pc = "save"
    /\ \/ /\ mouse_conn \in bonds
          /\ saved_peer' = mouse_conn
          /\ pc' = "ready"
          /\ UNCHANGED <<failure, work_queue>>
       \/ /\ mouse_conn \notin bonds \/ "settings" \in Faults
          /\ Fail(work_queue)
          /\ pc' = "idle"
          /\ UNCHANGED saved_peer
    /\ UNCHANGED <<stage, mouse_conn, pairing, scan_wanted, peer, forget_requested, candidateVars,
                   userVars, eventVars, session, local, pending_address, timers, hostVars>>

(* ... and registered, and the client is ready, whatever came in between.    *)
BecomeReady ==
    /\ pc = "ready"
    /\ peer' = mouse_conn
    /\ new_candidate' = FALSE
    /\ attempt_bond' = None
    /\ pairing' = FALSE
    /\ stage' = "READY"
    /\ timers' = timers \ {"pair_timeout", "timeout"}
    /\ work_queue' = Dequeue(Dequeue(work_queue, "pair_timeout"), "timeout")
    /\ pc' = "idle"
    /\ UNCHANGED <<failure, mouse_conn, scan_wanted, saved_peer, forget_requested,
                   connecting_address, candidate_bonded, userVars, eventVars, session, local,
                   pending_address, hostVars>>

--------------------------------------------------------------------------------
Worker ==
    \/ RetryHandler \/ TimeoutHandler \/ PairTimeoutHandler \/ PairHandler \/ ClearHandler
    \/ FailureHandler \/ DisconnectedHandler \/ Teardown \/ Release \/ Forget \/ Delete
    \/ ConnectHandler \/ AutoConnect \/ Lookup
    \/ ConnectedHandler \/ EventTaken \/ Completed \/ Secure \/ RequestSecurity \/ Secured
    \/ DiscoveryHandler \/ DiscoverList \/ DiscoverReferences \/ DiscoverProtocol
    \/ DiscoverSubscriptions \/ FinishReady \/ SavePeer \/ BecomeReady

GattAnswers ==
    \/ \E found \in BOOLEAN, profile \in Profiles : DiscoverCb(found, profile)
    \/ \E ok \in BOOLEAN : ReadCb(ok) \/ WrittenCb(ok) \/ SubscribedCb(ok)

Radio ==
    \/ \E m \in scenario.mice :
        \/ LinkUp(m) \/ LinkRefused(m) \/ LinkLost(m)
        \/ Encrypted(m) \/ PairingStarts(m) \/ PairingEncrypts(m) \/ PairingCompletes(m)
        \/ SecurityFails(m) \/ NotifyEnds(m) \/ Advertises(m)
    \/ GattAnswers

User == \E key \in {"MOUSE_PAIR", "MOUSE_CLEAR"} : Pressed(key) \/ Released(key)

Next ==
    \/ Worker
    \/ Radio
    \/ User
    \/ \E t \in Timers : Expire(t)
    \/ Start
    \/ PowerLoss
    \/ \E d \in scenario.others : OtherPairs(d)

(* The worker is scheduled; armed timers expire; the host completes a        *)
(* cancellation or a disconnection it was asked for.                         *)
(* Nothing is asked of the mouse: it may never answer.                       *)
Fairness ==
    /\ WF_vars(Worker)
    /\ WF_vars(Start)
    /\ \A t \in Timers : WF_vars(Expire(t))
    /\ \A m \in Mice :
        /\ WF_vars(link[m] = "closing" /\ LinkLost(m))
        /\ WF_vars(link[m] = "cancel" /\ LinkRefused(m))

SafeSpec == Init /\ [][Next]_vars

Spec == SafeSpec /\ Fairness

--------------------------------------------------------------------------------
(* Safety.                                                                   *)

(* A bond is only ever removed because Mouse Clear asked for the saved mouse *)
(* to go, or because the attempt under way made it and failed: "existing PC, *)
(* split and saved mouse bonds are preserved" (disconnected_work_cb).        *)
OnlyOwnBondsRemoved ==
    [][\A a \in bonds \ bonds' :
         \/ forget_requested /\ a = peer
         \/ new_candidate /\ a = attempt_bond]_vars

NoPowerLost == budget.power = scenario.budget.power

(* Every bond with a mouse is the registered one's, or the one made by the   *)
(* attempt that still has its connection, and will be removed with it: no    *)
(* failed pairing uses up a bond slot (disconnected_work_cb, forget_peer),   *)
(* unless bt_unpair fails or power is lost.                                  *)
NoOrphanBond ==
    "unpair" \notin Faults /\ NoPowerLost =>
        \A m \in bonds \cap Mice :
            \/ m \in {peer, saved_peer}
            \/ m = mouse_conn /\ RemovesCandidateBond

(* A client that is ready is connected to the mouse it has registered, in    *)
(* flash too, bonded with it, and receives every input it needs, whatever    *)
(* came between the checks of finish_ready and the end of it.                *)
ReadyMeansUsable ==
    stage = "READY" =>
        /\ mouse_conn # None
        /\ mouse_conn = peer
        /\ saved_peer = peer
        /\ peer \in bonds
        /\ session.covered = Needs

(* A mouse is registered only by its own connection, bonded in the attempt   *)
(* under way, inside the pairing window and with no Mouse Clear pending:     *)
(* the end of the window and Clear reach an attempt at every stage.          *)
RegistrationInWindow ==
    [][(started /\ peer = None /\ peer' # None) =>
         /\ pairing /\ ~forget_requested
         /\ peer' = mouse_conn
         /\ peer' = attempt_bond /\ peer' \in bonds]_vars

(* Mouse Clear is done when the bond and the registration are gone, in RAM   *)
(* and, unless settings_delete fails, in flash: the reconnection that a      *)
(* Clear interrupts does not survive it, nor does a registration whose bond  *)
(* an earlier Clear removed before power was lost (forget_peer).  A Clear    *)
(* ends otherwise only if bt_unpair fails or power is lost.                  *)
ClearForgets ==
    [][(forget_requested /\ ~forget_requested' /\ started' /\ "unpair" \notin Faults) =>
         /\ peer' = None /\ peer \notin bonds'
         /\ "settings" \notin Faults => saved_peer' = None]_vars

(* The dts binding of the behavior says that MOUSE_CLEAR clears the mouse's  *)
(* bond (zmk,behavior-ble-mouse.yaml:1), README.md:135 that a stale bond     *)
(* must be cleared explicitly: after a Clear, no mouse is bonded.  A power   *)
(* loss between the bond (pairing_complete_cb) and settings_save_one         *)
(* (finish_ready) leaves a bond that forget_peer, which knows only the       *)
(* registered mouse, cannot reach.                                           *)
ClearRemovesMouseBond ==
    [][(started' /\ forget_requested /\ ~forget_requested') => bonds' \cap Mice = {}]_vars

WorkerBusy == pc # "idle" \/ work_queue # << >>

Ending(conn) == link[conn] \in {"cancel", "closing"}

(* An attempt is never left alone: its timeout is armed, the worker has work *)
(* to do, or the host is ending the connection.  A ready client's link is up *)
(* or the worker will hear of its end (connect_mouse, failure_work_cb,       *)
(* disconnected_cb, finish_ready).  After a bt_conn_disconnect that fails    *)
(* only the end of the link itself is waited for.                            *)
AttemptIsWatched ==
    mouse_conn # None /\ "disconnect" \notin Faults =>
        \/ WorkerBusy \/ Ending(mouse_conn)
        \/ stage # "READY" /\ "timeout" \in timers
        \/ stage = "READY" /\ link[mouse_conn] = "up" /\ ~failure

(* A client with a mouse to find, or a pairing window open, is looking for   *)
(* it or will try again; the window itself always has its end scheduled      *)
(* (request_retry, retry_work_cb, pair_work_cb).  When bt_unpair fails,      *)
(* forget_peer leaves it at that.                                            *)
KeepsLooking ==
    /\ (/\ started /\ mouse_conn = None /\ "unpair" \notin Faults
        /\ IF peer # None THEN peer \in bonds ELSE pairing)
       => scan_wanted \/ "retry" \in timers \/ WorkerBusy
    /\ pairing => "pair_timeout" \in timers \/ WorkerBusy

(* Each connection is referenced once by mouse_conn and once by a connection *)
(* event still to be handled: none leaks, none is dropped while it is used   *)
(* (connect_mouse, connected_cb, connected_work_cb, disconnected_work_cb).   *)
ReferencesBalanced ==
    \A m \in Mice :
        references[m] = Cardinality({<<"mouse_conn", c>> : c \in {mouse_conn} \cap {m}}
                                    \cup {<<"event", c>> : c \in {connected_event_conn} \cap {m}})

(* No link, and no attempt to make one, is left without the client's         *)
(* connection to end it by: what is up, or may come up, is the connection's  *)
(* or about to become it (connect_mouse, connected_work_cb, failure_work_cb).*)
NoStrayLink ==
    \A m \in Mice : link[m] # "down" =>
        \/ m = mouse_conn
        \/ m = pending_address /\ pc = "lookup"

(* Connections are accounted for, on both sides: the host's links by the     *)
(* client's variables, and these by references (connect_mouse, connected_cb, *)
(* disconnected_work_cb); session.index stays inside the session.            *)
ClientInv == TypeOK /\ ReferencesBalanced /\ NoStrayLink

--------------------------------------------------------------------------------
(* Liveness, when bt_conn_disconnect and bt_unpair do what they are asked.   *)

(* Every attempt ends, ready or given up, whatever the mouse does or omits.  *)
AttemptEnds ==
    (mouse_conn # None /\ stage # "READY") ~> (mouse_conn = None \/ stage = "READY")

(* A Clear that was accepted is carried out.                                 *)
ClearEnds == forget_requested ~> ~forget_requested

(* A pairing window closes.                                                  *)
WindowCloses == pairing ~> ~pairing

(* The saved mouse is waited for again, whatever ended its last connection.  *)
Rearms ==
    (started /\ peer \in bonds /\ mouse_conn = None)
        ~> (mouse_conn # None \/ peer \notin bonds)
================================================================================
