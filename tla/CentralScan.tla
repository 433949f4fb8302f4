------------------------------ MODULE CentralScan ------------------------------
(***************************************************************************)
(* central_scan.c: the mouse's scans, beside those of the split keyboard.  *)
(*                                                                         *)
(* One preemptible worker runs scan_work, settle_work and connect_work,    *)
(* and the client's handlers.  Link callbacks run in a thread the worker   *)
(* cannot preempt, but which waits for the controller inside               *)
(* bt_le_scan_stop; the worker may run then.  The host has one explicit    *)
(* scan at a time: a start is refused while there is one, a stop ends      *)
(* whichever there is.                                                     *)
(*                                                                         *)
(* The definitions named Mut... are slips the code might have had; each    *)
(* replaces the definition after it to see a property fail.                *)
(***************************************************************************)
EXTENDS Naturals, Sequences

CONSTANTS Halves,      \* the peripherals of the split keyboard
          Addresses,   \* mice the client may ask to connect to
          None,
          FaultSets    \* which of bt_le_scan_stop and bt_unpair may fail together

ASSUME ScanAssumption ==
    /\ None \notin Halves \cup Addresses
    /\ FaultSets \subseteq SUBSET {"stop", "unpair"}

VARIABLES
    (* central_scan.c, after zmk_ble_central_scan_init. *)
    connecting, scan_owned, split_settling, pending_address,
    (* The worker: queued items, armed delays, where it is; and what it does *)
    (* once stop_own_scan returns.                                           *)
    queue, delayed, pc, next,
    (* The link callbacks: waiting in bt_le_scan_stop, and for which event.  *)
    rx, event,
    (* The client: zmk_ble_mouse_wants_scan.                                 *)
    scan_wanted,
    (* The host's explicit scan, and the split transport's links.            *)
    scanner, connected,
    (* The calls that may fail in this behaviour; no action changes it.      *)
    faults

flagVars == <<connecting, scan_owned, split_settling, pending_address>>
queueVars == <<queue, delayed>>
rxVars == <<rx, event, faults>>
splitVars == <<scanner, connected>>
vars == <<flagVars, queueVars, pc, next, rxVars, scan_wanted, splitVars>>

Items == {"scan", "settle", "connect"}

(* What happened to which half; None is any other link, the mouse's too.     *)
Events == [half : Halves \cup {None}, up : BOOLEAN]

NoEvent == [half |-> None, up |-> FALSE]

(* Types; what a wait of the callback and of the worker come with.           *)
TypeOK ==
    /\ connecting \in BOOLEAN /\ scan_owned \in BOOLEAN /\ split_settling \in BOOLEAN
    /\ pending_address \in Addresses \cup {None}
    /\ queue \in Seq(Items) /\ \A i, j \in 1 .. Len(queue) : queue[i] = queue[j] => i = j
    /\ delayed \subseteq {"scan", "settle"}
    /\ pc \in {"idle", "decide", "owned", "start", "started", "recheck",
               "stop", "stopping", "connect", "release", "failed"}
    /\ next \in {"done", "later", "connect"}
    /\ rx \in {"idle", "stopping", "failing"}
    /\ event \in Events
    /\ scan_wanted \in BOOLEAN
    /\ scanner \in {"none", "mouse", "split"}
    /\ connected \subseteq Halves
    /\ faults \in FaultSets

Init ==
    /\ connecting = FALSE /\ scan_owned = FALSE /\ split_settling = FALSE
    /\ pending_address = None
    /\ queue = << >> /\ delayed = {} /\ pc = "idle" /\ next = "done"
    /\ rx = "idle" /\ event = NoEvent
    /\ scan_wanted = FALSE
    /\ connected \in SUBSET Halves
    /\ scanner = IF connected = Halves THEN "none" ELSE "split"
    /\ faults \in FaultSets

--------------------------------------------------------------------------------
(* The work queue: an item is queued at most once; one that is queued and    *)
(* rescheduled with a delay runs both now and then.                          *)

Queued(item) == \E i \in 1 .. Len(queue) : queue[i] = item

Enqueue(q, item) == IF \E i \in 1 .. Len(q) : q[i] = item THEN q ELSE Append(q, item)

Submit(q, item) == queue' = Enqueue(q, item)

(* zmk_ble_mouse_schedule with a delay; with none, the delay is dropped.     *)
Later(item) == delayed' = delayed \cup {item}

(* zmk_ble_central_scan_refresh, behind what is queued in q.                 *)
ScanRefresh(q) == Submit(q, "scan") /\ delayed' = delayed \ {"scan"}

Expire(item) ==
    /\ item \in delayed
    /\ delayed' = delayed \ {item}
    /\ Submit(queue, item)
    /\ UNCHANGED <<flagVars, pc, next, rxVars, scan_wanted, splitVars>>

Runs(item) == pc = "idle" /\ queue # << >> /\ Head(queue) = item

--------------------------------------------------------------------------------
(* The split transport.                                                      *)

(* split_ready *)
SplitReady == connected = Halves /\ ~split_settling

(* Its own callback, after connection_changed: it notes the link, and scans  *)
(* while a half is missing, unless the host refuses.                         *)
SplitCallback(e, running) ==
    /\ connected' = IF e.half = None THEN connected
                    ELSE IF e.up THEN connected \cup {e.half} ELSE connected \ {e.half}
    /\ scanner' = IF connected' = Halves THEN (IF running = "split" THEN "none" ELSE running)
                  ELSE IF running = "none" THEN "split" ELSE running

(* It stops to connect to a half it found, and may try again.                *)
SplitScan ==
    /\ rx = "idle"
    /\ connected # Halves
    /\ \/ scanner = "split" /\ scanner' = "none"
       \/ scanner = "none" /\ scanner' = "split"
    /\ UNCHANGED <<flagVars, queueVars, pc, next, rxVars, scan_wanted, connected>>

--------------------------------------------------------------------------------
(* connection_changed, then the split transport's callback.                  *)

Possible(e) ==
    /\ rx = "idle"
    /\ e.half # None => (e.half \in connected) = ~e.up

MutNothingToYield == TRUE

NothingToStop == ~scan_owned

(* No scan of ours to stop: both callbacks run without waiting.              *)
ConnectionChanged(e) ==
    /\ Possible(e)
    /\ NothingToStop
    /\ split_settling' = TRUE
    /\ Later("settle")
    /\ SplitCallback(e, scanner)
    /\ UNCHANGED <<connecting, scan_owned, pending_address, queue, pc, next, rxVars, scan_wanted>>

(* The scan is taken to be stopped, and its end waited for ...               *)
ConnectionChangedStops(e) ==
    /\ Possible(e)
    /\ ~NothingToStop
    /\ split_settling' = TRUE
    /\ scan_owned' = FALSE
    /\ \/ rx' = "stopping" /\ scanner' = "none"
       \/ "stop" \in faults /\ rx' = "failing" /\ UNCHANGED scanner
    /\ event' = e
    /\ UNCHANGED <<connecting, pending_address, queueVars, pc, next, scan_wanted, connected,
                   faults>>

SettleLater == Later("settle")

(* ... then settle_work is scheduled, and the split callback runs.           *)
ConnectionChangedRest ==
    /\ rx # "idle"
    /\ rx' = "idle"
    /\ event' = NoEvent
    /\ scan_owned' = (scan_owned \/ rx = "failing")
    /\ SettleLater
    /\ SplitCallback(event, scanner)
    /\ UNCHANGED <<connecting, split_settling, pending_address, queue, pc, next, scan_wanted,
                   faults>>

(* settle_work_cb *)
SettleWork ==
    /\ Runs("settle")
    /\ split_settling' = FALSE
    /\ ScanRefresh(Tail(queue))
    /\ UNCHANGED <<connecting, scan_owned, pending_address, pc, next, rxVars, scan_wanted,
                   splitVars>>

--------------------------------------------------------------------------------
(* scan_work_cb *)

ScanWork ==
    /\ Runs("scan")
    /\ pc' = IF connecting THEN "idle" ELSE "decide"
    /\ queue' = Tail(queue)
    /\ UNCHANGED <<flagVars, delayed, next, rxVars, scan_wanted, splitVars>>

MutSplitIgnored == scan_wanted

MayScan == scan_wanted /\ SplitReady

ScanDecide ==
    /\ pc = "decide"
    /\ IF MayScan
       THEN pc' = "owned" /\ UNCHANGED next
       ELSE pc' = "stop" /\ next' = IF scan_wanted THEN "later" ELSE "done"
    /\ UNCHANGED <<flagVars, queueVars, rxVars, scan_wanted, splitVars>>

ScanOwned ==
    /\ pc = "owned"
    /\ pc' = IF scan_owned THEN "idle" ELSE "start"
    /\ UNCHANGED <<flagVars, queueVars, next, rxVars, scan_wanted, splitVars>>

StartRefused == Later("scan")

(* bt_le_scan_start *)
ScanStart ==
    /\ pc = "start"
    /\ IF scanner = "none"
       THEN scanner' = "mouse" /\ pc' = "started" /\ UNCHANGED delayed
       ELSE StartRefused /\ pc' = "idle" /\ UNCHANGED scanner
    /\ UNCHANGED <<flagVars, queue, next, rxVars, scan_wanted, connected>>

ScanStarted ==
    /\ pc = "started"
    /\ scan_owned' = TRUE
    /\ pc' = "recheck"
    /\ UNCHANGED <<connecting, split_settling, pending_address, queueVars, next, rxVars,
                   scan_wanted, splitVars>>

ScanRecheck ==
    /\ pc = "recheck"
    /\ IF SplitReady THEN pc' = "idle" /\ UNCHANGED next
                     ELSE pc' = "stop" /\ next' = "later"
    /\ UNCHANGED <<flagVars, queueVars, rxVars, scan_wanted, splitVars>>

--------------------------------------------------------------------------------
(* stop_own_scan in the worker: the ownership is taken, then the scan is     *)
(* stopped; on an error the ownership is put back.                           *)

StopReturns(err) ==
    CASE next = "connect" /\ ~err -> pc' = "connect" /\ UNCHANGED delayed
      [] next = "connect" /\ err -> pc' = "failed" /\ UNCHANGED delayed
      [] next = "later" -> pc' = "idle" /\ Later("scan")
      [] next = "done" -> pc' = "idle" /\ UNCHANGED delayed

MutStopsAnyScan == TRUE

MayStop == scan_owned

StopTake ==
    /\ pc = "stop"
    /\ IF MayStop THEN scan_owned' = FALSE /\ pc' = "stopping" /\ UNCHANGED delayed
                  ELSE StopReturns(FALSE) /\ UNCHANGED scan_owned
    /\ UNCHANGED <<connecting, split_settling, pending_address, queue, next, rxVars, scan_wanted,
                   splitVars>>

MutOwnershipLost == FALSE

OwnedAgain == TRUE

StopScan ==
    /\ pc = "stopping"
    /\ \/ scanner' = "none" /\ StopReturns(FALSE) /\ UNCHANGED scan_owned
       \/ "stop" \in faults /\ scan_owned' = OwnedAgain /\ StopReturns(TRUE) /\ UNCHANGED scanner
    /\ UNCHANGED <<connecting, split_settling, pending_address, queue, next, rxVars, scan_wanted,
                   connected>>

--------------------------------------------------------------------------------
(* zmk_ble_central_connect and connect_work_cb.                              *)

MutConnectAnyway == TRUE

ConnectFree == ~connecting

(* The caller queues connect_work.                                           *)
CentralConnect(a) == connecting' = TRUE /\ pending_address' = a

ConnectWork ==
    /\ Runs("connect")
    /\ pc' = "stop"
    /\ next' = "connect"
    /\ queue' = Tail(queue)
    /\ UNCHANGED <<flagVars, delayed, rxVars, scan_wanted, splitVars>>

(* pending_connect: the client (connect_mouse) connects and stops wanting    *)
(* the scan, refuses, or gives up with a refresh.                            *)
Connect ==
    /\ pc = "connect"
    /\ \/ scan_wanted /\ pc' = "release" /\ scan_wanted' = FALSE /\ UNCHANGED queueVars
       \/ pc' = "failed" /\ scan_wanted' \in {scan_wanted, FALSE} /\ UNCHANGED queueVars
       \/ scan_wanted /\ pc' = "failed" /\ scan_wanted' = FALSE /\ ScanRefresh(queue)
    /\ UNCHANGED <<flagVars, next, rxVars, splitVars>>

ClearConnecting == connecting' = FALSE

MutErrorNotRetried == UNCHANGED delayed

RetryAfterError == Later("scan")

(* connecting is cleared; after an error the scan is looked at again.        *)
ConnectRelease ==
    /\ pc \in {"release", "failed"}
    /\ ClearConnecting
    /\ pc' = "idle"
    /\ IF pc = "failed" THEN RetryAfterError ELSE UNCHANGED delayed
    /\ UNCHANGED <<scan_owned, split_settling, pending_address, queue, next, rxVars,
                   scan_wanted, splitVars>>

--------------------------------------------------------------------------------
(* The client.                                                               *)

(* retry_work_cb, perhaps with a saved mouse to connect to.                  *)
ClientWants(a) ==
    /\ pc = "idle"
    /\ scan_wanted' = TRUE
    /\ IF a # None /\ ConnectFree
       THEN CentralConnect(a) /\ ScanRefresh(Enqueue(queue, "connect"))
       ELSE ScanRefresh(queue) /\ UNCHANGED <<connecting, pending_address>>
    /\ UNCHANGED <<scan_owned, split_settling, pc, next, rxVars, splitVars>>

(* request_retry, forget_peer.                                               *)
ClientStops ==
    /\ pc = "idle"
    /\ scan_wanted' = FALSE
    /\ ScanRefresh(queue)
    /\ UNCHANGED <<flagVars, pc, next, rxVars, splitVars>>

(* forget_peer, when bt_unpair fails: it returns without a refresh.          *)
ClientFailsToForget ==
    /\ pc = "idle"
    /\ "unpair" \in faults
    /\ scan_wanted' = FALSE
    /\ UNCHANGED <<flagVars, queueVars, pc, next, rxVars, splitVars>>

(* advertisement: the mouse is seen, in the link callbacks' thread.          *)
Advertisement(a) ==
    /\ rx = "idle"
    /\ scanner = "mouse"
    /\ scan_wanted
    /\ ConnectFree
    /\ CentralConnect(a)
    /\ Submit(queue, "connect")
    /\ UNCHANGED <<scan_owned, split_settling, delayed, pc, next, rxVars, scan_wanted, splitVars>>

--------------------------------------------------------------------------------
Worker ==
    \/ ScanWork \/ ScanDecide \/ ScanOwned \/ ScanStart \/ ScanStarted \/ ScanRecheck
    \/ StopTake \/ StopScan \/ SettleWork
    \/ ConnectWork \/ Connect \/ ConnectRelease

Next ==
    \/ Worker
    \/ \E e \in Events : ConnectionChanged(e) \/ ConnectionChangedStops(e)
    \/ ConnectionChangedRest
    \/ SplitScan
    \/ \E item \in {"scan", "settle"} : Expire(item)
    \/ \E a \in Addresses \cup {None} : ClientWants(a)
    \/ ClientStops \/ ClientFailsToForget
    \/ \E a \in Addresses : Advertisement(a)

(* The worker is scheduled, delays pass, the controller answers a stop.      *)
Fairness ==
    /\ WF_vars(Worker)
    /\ \A item \in {"scan", "settle"} : WF_vars(Expire(item))
    /\ WF_vars(ConnectionChangedRest)

SafeSpec == Init /\ [][Next]_vars

Spec == SafeSpec /\ Fairness

--------------------------------------------------------------------------------
(* Safety.                                                                   *)

(* scan_owned means that the scan under way is the mouse's; and a scan of    *)
(* the mouse is known as such, or the worker is about to say so or to stop   *)
(* it: none runs on with nobody to stop it (stop_own_scan, scan_work_cb).    *)
OwnershipIsTrue ==
    /\ scan_owned => scanner = "mouse"
    /\ scanner = "mouse" => scan_owned \/ pc \in {"started", "stopping"} \/ rx = "failing"

(* "The module only stops a scan that it started itself" (README.md:250):    *)
(* no step of the worker or of connection_changed ends the split transport's *)
(* scan, however a stop interleaves with link changes (stop_own_scan).       *)
OnlyOwnScanStopped ==
    [][(scanner = "split" /\ scanner' # "split") =>
         /\ connected # Halves
         /\ pc' = pc /\ rx' = "idle"]_vars

(* The settling time always ends: settle_work is queued or will be, or the   *)
(* callback that schedules it waits (connection_changed, settle_work_cb).    *)
SettlingIsTimed ==
    split_settling => "settle" \in delayed \/ Queued("settle") \/ rx # "idle"

LookedAt == "scan" \in delayed \/ Queued("scan") \/ split_settling

(* A wanted scan that is not running is always looked at again: no path      *)
(* through scan_work_cb or connect_work_cb ends, whatever failed in it,      *)
(* without another run of scan_work (or of settle_work) to come.             *)
ScanComes == (pc = "idle" /\ ~connecting /\ scan_wanted /\ ~scan_owned) => LookedAt

(* A running scan that is no longer wanted is, too.  When bt_le_scan_stop    *)
(* fails, or bt_unpair in forget_peer, nothing is scheduled and the scan     *)
(* runs on until a link changes: this is about calls that do not fail.       *)
ScanEnds ==
    (faults = {} /\ pc = "idle" /\ ~connecting /\ scan_owned /\ ~scan_wanted) => LookedAt

(* connecting holds back the scans only while connect_work is to come or     *)
(* runs: no error in it leaves the flag set (zmk_ble_central_connect,        *)
(* connect_work_cb).                                                         *)
ConnectingEnds ==
    connecting <=> \/ Queued("connect")
                   \/ pc \in {"connect", "release", "failed"}
                   \/ pc \in {"stop", "stopping"} /\ next = "connect"

StartUnderWay == pc \in {"started", "recheck"} \/ (pc \in {"stop", "stopping"} /\ next = "later")

(* An older settle_work ended the settling time while the callback waited.   *)
SettledEarly == rx # "idle" /\ ~split_settling

(* When a half is lost, or joins while another is missing, the split         *)
(* transport gets its scan: the mouse's was yielded before, unless the       *)
(* worker was in the middle of starting or stopping it, or started it again  *)
(* because the settling time had ended early, or the scan cannot be stopped. *)
YieldsToSplit ==
    [][(connected' # connected /\ connected' # Halves) =>
         \/ scanner' = "split"
         \/ StartUnderWay \/ pc = "stopping" \/ SettledEarly \/ "stop" \in faults]_vars

(* README.md:254: the observer relies on the callbacks' order "to yield an   *)
(* owned pairing scan before the split disconnect callback"; only a scan     *)
(* start racing the disconnection is left open.  A stop under way in the     *)
(* worker has taken the ownership and not yet ended the scan: the callback   *)
(* finds nothing to stop, and the split transport's start is refused.        *)
YieldsBeforeSplit ==
    [][(connected' # connected /\ connected' # Halves) =>
         scanner' = "split" \/ StartUnderWay]_vars

(* The address handed over is not replaced before the client was asked to    *)
(* connect to it (zmk_ble_central_connect, connect_work_cb).                 *)
AddressKept ==
    [][pending_address' # pending_address =>
         ~Queued("connect") /\ (next = "connect" => pc \notin {"stop", "stopping", "connect"})]_vars

(* The state of the scan hangs together: ownership is true, and whatever     *)
(* holds a scan back, or a scan nobody wants, has its end scheduled          *)
(* (scan_work_cb, connect_work_cb, settle_work_cb, connection_changed).      *)
ScanInv ==
    TypeOK /\ OwnershipIsTrue /\ SettlingIsTimed /\ ConnectingEnds /\ ScanComes /\ ScanEnds

--------------------------------------------------------------------------------
(* Liveness.                                                                 *)

(* A scan of the mouse that is in the way of a missing half ends, if it can  *)
(* be stopped.                                                               *)
SplitServed ==
    (scanner = "mouse" /\ connected # Halves /\ "stop" \notin faults)
        ~> (scanner # "mouse" \/ connected = Halves)

(* A scan that stays wanted, with the keyboard connected and settled, comes. *)
MouseServed ==
    <>[](scan_wanted /\ SplitReady /\ ~connecting) => []<>(scanner = "mouse")
================================================================================
