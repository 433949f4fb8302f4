-------------------------- MODULE CentralScanProofs --------------------------
(***************************************************************************)
(* Proofs about CentralScan, for any split keyboard, any mice and any      *)
(* choice of failing calls.                                                *)
(*                                                                         *)
(* ScanInd is inductive.  ScanInv speaks of the worker at rest; ScanInd    *)
(* says for every place the worker and the link callbacks may be in what   *)
(* is owed there: who holds the mouse's scan, which reason there is to     *)
(* want or to end it, and who is still to ask the client.                  *)
(***************************************************************************)
EXTENDS CentralScan, SequenceTheorems, TLAPS

(* One at most holds the mouse's scan: the flag, the worker between a call   *)
(* of the host and the flag, or a callback whose stop failed.                *)
OneHolder ==
    /\ scan_owned => scanner = "mouse" /\ pc \notin {"started", "stopping"} /\ rx # "failing"
    /\ pc \in {"started", "stopping"} => scanner = "mouse" /\ rx # "failing"
    /\ rx = "failing" => scanner = "mouse" /\ "stop" \in faults
    /\ scanner = "mouse" => scan_owned \/ pc \in {"started", "stopping"} \/ rx = "failing"

(* The split transport scans for missing halves only; what a callback that   *)
(* waits will report is still to happen.                                     *)
SplitScansForHalves ==
    /\ connected = Halves => scanner # "split"
    /\ (rx # "idle" /\ event.half # None) => (event.half \in connected) = ~event.up

(* connect_work runs.                                                        *)
ConnectRuns ==
    pc \in {"connect", "release", "failed"} \/ (pc \in {"stop", "stopping"} /\ next = "connect")

(* Either connect_work is queued or it runs, never both.                     *)
OneConnect == ConnectingEnds /\ ~(Queued("connect") /\ ConnectRuns)

(* Why the worker is where it is, as far as it decides what is owed after.   *)
WorkerKnows ==
    /\ pc \in {"owned", "start", "started", "recheck"} => scan_wanted
    /\ pc = "recheck" => scan_owned \/ split_settling
    /\ (pc \in {"stop", "stopping"} /\ next = "done") => ~scan_wanted
    /\ pc = "release" => ~scan_wanted
    /\ (pc \in {"connect", "release", "failed"} /\ faults = {}) => ~scan_owned

(* A scan that got under way while a callback waits for the end of another   *)
(* was decided on before, and is about to be stopped again, unless the       *)
(* settling time ended early.                                                *)
LateScanIsEnded ==
    (rx = "stopping" /\ split_settling /\ "stop" \notin faults /\ scan_owned)
        => pc = "recheck" \/ (pc = "stop" /\ next = "later")

ScanInd ==
    /\ TypeOK /\ OneHolder /\ SplitScansForHalves /\ SettlingIsTimed /\ OneConnect
    /\ WorkerKnows /\ LateScanIsEnded /\ ScanComes /\ ScanEnds
--------------------------------------------------------------------------------
(* The work queue.                                                           *)

Has(q, item) == \E i \in 1 .. Len(q) : q[i] = item

Once(q) == q \in Seq(Items) /\ \A i, j \in 1 .. Len(q) : q[i] = q[j] => i = j

LEMMA EnqueueAdds ==
  ASSUME NEW q, Once(q), NEW item \in Items
  PROVE  /\ Once(Enqueue(q, item))
         /\ \A x \in Items : Has(Enqueue(q, item), x) <=> Has(q, x) \/ x = item
<1>1. CASE Has(q, item)
  BY <1>1 DEF Enqueue, Has
<1>2. CASE ~ Has(q, item)
  <2> DEFINE r == Append(q, item)
  <2>0. q \in Seq(Items) /\ Len(q) \in Nat
    BY DEF Once
  <2>1. /\ Enqueue(q, item) = r /\ r \in Seq(Items) /\ Len(r) = Len(q) + 1
        /\ r[Len(q) + 1] = item /\ \A i \in 1 .. Len(q) : r[i] = q[i]
    BY <1>2, <2>0, AppendProperties DEF Enqueue, Has
  <2> HIDE DEF r
  <2>2. \A i \in 1 .. Len(r) : i = Len(q) + 1 \/ i \in 1 .. Len(q)
    BY <2>0, <2>1
  <2>3. Once(r)
    BY <1>2, <2>0, <2>1, <2>2 DEF Once, Has
  <2>4. \A x \in Items : Has(r, x) <=> Has(q, x) \/ x = item
    BY <2>0, <2>1, <2>2 DEF Has
  <2>5. QED
    BY <2>1, <2>3, <2>4
<1>3. QED
  BY <1>1, <1>2

LEMMA TailTakes ==
  ASSUME NEW q, Once(q), q # << >>
  PROVE  /\ Once(Tail(q)) /\ Head(q) \in Items
         /\ \A x \in Items : Has(Tail(q), x) <=> Has(q, x) /\ x # Head(q)
<1> DEFINE r == Tail(q)
<1>1. /\ q \in Seq(Items) /\ Len(q) \in Nat \ {0}
      /\ r \in Seq(Items) /\ Len(r) = Len(q) - 1
      /\ \A i \in 1 .. Len(r) : r[i] = q[i + 1]
      /\ Head(q) = q[1] /\ Head(q) \in Items
  <2>1. q \in Seq(Items) /\ Len(q) \in Nat
    BY DEF Once
  <2>2. /\ Head(q) \in Items /\ r \in Seq(Items) /\ Len(r) = Len(q) - 1
        /\ \A i \in 1 .. Len(r) : r[i] = q[i + 1]
    BY <2>1, HeadTailProperties
  <2>3. Len(q) # 0 /\ Head(q) = q[1]
    BY <2>1, EmptySeq
  <2>4. QED
    BY <2>1, <2>2, <2>3
<1> HIDE DEF r
<1>2. \A i \in 1 .. Len(q) : i = 1 \/ (i - 1 \in 1 .. Len(r) /\ r[i - 1] = q[i])
  BY <1>1
<1>3. \A i \in 1 .. Len(r) : i + 1 \in 1 .. Len(q) /\ i + 1 # 1
  BY <1>1
<1>4. Once(r)
  BY <1>1, <1>3 DEF Once
<1>5. \A x \in Items : Has(r, x) => Has(q, x) /\ x # Head(q)
  BY <1>1, <1>3 DEF Once, Has
<1>6. \A x \in Items : Has(q, x) /\ x # Head(q) => Has(r, x)
  BY <1>1, <1>2 DEF Has
<1>7. QED
  BY <1>1, <1>4, <1>5, <1>6 DEF r

LEMMA HeadIsThere ==
  ASSUME NEW q, Once(q), q # << >>
  PROVE  Has(q, Head(q))
<1>1. q \in Seq(Items) /\ Len(q) \in Nat /\ Len(q) # 0
  BY EmptySeq DEF Once
<1>2. QED
  BY <1>1 DEF Has
(* The queue after an item was added, or the first one taken.                *)
LEMMA QueueTyped ==
  ASSUME TypeOK
  PROVE  Once(queue) /\ \A item \in Items : Queued(item) <=> Has(queue, item)
BY DEF TypeOK, Once, Queued, Has

QueueIs(added, taken) ==
    /\ queue' \in Seq(Items) /\ \A i, j \in 1 .. Len(queue') : queue'[i] = queue'[j] => i = j
    /\ \A item \in Items :
          Queued(item)' <=> (Queued(item) /\ item \notin taken) \/ item \in added

LEMMA QueueAdd ==
  ASSUME TypeOK, NEW item \in Items, queue' = Enqueue(queue, item)
  PROVE  QueueIs({item}, {})
<1>1. Once(queue') /\ \A x \in Items : Has(queue', x) <=> Has(queue, x) \/ x = item
  BY QueueTyped, EnqueueAdds
<1>2. QED
  BY <1>1 DEF QueueIs, Queued, Has, Once

LEMMA QueueAddTwo ==
  ASSUME TypeOK, NEW first \in Items, NEW item \in Items,
         queue' = Enqueue(Enqueue(queue, first), item)
  PROVE  QueueIs({first, item}, {})
<1> DEFINE q == Enqueue(queue, first)
<1>1. Once(q) /\ \A x \in Items : Has(q, x) <=> Has(queue, x) \/ x = first
  BY QueueTyped, EnqueueAdds
<1> HIDE DEF q
<1>2. Once(queue') /\ \A x \in Items : Has(queue', x) <=> Has(q, x) \/ x = item
  BY <1>1, EnqueueAdds DEF q
<1>3. QED
  BY <1>1, <1>2 DEF QueueIs, Queued, Has, Once

LEMMA QueueTake ==
  ASSUME TypeOK, NEW item, Runs(item), queue' = Tail(queue)
  PROVE  QueueIs({}, {item}) /\ item \in Items /\ Queued(item)
BY QueueTyped, TailTakes, HeadIsThere DEF Runs, QueueIs, Queued, Has, Once

LEMMA QueueTakeAdd ==
  ASSUME TypeOK, NEW item, Runs(item), NEW added \in Items, queue' = Enqueue(Tail(queue), added)
  PROVE  QueueIs({added}, {item}) /\ item \in Items /\ Queued(item)
<1> DEFINE q == Tail(queue)
<1>1. Once(q) /\ \A x \in Items : Has(q, x) <=> Has(queue, x) /\ x # item
  BY QueueTyped, TailTakes DEF Runs
<1>2. item \in Items /\ Queued(item)
  BY QueueTyped, TailTakes, HeadIsThere DEF Runs
<1> HIDE DEF q
<1>3. Once(queue') /\ \A x \in Items : Has(queue', x) <=> Has(q, x) \/ x = added
  BY <1>1, EnqueueAdds DEF q
<1>4. QED
  BY <1>1, <1>2, <1>3 DEF QueueIs, Queued, Has, Once

LEMMA QueueSame ==
  ASSUME TypeOK, UNCHANGED queue
  PROVE  QueueIs({}, {})
BY DEF QueueIs, TypeOK, Queued

--------------------------------------------------------------------------------
LEMMA ScanInit == Init => ScanInd
<1> SUFFICES ASSUME Init
             PROVE  ScanInd
  OBVIOUS
<1>1. queue \in Seq(Items) /\ Len(queue) = 0 /\ \A item \in Items : ~ Queued(item)
  BY EmptySeq DEF Init, Queued
<1>2. NoEvent \in Events
  BY DEF NoEvent, Events
<1>3. /\ connecting \in BOOLEAN /\ scan_owned \in BOOLEAN /\ split_settling \in BOOLEAN
      /\ scan_wanted \in BOOLEAN
      /\ ~connecting /\ ~scan_owned /\ ~split_settling /\ ~scan_wanted
  BY DEF Init
<1>4. \A i, j \in 1 .. Len(queue) : queue[i] = queue[j] => i = j
  BY <1>1
<1>5. TypeOK
  BY <1>1, <1>2, <1>3, <1>4 DEF Init, TypeOK
<1>6. QED
  BY <1>1, <1>3, <1>5 DEF Init, ScanInd, OneHolder, SplitScansForHalves, SettlingIsTimed,
     OneConnect, ConnectRuns, ConnectingEnds, WorkerKnows, LateScanIsEnded, ScanComes, ScanEnds,
     LookedAt, NoEvent, Items

(* What a callback or the split transport leaves of the host's scan.         *)
LEMMA SplitCallbackKeeps ==
  ASSUME NEW e \in Events, NEW running \in {"none", "mouse", "split"}, connected \subseteq Halves,
         SplitCallback(e, running)
  PROVE  /\ connected' \subseteq Halves
         /\ scanner' \in {"none", "mouse", "split"}
         /\ scanner' = "mouse" <=> running = "mouse"
         /\ connected' = Halves => scanner' # "split"
BY DEF SplitCallback, Events
--------------------------------------------------------------------------------
LEMMA ScanStep == ScanInd /\ [Next]_vars => ScanInd'
<1> SUFFICES ASSUME ScanInd, [Next]_vars
             PROVE  ScanInd'
  OBVIOUS
<1>0. TypeOK
  BY DEF ScanInd
<1> USE DEF flagVars, queueVars, rxVars, splitVars, QueueIs, ScanInd, OneHolder,
            SplitScansForHalves, SettlingIsTimed, OneConnect, ConnectRuns, ConnectingEnds,
         WorkerKnows, LateScanIsEnded, ScanComes, ScanEnds, LookedAt, Items
<1>1. CASE ScanWork
  <2>1. QueueIs({}, {"scan"})
    BY <1>0, <1>1, QueueTake DEF ScanWork, Runs
  <2>2. TypeOK'
    BY <1>0, <1>1, <2>1 DEF ScanWork, Runs, TypeOK
  <2>3. QED
    BY <1>0, <1>1, <2>1, <2>2 DEF ScanWork, Runs, TypeOK
<1>2. CASE ScanDecide
  <2>1. QueueIs({}, {})
    BY <1>0, <1>2, QueueSame DEF ScanDecide, MayScan, SplitReady
  <2>2. TypeOK'
    BY <1>0, <1>2, <2>1 DEF ScanDecide, MayScan, SplitReady, TypeOK
  <2>3. QED
    BY <1>0, <1>2, <2>1, <2>2 DEF ScanDecide, MayScan, SplitReady, TypeOK
<1>3. CASE ScanOwned
  <2>1. QueueIs({}, {})
    BY <1>0, <1>3, QueueSame DEF ScanOwned
  <2>2. TypeOK'
    BY <1>0, <1>3, <2>1 DEF ScanOwned, TypeOK
  <2>3. QED
    BY <1>0, <1>3, <2>1, <2>2 DEF ScanOwned, TypeOK
<1>4. CASE ScanStart
  <2>1. QueueIs({}, {})
    BY <1>0, <1>4, QueueSame DEF ScanStart, StartRefused, Later
  <2>2. TypeOK'
    BY <1>0, <1>4, <2>1 DEF ScanStart, StartRefused, Later, TypeOK
  <2>3. QED
    BY <1>0, <1>4, <2>1, <2>2 DEF ScanStart, StartRefused, Later, TypeOK
<1>5. CASE ScanStarted
  <2>1. QueueIs({}, {})
    BY <1>0, <1>5, QueueSame DEF ScanStarted
  <2>2. TypeOK'
    BY <1>0, <1>5, <2>1 DEF ScanStarted, TypeOK
  <2>3. QED
    BY <1>0, <1>5, <2>1, <2>2 DEF ScanStarted, TypeOK
<1>6. CASE ScanRecheck
  <2>1. QueueIs({}, {})
    BY <1>0, <1>6, QueueSame DEF ScanRecheck, SplitReady
  <2>2. TypeOK'
    BY <1>0, <1>6, <2>1 DEF ScanRecheck, SplitReady, TypeOK
  <2>3. QED
    BY <1>0, <1>6, <2>1, <2>2 DEF ScanRecheck, SplitReady, TypeOK
<1>7. CASE StopTake
  <2>1. QueueIs({}, {})
    BY <1>0, <1>7, QueueSame DEF StopTake, MayStop, StopReturns, Later
  <2>2. TypeOK'
    BY <1>0, <1>7, <2>1 DEF StopTake, MayStop, StopReturns, Later, TypeOK
  <2>3. QED
    BY <1>0, <1>7, <2>1, <2>2 DEF StopTake, MayStop, StopReturns, Later, TypeOK
<1>8. CASE StopScan
  <2>1. QueueIs({}, {})
    BY <1>0, <1>8, QueueSame DEF StopScan, OwnedAgain, StopReturns, Later
  <2>2. TypeOK'
    BY <1>0, <1>8, <2>1 DEF StopScan, OwnedAgain, StopReturns, Later, TypeOK
  <2>3. CASE scanner' = "none" /\ StopReturns(FALSE) /\ UNCHANGED scan_owned
    <3>1. ~scan_owned /\ scanner' = "none" /\ rx # "failing" /\ pc = "stopping"
      BY <1>8, <2>3 DEF StopScan
    <3>2. \/ next = "connect" /\ pc' = "connect" /\ delayed' = delayed
          \/ next = "later" /\ pc' = "idle" /\ delayed' = delayed \cup {"scan"}
          \/ next = "done" /\ pc' = "idle" /\ delayed' = delayed
      BY <1>0, <2>3 DEF StopReturns, Later, TypeOK
    <3>3. OneHolder' /\ SplitScansForHalves' /\ SettlingIsTimed' /\ WorkerKnows' /\ LateScanIsEnded'
      BY <1>8, <2>1, <2>3, <3>1, <3>2 DEF StopScan
    <3>4. OneConnect'
      BY <1>8, <2>1, <2>3, <3>1, <3>2 DEF StopScan
    <3>5. ScanComes' /\ ScanEnds'
      BY <1>8, <2>1, <2>3, <3>1, <3>2 DEF StopScan
    <3>6. QED
      BY <2>2, <3>3, <3>4, <3>5
  <2>4. CASE "stop" \in faults /\ scan_owned' = OwnedAgain /\ StopReturns(TRUE) /\ UNCHANGED scanner
    <3>1. faults' = faults /\ faults # {} /\ scan_owned' /\ scanner' = "mouse" /\ rx # "failing"
      BY <1>8, <2>4 DEF StopScan, OwnedAgain
    <3>2. QED
      BY <1>0, <1>8, <2>1, <2>2, <2>4, <3>1 DEF StopScan, StopReturns, Later, TypeOK
  <2>5. QED
    BY <1>8, <2>3, <2>4 DEF StopScan
<1>9. CASE SettleWork
  <2>1. QueueIs({"scan"}, {"settle"})
    BY <1>0, <1>9, QueueTakeAdd DEF SettleWork, ScanRefresh, Submit, Runs
  <2>2. TypeOK'
    BY <1>0, <1>9, <2>1 DEF SettleWork, ScanRefresh, Submit, Runs, TypeOK
  <2>3. QED
    BY <1>0, <1>9, <2>1, <2>2 DEF SettleWork, ScanRefresh, Submit, Runs, TypeOK
<1>10. CASE ConnectWork
  <2>1. QueueIs({}, {"connect"}) /\ Queued("connect")
    BY <1>0, <1>10, QueueTake DEF ConnectWork, Runs
  <2>2. TypeOK'
    BY <1>0, <1>10, <2>1 DEF ConnectWork, Runs, TypeOK
  <2>3. QED
    BY <1>0, <1>10, <2>1, <2>2 DEF ConnectWork, Runs, TypeOK
<1>11. CASE Connect
  <2>1. QueueIs({}, {}) \/ (QueueIs({"scan"}, {}) /\ scan_wanted' = FALSE)
    BY <1>0, <1>11, QueueSame, QueueAdd DEF Connect, ScanRefresh, Submit
  <2>2. TypeOK'
    BY <1>0, <1>11, <2>1 DEF Connect, ScanRefresh, Submit, TypeOK
  <2>3. QED
    BY <1>0, <1>11, <2>1, <2>2 DEF Connect, ScanRefresh, Submit, TypeOK
<1>12. CASE ConnectRelease
  <2>1. QueueIs({}, {})
    BY <1>0, <1>12, QueueSame DEF ConnectRelease, ClearConnecting, RetryAfterError, Later
  <2>2. TypeOK'
    <3>1. connecting' \in BOOLEAN
      BY <1>12 DEF ConnectRelease, ClearConnecting
    <3>2. /\ pc' = "idle" /\ delayed' \subseteq {"scan", "settle"}
          /\ UNCHANGED <<scan_owned, split_settling, pending_address, next, rx, event, faults,
                         scan_wanted, scanner, connected>>
      BY <1>0, <1>12 DEF ConnectRelease, RetryAfterError, Later, TypeOK
    <3>3. QED
      BY <1>0, <2>1, <3>1, <3>2 DEF TypeOK
  <2>3. connecting /\ ~Queued("connect") /\ pc \in {"release", "failed"}
    BY <1>12 DEF ConnectRelease
  <2>4. OneConnect'
    <3>1. connecting' \in BOOLEAN /\ ~connecting' /\ pc' = "idle"
      BY <1>12 DEF ConnectRelease, ClearConnecting
    <3>2. ~Queued("connect")'
      BY <2>1, <2>3
    <3>3. QED
      BY <3>1, <3>2
  <2>5. OneHolder' /\ SplitScansForHalves' /\ SettlingIsTimed' /\ WorkerKnows' /\ LateScanIsEnded'
    BY <1>12, <2>1, <2>3 DEF ConnectRelease, RetryAfterError, Later
  <2>6. ScanComes' /\ ScanEnds'
    BY <1>12, <2>1, <2>3 DEF ConnectRelease, RetryAfterError, Later
  <2>7. QED
    BY <2>2, <2>4, <2>5, <2>6
<1>13. ASSUME NEW e \in Events, ConnectionChanged(e)
      PROVE  ScanInd'
  <2>1. QueueIs({}, {})
    BY <1>0, <1>13, QueueSame DEF ConnectionChanged, Possible, NothingToStop, Later
  <2>2. /\ connected' \subseteq Halves /\ scanner' \in {"none", "mouse", "split"}
        /\ (scanner' = "mouse" <=> scanner = "mouse") /\ (connected' = Halves => scanner' # "split")
    BY <1>0, <1>13, SplitCallbackKeeps DEF ConnectionChanged, TypeOK
  <2>3. TypeOK'
    BY <1>0, <1>13, <2>1, <2>2 DEF ConnectionChanged, Possible, NothingToStop, Later, TypeOK
  <2>4. QED
    BY <1>0, <1>13, <2>1, <2>2, <2>3 DEF ConnectionChanged, Possible, NothingToStop, Later, TypeOK
<1>14. ASSUME NEW e \in Events, ConnectionChangedStops(e)
      PROVE  ScanInd'
  <2>1. QueueIs({}, {})
    BY <1>0, <1>14, QueueSame DEF ConnectionChangedStops, Possible, NothingToStop
  <2>2. TypeOK'
    BY <1>0, <1>14, <2>1 DEF ConnectionChangedStops, Possible, NothingToStop, TypeOK
  <2>3. QED
    BY <1>0, <1>14, <2>1, <2>2 DEF ConnectionChangedStops, Possible, NothingToStop, TypeOK
<1>15. CASE ConnectionChangedRest
  <2>1. QueueIs({}, {})
    BY <1>0, <1>15, QueueSame DEF ConnectionChangedRest, SettleLater, Later, NoEvent, Events
  <2>2. /\ connected' \subseteq Halves /\ scanner' \in {"none", "mouse", "split"}
        /\ (scanner' = "mouse" <=> scanner = "mouse") /\ (connected' = Halves => scanner' # "split")
    BY <1>0, <1>15, SplitCallbackKeeps DEF ConnectionChangedRest, TypeOK
  <2>3. TypeOK'
    BY <1>0, <1>15, <2>1, <2>2 DEF ConnectionChangedRest, SettleLater, Later, NoEvent, Events,
       TypeOK
  <2>4. QED
    BY <1>0, <1>15, <2>1, <2>2, <2>3 DEF ConnectionChangedRest, SettleLater, Later, NoEvent,
       Events, TypeOK
<1>16. CASE SplitScan
  <2>1. QueueIs({}, {})
    BY <1>0, <1>16, QueueSame DEF SplitScan
  <2>2. TypeOK'
    BY <1>0, <1>16, <2>1 DEF SplitScan, TypeOK
  <2>3. QED
    BY <1>0, <1>16, <2>1, <2>2 DEF SplitScan, TypeOK
<1>17. ASSUME NEW item \in {"scan", "settle"}, Expire(item)
      PROVE  ScanInd'
  <2>1. QueueIs({item}, {})
    BY <1>0, <1>17, QueueAdd DEF Expire, Submit
  <2>2. TypeOK'
    BY <1>0, <1>17, <2>1 DEF Expire, Submit, TypeOK
  <2>3. QED
    BY <1>0, <1>17, <2>1, <2>2 DEF Expire, Submit, TypeOK
<1>18. ASSUME NEW a \in Addresses \cup {None}, ClientWants(a)
      PROVE  ScanInd'
  <2>1. \/ a # None /\ ~connecting /\ connecting' = TRUE /\ QueueIs({"connect", "scan"}, {})
        \/ connecting' = connecting /\ QueueIs({"scan"}, {})
    BY <1>0, <1>18, QueueAdd, QueueAddTwo DEF ClientWants, ConnectFree, CentralConnect,
       ScanRefresh, Submit
  <2>2. TypeOK'
    BY <1>0, <1>18, <2>1 DEF ClientWants, ConnectFree, CentralConnect, ScanRefresh, Submit, TypeOK
  <2>3. QED
    BY <1>0, <1>18, <2>1, <2>2 DEF ClientWants, ConnectFree, CentralConnect, ScanRefresh, Submit,
       TypeOK
<1>19. CASE ClientStops
  <2>1. QueueIs({"scan"}, {})
    BY <1>0, <1>19, QueueAdd DEF ClientStops, ScanRefresh, Submit
  <2>2. TypeOK'
    BY <1>0, <1>19, <2>1 DEF ClientStops, ScanRefresh, Submit, TypeOK
  <2>3. QED
    BY <1>0, <1>19, <2>1, <2>2 DEF ClientStops, ScanRefresh, Submit, TypeOK
<1>20. CASE ClientFailsToForget
  <2>1. QueueIs({}, {})
    BY <1>0, <1>20, QueueSame DEF ClientFailsToForget
  <2>2. TypeOK'
    BY <1>0, <1>20, <2>1 DEF ClientFailsToForget, TypeOK
  <2>3. QED
    BY <1>0, <1>20, <2>1, <2>2 DEF ClientFailsToForget, TypeOK
<1>21. ASSUME NEW a \in Addresses, Advertisement(a)
      PROVE  ScanInd'
  <2>1. QueueIs({"connect"}, {})
    BY <1>0, <1>21, QueueAdd DEF Advertisement, ConnectFree, CentralConnect, Submit
  <2>2. TypeOK'
    BY <1>0, <1>21, <2>1 DEF Advertisement, ConnectFree, CentralConnect, Submit, TypeOK
  <2>3. QED
    BY <1>0, <1>21, <2>1, <2>2 DEF Advertisement, ConnectFree, CentralConnect, Submit, TypeOK
<1>22. CASE UNCHANGED vars
  <2>1. QueueIs({}, {})
    BY <1>0, <1>22, QueueSame DEF vars
  <2>2. TypeOK'
    BY <1>0, <1>22, <2>1 DEF vars, TypeOK
  <2>3. QED
    BY <1>0, <1>22, <2>1, <2>2 DEF vars, TypeOK
<1>23. QED
  BY <1>1, <1>2, <1>3, <1>4, <1>5, <1>6, <1>7, <1>8, <1>9, <1>10, <1>11, <1>12, <1>13, <1>14,
     <1>15, <1>16, <1>17, <1>18, <1>19, <1>20, <1>21, <1>22 DEF Next, Worker
LEMMA ScanInductive == SafeSpec => []ScanInd
  BY ScanInit, ScanStep, PTL DEF SafeSpec

(* Whatever interleaving there is of the worker, the link callbacks and the  *)
(* client, and whichever calls fail: scan_owned is true of the host's scan,  *)
(* and whatever holds a scan back, or a scan nobody wants, has its end       *)
(* scheduled (scan_work_cb, connect_work_cb, settle_work_cb,                 *)
(* connection_changed).                                                      *)
THEOREM ScanHangsTogether == SafeSpec => []ScanInv
<1>1. ScanInd => ScanInv
  BY DEF ScanInd, ScanInv, OwnershipIsTrue, OneHolder, OneConnect
<1>2. QED
  BY <1>1, ScanInductive, PTL

--------------------------------------------------------------------------------
(* "The module only stops a scan that it started itself" (README.md:250): no *)
(* step of the worker or of connection_changed ends the split transport's    *)
(* scan (stop_own_scan).                                                     *)
THEOREM SplitScanIsLeftAlone == SafeSpec => OnlyOwnScanStopped
<1> DEFINE Left == (scanner = "split" /\ scanner' # "split") =>
                     /\ connected # Halves
                     /\ pc' = pc /\ rx' = "idle"
<1>1. ScanInd /\ [Next]_vars => [Left]_vars
  <2> SUFFICES ASSUME ScanInd, [Next]_vars, scanner = "split", scanner' # "split"
               PROVE  connected # Halves /\ pc' = pc /\ rx' = "idle"
    OBVIOUS
  <2>0. TypeOK /\ OneHolder /\ SplitScansForHalves
    BY DEF ScanInd
  <2> USE DEF rxVars, splitVars
  <2>1. CASE Worker
    BY <2>0, <2>1 DEF Worker, ScanWork, ScanDecide, ScanOwned, ScanStart, ScanStarted, ScanRecheck,
                      StopTake, StopScan, SettleWork, ConnectWork, Connect, ConnectRelease,
                      OneHolder
  <2>2. ASSUME NEW e \in Events, ConnectionChanged(e)
        PROVE  connected # Halves /\ pc' = pc /\ rx' = "idle"
    <3>1. connected' = Halves /\ rx = "idle" /\ rx' = rx /\ pc' = pc
      BY <2>2 DEF ConnectionChanged, Possible, SplitCallback
    <3>2. CASE connected = Halves
      BY <2>0, <3>2 DEF SplitScansForHalves
    <3>3. QED
      BY <3>1, <3>2
  <2>3. ASSUME NEW e \in Events, ConnectionChangedStops(e)
        PROVE  FALSE
    BY <2>0, <2>3 DEF ConnectionChangedStops, NothingToStop, OneHolder
  <2>4. CASE ConnectionChangedRest
    BY <2>0, <2>4 DEF ConnectionChangedRest, SplitScansForHalves
  <2>5. CASE SplitScan
    BY <2>5 DEF SplitScan
  <2>6. QED
    BY <2>1, <2>2, <2>3, <2>4, <2>5
       DEF Next, Expire, ClientWants, ClientStops, ClientFailsToForget, Advertisement, vars
<1>2. QED
  BY <1>1, ScanInductive, PTL DEF SafeSpec, OnlyOwnScanStopped

(* The address handed over is not replaced before the client was asked to    *)
(* connect to it: connecting is set from the moment it is noted until the    *)
(* client has answered (zmk_ble_central_connect, connect_work_cb).           *)
THEOREM AddressStays == SafeSpec => AddressKept
<1> DEFINE Kept == pending_address' # pending_address =>
                     /\ ~Queued("connect")
                     /\ next = "connect" => pc \notin {"stop", "stopping", "connect"}
<1>1. ScanInd /\ [Next]_vars => [Kept]_vars
  <2> SUFFICES ASSUME ScanInd, [Next]_vars, pending_address' # pending_address
               PROVE  ~Queued("connect")
                      /\ (next = "connect" => pc \notin {"stop", "stopping", "connect"})
    OBVIOUS
  <2>1. ~connecting
    BY DEF Next, Worker, ScanWork, ScanDecide, ScanOwned, ScanStart, ScanStarted, ScanRecheck,
           StopTake, StopScan, SettleWork, ConnectWork, Connect, ConnectRelease,
           ConnectionChanged, ConnectionChangedStops, ConnectionChangedRest, SplitScan, Expire,
           ClientWants, ClientStops, ClientFailsToForget, Advertisement, ConnectFree,
           flagVars, vars
  <2>2. QED
    BY <2>1 DEF ScanInd, OneConnect, ConnectingEnds
<1>2. QED
  BY <1>1, ScanInductive, PTL DEF SafeSpec, AddressKept

(* When a half is lost, or joins while another is missing, the split         *)
(* transport gets its scan, but for the races YieldsToSplit names            *)
(* (connection_changed before the split transport's callback).               *)
THEOREM MouseYields == SafeSpec => YieldsToSplit
<1> DEFINE Yields == (connected' # connected /\ connected' # Halves) =>
                       \/ scanner' = "split"
                       \/ StartUnderWay \/ pc = "stopping" \/ SettledEarly \/ "stop" \in faults
<1>1. ScanInd /\ [Next]_vars => [Yields]_vars
  <2> SUFFICES ASSUME ScanInd, [Next]_vars, connected' # connected, connected' # Halves
               PROVE  \/ scanner' = "split"
                      \/ StartUnderWay \/ pc = "stopping" \/ SettledEarly \/ "stop" \in faults
    OBVIOUS
  <2>0. TypeOK /\ OneHolder /\ LateScanIsEnded
    BY DEF ScanInd
  <2>1. CASE scanner # "mouse"
    <3>1. ASSUME NEW e \in Events, SplitCallback(e, scanner)
          PROVE  scanner' = "split"
      BY <2>0, <2>1, <3>1 DEF SplitCallback, TypeOK
    <3>2. QED
      BY <2>0, <3>1 DEF Next, Worker, ScanWork, ScanDecide, ScanOwned, ScanStart, ScanStarted,
           ScanRecheck, StopTake, StopScan, SettleWork, ConnectWork, Connect, ConnectRelease,
           ConnectionChanged, ConnectionChangedStops, ConnectionChangedRest, SplitScan, Expire,
           ClientWants, ClientStops, ClientFailsToForget, Advertisement, splitVars, vars, TypeOK
  <2>2. CASE scanner = "mouse"
    <3>1. \/ \E e \in Events : ConnectionChanged(e)
          \/ ConnectionChangedRest
      BY DEF Next, Worker, ScanWork, ScanDecide, ScanOwned, ScanStart, ScanStarted,
             ScanRecheck, StopTake, StopScan, SettleWork, ConnectWork, Connect, ConnectRelease,
             ConnectionChangedStops, SplitScan, Expire,
             ClientWants, ClientStops, ClientFailsToForget, Advertisement, splitVars, vars
    <3>2. ASSUME NEW e \in Events, ConnectionChanged(e)
          PROVE  pc \in {"started", "stopping"}
      BY <2>0, <2>2, <3>2 DEF ConnectionChanged, Possible, NothingToStop, OneHolder
    <3>3. CASE ConnectionChangedRest
      BY <2>0, <2>2, <3>3
         DEF ConnectionChangedRest, OneHolder, LateScanIsEnded, StartUnderWay, SettledEarly, TypeOK
    <3>4. QED
      BY <3>1, <3>2, <3>3 DEF StartUnderWay
  <2>3. QED
    BY <2>1, <2>2
<1>2. QED
  BY <1>1, ScanInductive, PTL DEF SafeSpec, YieldsToSplit
==============================================================================
