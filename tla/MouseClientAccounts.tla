-------------------------- MODULE MouseClientAccounts ---------------------------
(***************************************************************************)
(* Accounts, an invariant of MouseClient, and that no step of the worker   *)
(* breaks it.  MouseClientProofs has the other steps and the theorems.     *)
(*                                                                         *)
(* Its parts say who holds a connection between the steps of a split       *)
(* handler, what is still queued for it and in which order, and what the   *)
(* host's links, the connection event and the GATT request owe each other  *)
(* meanwhile.  None of them is inductive without the others.               *)
(***************************************************************************)
EXTENDS MouseClient, FiniteSetTheorems, SequenceTheorems, WellFoundedInduction, TLAPS

(* The worker, between two steps of connect_mouse, of a handler that has the *)
(* client's connection, and of forget_peer.                                  *)
Connecting == pc \in {"auto", "lookup"}

Finishing == pc \in {"discover", "count", "save", "ready"}

TearingDown == pc \in {"teardown", "release"}

Forgetting == pc \in {"forget", "delete"}

Attempt == mouse_conn # None \/ Connecting

(* Stages that are reached by an answer.                                     *)
EarlyStages == {"CONNECTING", "SECURITY"}

LateStages == {"SERVICE", "CHARACTERISTICS", "DESCRIPTORS", "REPORT_MAP", "REPORT_REFERENCES",
               "PROTOCOL", "SUBSCRIPTIONS", "READY"}

(* A connection event is on its way to connected_work_cb's decision.         *)
EventOnWay == connected_event_conn # None \/ pc = "completed"

--------------------------------------------------------------------------------
(* The work queue: an item once at most, and in an order that the handlers   *)
(* rely on.                                                                  *)

Once(q) == q \in Seq(Handlers) /\ \A i, j \in 1 .. Len(q) : q[i] = q[j] => i = j

Before(q, a, b) == \A i, j \in 1 .. Len(q) : q[i] = a /\ q[j] = b => i < j

QueueOrder ==
    /\ Before(work_queue, "connected", "disconnected")
    /\ Before(work_queue, "connected", "connect")
    /\ Before(work_queue, "disconnected", "connect")
    /\ Before(work_queue, "discovery", "connect")
    /\ Before(work_queue, "failure", "connect")

(* connect_mouse has the worker, and an address that nobody else uses.       *)
ConnectingHolds ==
    /\ Connecting =>
        /\ pending_address # None /\ mouse_conn = None
        /\ stage = "CONNECTING" /\ connecting_address = pending_address /\ ~failure
        /\ ~scan_wanted
        /\ ~Queued("disconnected") /\ ~Queued("discovery") /\ ~Queued("failure")
    /\ pc = "auto" => connected_event_conn = None
    /\ pending_address # None <=> Queued("connect") \/ Connecting
    /\ ~(Queued("connect") /\ Connecting)

(* The client's connection, once and only once it has one.                   *)
ConnectionHolds ==
    /\ (Finishing \/ TearingDown \/ pc \in {"completed", "secure", "request", "secured"})
          => mouse_conn # None
    /\ Forgetting => mouse_conn = None
    /\ mouse_conn # None => pending_address = None /\ ~scan_wanted /\ stage # "IDLE"
    /\ mouse_conn = None => stage \in {"IDLE", "CONNECTING"}

EventAccounted ==
    /\ connected_event_conn # None <=> Queued("connected") \/ pc = "taken"
    /\ ~(Queued("connected") /\ pc = "taken")
    /\ pc = "taken" => local = connected_event_conn
    /\ (connected_event_conn # None /\ mouse_conn # None) => connected_event_conn = mouse_conn
    /\ (connected_event_conn # None /\ pc = "lookup") => connected_event_conn = pending_address

(* What the host does to a link is what connected_work_cb or                 *)
(* disconnected_work_cb is about to hear of.                                 *)
LinksAccounted ==
    /\ \A m \in auto_connect : m = mouse_conn \/ (m = pending_address /\ pc = "lookup")
    /\ pc = "lookup" => link[pending_address] \in {"scan", "up"} /\ pending_address \in auto_connect
    /\ (Queued("disconnected") /\ mouse_conn # None) =>
        /\ link[mouse_conn] \in {"down", "scan"}
        /\ link[mouse_conn] = "scan" \/ mouse_conn \in auto_connect => EventOnWay
    /\ \A m \in auto_connect : link[m] \in {"up", "closing"} => EventOnWay
    /\ TearingDown => link[mouse_conn] = "down" /\ mouse_conn \notin auto_connect
    /\ (EventOnWay /\ mouse_conn # None) => link[mouse_conn] # "cancel"
    /\ connected_error =>
        /\ connected_event_conn # None =>
             link[connected_event_conn] \in {"down", "scan"} /\ ~Queued("disconnected")
        /\ pc = "completed" => link[mouse_conn] \in {"down", "scan"} /\ ~Queued("disconnected")
    /\ pc = "completed" => connected_event_conn = None
    /\ \A m \in Mice : link[m] \notin {"up", "closing"} => security[m] = "none"

(* An attempt's link is settled from connected_work_cb's check on.           *)
LinkSettled ==
    /\ (EventOnWay /\ mouse_conn # None) \/ pc = "secure" => stage \in {"CONNECTING", "CLOSING"}
    /\ (mouse_conn # None /\ (stage \in LateStages \cup {"SECURITY"} \/ Finishing
                              \/ pc \in {"secure", "request", "secured"})) =>
        /\ mouse_conn \notin auto_connect
        /\ link[mouse_conn] \in {"up", "closing", "down"}
        /\ connected_event_conn = None

(* Discovery does one thing at a time: a request is under way, or its next   *)
(* step is queued, or runs.                                                  *)
OneRequest ==
    /\ gatt # NoRequest =>
        /\ gatt.conn = mouse_conn
        /\ link[mouse_conn] \in {"up", "closing"}
        /\ ~Queued("discovery") /\ pc # "discover"
        /\ pc = "count" => gatt.kind = "subscribe"
        /\ gatt.kind = "subscribe" =>
             stage \in {"SUBSCRIPTIONS", "CLOSING"} /\ session.index < Len(session.profile.reports)
        /\ (gatt.kind = "read" /\ stage = "REPORT_REFERENCES")
             => session.index < Len(session.profile.reports)
    /\ ~(Queued("discovery") /\ pc = "discover")
    /\ (stage \in EarlyStages \/ pc = "secure") =>
        gatt = NoRequest /\ ~Queued("discovery") /\ ~Finishing
    /\ pc = "discover" => local = stage \/ stage = "CLOSING"
    /\ pc \in {"save", "ready"} \/ stage = "READY" => gatt = NoRequest
    /\ stage \in {"CONNECTING", "SECURITY", "SERVICE", "CHARACTERISTICS"} \/ pc = "secure"
        => session.index = 0

(* The types, in groups.                                                     *)
Flags ==
    /\ failure \in BOOLEAN /\ pairing \in BOOLEAN /\ scan_wanted \in BOOLEAN
    /\ new_candidate \in BOOLEAN /\ candidate_bonded \in BOOLEAN /\ forget_requested \in BOOLEAN
    /\ clear_held \in BOOLEAN /\ started \in BOOLEAN /\ connected_error \in BOOLEAN

Devices ==
    /\ mouse_conn \in Mice \cup {None} /\ peer \in Mice \cup {None}
    /\ connecting_address \in Mice \cup {None} /\ connected_event_conn \in Mice \cup {None}
    /\ pending_address \in Mice \cup {None} /\ saved_peer \in Mice \cup {None}
    /\ attempt_bond \in Mice \cup {None}

WorkerTypes ==
    /\ stage \in Stages
    /\ work_queue \in Seq(Handlers)
    /\ timers \subseteq Timers
    /\ pc \in {"idle", "auto", "lookup", "taken", "completed", "secure", "request", "secured",
               "discover", "count", "save", "ready", "teardown", "release", "forget", "delete"}
    /\ local \in Mice \cup Stages \cup {"retry", None}

HostTypes ==
    /\ link \in [Mice -> Links]
    /\ security \in [Mice -> Securities]
    /\ auto_connect \subseteq Mice
    /\ gatt \in [conn : Mice, kind : {"discover", "read", "write", "subscribe"}] \cup {NoRequest}
    /\ references \in [Mice -> Nat]
    /\ bonds \subseteq Addresses

Given ==
    /\ session \in [profile : Profiles \cup {NoProfile}, index : Nat, covered : SUBSET Needs]
    /\ session.index <= Len(session.profile.reports)
    /\ scenario \in Scenarios
    /\ budget \in [pair : Nat, clear : Nat, power : Nat]

(* What references has to be: ReferencesBalanced without sets.               *)
Held(m) ==
    (IF m = mouse_conn THEN 1 ELSE 0) + (IF m = connected_event_conn THEN 1 ELSE 0)

Balanced == \A m \in Mice : references[m] = Held(m)

Accounts ==
    /\ TypeOK /\ Balanced /\ NoStrayLink /\ Once(work_queue) /\ QueueOrder
    /\ ConnectingHolds /\ ConnectionHolds /\ EventAccounted /\ LinksAccounted
    /\ LinkSettled /\ OneRequest

--------------------------------------------------------------------------------
(* The operations on the queue.  Becomes(q, r, added, taken): r is q after    *)
(* some items were taken and others added behind.                            *)

Becomes(q, r, added, taken) ==
    /\ Once(r)
    /\ \A x \in Handlers : Holds(r, x) <=> (Holds(q, x) /\ x \notin taken) \/ x \in added
    /\ \A a, b \in Handlers :
         Before(q, a, b) /\ (a \notin added \/ (~Holds(q, b) /\ b \notin added)) => Before(r, a, b)

LEMMA EnqueueBecomes ==
  ASSUME NEW q, Once(q), NEW item \in Handlers
  PROVE  Becomes(q, Enqueue(q, item), {item}, {})
<1>1. CASE Holds(q, item)
  BY <1>1 DEF Enqueue, Holds, Becomes
<1>2. CASE ~ Holds(q, item)
  <2> DEFINE r == Append(q, item)
  <2>0. q \in Seq(Handlers) /\ Len(q) \in Nat
    BY DEF Once
  <2>1. /\ Enqueue(q, item) = r /\ r \in Seq(Handlers) /\ Len(r) = Len(q) + 1
        /\ r[Len(q) + 1] = item /\ \A i \in 1 .. Len(q) : r[i] = q[i]
    BY <1>2, <2>0, AppendProperties DEF Enqueue, Holds
  <2> HIDE DEF r
  <2>2. \A i \in 1 .. Len(r) : i = Len(q) + 1 \/ i \in 1 .. Len(q)
    BY <2>0, <2>1
  <2>3. Once(r)
    BY <1>2, <2>0, <2>1, <2>2 DEF Once, Holds
  <2>4. \A x \in Handlers : Holds(r, x) <=> Holds(q, x) \/ x = item
    BY <2>0, <2>1, <2>2 DEF Holds
  <2>5. ASSUME NEW a \in Handlers, NEW b \in Handlers, Before(q, a, b),
               a # item \/ (~Holds(q, b) /\ b # item)
        PROVE  Before(r, a, b)
    BY <1>2, <2>0, <2>1, <2>2, <2>5 DEF Before, Holds
  <2>6. QED
    BY <2>1, <2>3, <2>4, <2>5 DEF Becomes
<1>3. QED
  BY <1>1, <1>2

LEMMA TailBecomes ==
  ASSUME NEW q, Once(q), q # << >>
  PROVE  /\ Becomes(q, Tail(q), {}, {Head(q)})
         /\ Head(q) \in Handlers /\ Holds(q, Head(q))
         /\ \A a \in Handlers : Before(q, a, Head(q)) => ~Holds(q, a)
<1> DEFINE r == Tail(q)
<1>1. /\ q \in Seq(Handlers) /\ Len(q) \in Nat \ {0}
      /\ r \in Seq(Handlers) /\ Len(r) = Len(q) - 1
      /\ \A i \in 1 .. Len(r) : r[i] = q[i + 1]
      /\ Head(q) = q[1] /\ Head(q) \in Handlers
  <2>1. q \in Seq(Handlers) /\ Len(q) \in Nat
    BY DEF Once
  <2>2. /\ Head(q) \in Handlers /\ r \in Seq(Handlers) /\ Len(r) = Len(q) - 1
        /\ \A i \in 1 .. Len(r) : r[i] = q[i + 1]
    BY <2>1, HeadTailProperties
  <2>3. Len(q) # 0 /\ Head(q) = q[1]
    BY <2>1, EmptySeq
  <2>4. QED
    BY <2>1, <2>2, <2>3
<1> HIDE DEF r
<1>2. \A i \in 1 .. Len(q) : i = 1 \/ (i - 1 \in 1 .. Len(r) /\ r[i - 1] = q[i])
  BY <1>1
<1>3. \A i \in 1 .. Len(r) : i + 1 \in 1 .. Len(q) /\ i + 1 # 1
  BY <1>1
<1>4. Once(r)
  BY <1>1, <1>3 DEF Once
<1>5. \A x \in Handlers : Holds(r, x) => Holds(q, x) /\ x # Head(q)
  BY <1>1, <1>3 DEF Once, Holds
<1>6. \A x \in Handlers : Holds(q, x) /\ x # Head(q) => Holds(r, x)
  BY <1>1, <1>2 DEF Holds
<1>7. \A a, b \in Handlers : Before(q, a, b) => Before(r, a, b)
  BY <1>1, <1>3 DEF Before
<1>8. Holds(q, Head(q)) /\ \A a \in Handlers : Before(q, a, Head(q)) => ~Holds(q, a)
  BY <1>1 DEF Before, Holds
<1>9. QED
  BY <1>1, <1>4, <1>5, <1>6, <1>7, <1>8 DEF r, Becomes

LEMMA DequeueBecomes ==
  ASSUME NEW q, Once(q), NEW item \in Handlers
  PROVE  Becomes(q, Dequeue(q, item), {}, {item})
<1>1. CASE Holds(q, item)
  <2> DEFINE at == CHOOSE i \in 1 .. Len(q) : q[i] = item
             r == [i \in 1 .. Len(q) - 1 |-> IF i < at THEN q[i] ELSE q[i + 1]]
  <2>0. q \in Seq(Handlers) /\ Len(q) \in Nat /\ at \in 1 .. Len(q) /\ q[at] = item
    BY <1>1 DEF Once, Holds
  <2>1. Dequeue(q, item) = r
    BY <1>1 DEF Dequeue
  <2> HIDE DEF at
  <2>2. /\ r \in Seq(Handlers) /\ Len(r) = Len(q) - 1
        /\ \A i \in 1 .. Len(r) : r[i] = IF i < at THEN q[i] ELSE q[i + 1]
    BY <2>0
  <2> HIDE DEF r
  <2>3. \A i \in 1 .. Len(r) : i \in 1 .. Len(q) /\ i + 1 \in 1 .. Len(q)
    BY <2>0, <2>2
  <2>4. Once(r)
    BY <2>0, <2>2, <2>3 DEF Once
  <2>5. ASSUME NEW x \in Handlers
        PROVE  Holds(r, x) <=> Holds(q, x) /\ x # item
    <3>1. Holds(r, x) => Holds(q, x) /\ x # item
      BY <2>0, <2>2, <2>3 DEF Once, Holds
    <3>2. ASSUME NEW i \in 1 .. Len(q), q[i] = x, x # item
          PROVE  Holds(r, x)
      <4>1. CASE i < at
        BY <2>0, <2>2, <3>2, <4>1 DEF Holds
      <4>2. CASE i > at
        <5>1. i - 1 \in 1 .. Len(r) /\ r[i - 1] = x
          BY <2>0, <2>2, <3>2, <4>2
        <5>2. QED
          BY <5>1 DEF Holds
      <4>3. QED
        BY <2>0, <3>2, <4>1, <4>2
    <3>3. QED
      BY <3>1, <3>2 DEF Holds
  <2>6. \A a, b \in Handlers : Before(q, a, b) => Before(r, a, b)
    <3> SUFFICES ASSUME NEW a \in Handlers, NEW b \in Handlers, Before(q, a, b),
                        NEW i \in 1 .. Len(r), NEW j \in 1 .. Len(r), r[i] = a, r[j] = b
                 PROVE  i < j
      BY DEF Before
    <3>1. PICK k \in {i, i + 1} : k = IF i < at THEN i ELSE i + 1
      OBVIOUS
    <3>2. PICK l \in {j, j + 1} : l = IF j < at THEN j ELSE j + 1
      OBVIOUS
    <3>3. q[k] = a /\ q[l] = b /\ k \in 1 .. Len(q) /\ l \in 1 .. Len(q)
      BY <2>2, <2>3, <3>1, <3>2
    <3>4. k < l
      BY <3>3 DEF Before
    <3>5. QED
      BY <2>0, <3>1, <3>2, <3>4
  <2>7. QED
    BY <2>1, <2>4, <2>5, <2>6 DEF Becomes
<1>2. CASE ~ Holds(q, item)
  BY <1>2 DEF Dequeue, Becomes
<1>3. QED
  BY <1>1, <1>2

LEMMA BecomesThenAdds ==
  ASSUME NEW q, NEW r, NEW s, NEW added, NEW taken, NEW more,
         Becomes(q, r, added, taken), Becomes(r, s, more, {})
  PROVE  Becomes(q, s, added \cup more, taken)
BY DEF Becomes

LEMMA TakesThenTakes ==
  ASSUME NEW q, NEW r, NEW s, NEW taken, NEW more,
         Becomes(q, r, {}, taken), Becomes(r, s, {}, more)
  PROVE  Becomes(q, s, {}, taken \cup more)
BY DEF Becomes

(* The same, of the queue of the worker.                                     *)
QueueIs(added, taken) ==
    /\ Once(work_queue')
    /\ \A x \in Handlers : Queued(x)' <=> (Queued(x) /\ x \notin taken) \/ x \in added
    /\ \A a, b \in Handlers :
         Before(work_queue, a, b) /\ (a \notin added \/ (~Queued(b) /\ b \notin added))
           => Before(work_queue, a, b)'

LEMMA QueueKept ==
  ASSUME Once(work_queue), work_queue' = work_queue
  PROVE  QueueIs({}, {})
BY DEF QueueIs, Queued

LEMMA QueueAdd ==
  ASSUME Once(work_queue), NEW x \in Handlers, work_queue' = Enqueue(work_queue, x)
  PROVE  QueueIs({x}, {})
<1>1. Becomes(work_queue, work_queue', {x}, {})
  BY EnqueueBecomes
<1>2. QED
  BY <1>1 DEF Becomes, QueueIs, Queued

LEMMA QueueAddTwo ==
  ASSUME Once(work_queue), NEW x \in Handlers, NEW y \in Handlers,
         work_queue' = Enqueue(Enqueue(work_queue, x), y)
  PROVE  QueueIs({x, y}, {})
<1> DEFINE q == Enqueue(work_queue, x)
<1>1. Becomes(work_queue, q, {x}, {})
  BY EnqueueBecomes
<1> HIDE DEF q
<1>2. Becomes(q, work_queue', {y}, {})
  BY <1>1, EnqueueBecomes DEF Becomes, q
<1>3. Becomes(work_queue, work_queue', {x} \cup {y}, {})
  BY <1>1, <1>2, BecomesThenAdds
<1>4. {x} \cup {y} = {x, y}
  OBVIOUS
<1>5. QED
  BY <1>3, <1>4 DEF Becomes, QueueIs, Queued

LEMMA QueueDrop ==
  ASSUME Once(work_queue), NEW x \in Handlers, work_queue' = Dequeue(work_queue, x)
  PROVE  QueueIs({}, {x})
<1>1. Becomes(work_queue, work_queue', {}, {x})
  BY DequeueBecomes
<1>2. QED
  BY <1>1 DEF Becomes, QueueIs, Queued

LEMMA QueueDropTwo ==
  ASSUME Once(work_queue), NEW x \in Handlers, NEW y \in Handlers,
         work_queue' = Dequeue(Dequeue(work_queue, x), y)
  PROVE  QueueIs({}, {x, y})
<1> DEFINE q == Dequeue(work_queue, x)
<1>1. Becomes(work_queue, q, {}, {x})
  BY DequeueBecomes
<1> HIDE DEF q
<1>2. Becomes(q, work_queue', {}, {y})
  BY <1>1, DequeueBecomes DEF Becomes, q
<1>3. Becomes(work_queue, work_queue', {}, {x} \cup {y})
  BY <1>1, <1>2, TakesThenTakes
<1>4. {x} \cup {y} = {x, y}
  OBVIOUS
<1>5. QED
  BY <1>3, <1>4 DEF Becomes, QueueIs, Queued

(* A handler that starts was queued, and is behind nothing.                  *)
LEMMA QueueHead ==
  ASSUME Once(work_queue), NEW item, Runs(item)
  PROVE  /\ pc = "idle" /\ item \in Handlers /\ Queued(item)
         /\ \A a \in Handlers : Before(work_queue, a, item) => ~Queued(a)
BY TailBecomes DEF Runs, Queued

LEMMA QueueTake ==
  ASSUME Once(work_queue), NEW item, Runs(item), work_queue' = Rest
  PROVE  QueueIs({}, {item})
<1>1. Becomes(work_queue, work_queue', {}, {item})
  BY TailBecomes DEF Runs, Rest
<1>2. QED
  BY <1>1 DEF Becomes, QueueIs, Queued

LEMMA QueueTakeAdd ==
  ASSUME Once(work_queue), NEW item, Runs(item), NEW x \in Handlers,
         work_queue' = Enqueue(Rest, x)
  PROVE  QueueIs({x}, {item})
<1>1. Becomes(work_queue, Rest, {}, {item})
  BY TailBecomes DEF Runs, Rest
<1>2. Becomes(Rest, work_queue', {x}, {})
  BY <1>1, EnqueueBecomes DEF Becomes
<1>3. Becomes(work_queue, work_queue', {} \cup {x}, {item})
  BY <1>1, <1>2, BecomesThenAdds
<1>4. {} \cup {x} = {x}
  OBVIOUS
<1>5. QED
  BY <1>3, <1>4 DEF Becomes, QueueIs, Queued

--------------------------------------------------------------------------------
LEMMA HeldIsCounted ==
  ASSUME NEW m, NEW c, NEW e
  PROVE  Cardinality({<<"mouse_conn", x>> : x \in {c} \cap {m}}
                     \cup {<<"event", x>> : x \in {e} \cap {m}})
           = (IF m = c THEN 1 ELSE 0) + (IF m = e THEN 1 ELSE 0)
<1> DEFINE A == {<<"mouse_conn", x>> : x \in {c} \cap {m}}
           B == {<<"event", x>> : x \in {e} \cap {m}}
<1> SUFFICES Cardinality(A \cup B) = (IF m = c THEN 1 ELSE 0) + (IF m = e THEN 1 ELSE 0)
  OBVIOUS
<1>1. A = IF m = c THEN {<<"mouse_conn", m>>} ELSE {}
  OBVIOUS
<1>2. B = IF m = e THEN {<<"event", m>>} ELSE {}
  OBVIOUS
<1>3. <<"mouse_conn", m>> # <<"event", m>>
  OBVIOUS
<1> HIDE DEF A, B
<1>4. CASE m = c /\ m = e
  <2>1. A \cup B = {<<"mouse_conn", m>>} \cup {<<"event", m>>}
    BY <1>1, <1>2, <1>4
  <2>2. /\ IsFiniteSet({<<"mouse_conn", m>>}) /\ Cardinality({<<"mouse_conn", m>>}) = 1
    BY FS_Singleton
  <2>3. Cardinality({<<"mouse_conn", m>>} \cup {<<"event", m>>}) = 1 + 1
    <3> DEFINE S == {<<"mouse_conn", m>>}
               x == <<"event", m>>
    <3>1. IsFiniteSet(S) /\ Cardinality(S) = 1 /\ x \notin S
      BY <1>3, <2>2
    <3> HIDE DEF S, x
    <3>2. Cardinality(S \cup {x}) = Cardinality(S) + 1
      BY <3>1, FS_AddElement
    <3>3. QED
      BY <3>1, <3>2 DEF S, x
  <2>4. QED
    BY <1>4, <2>1, <2>3
<1>5. CASE m = c /\ m # e
  <2>1. A \cup B = {<<"mouse_conn", m>>}
    BY <1>1, <1>2, <1>5
  <2>2. Cardinality({<<"mouse_conn", m>>}) = 1
    BY FS_Singleton
  <2>3. QED
    BY <1>5, <2>1, <2>2
<1>6. CASE m # c /\ m = e
  <2>1. A \cup B = {<<"event", m>>}
    BY <1>1, <1>2, <1>6
  <2>2. Cardinality({<<"event", m>>}) = 1
    BY FS_Singleton
  <2>3. QED
    BY <1>6, <2>1, <2>2
<1>7. CASE m # c /\ m # e
  <2>1. A \cup B = {}
    BY <1>1, <1>2, <1>7
  <2>2. QED
    BY <1>7, <2>1, FS_EmptySet
<1>8. QED
  BY <1>4, <1>5, <1>6, <1>7

LEMMA BalancedReferences == Balanced => ReferencesBalanced
BY HeldIsCounted DEF Balanced, Held, ReferencesBalanced

LEMMA LeastNatural ==
  ASSUME NEW S \in SUBSET Nat, S # {}
  PROVE  \E n \in S : \A m \in S : n <= m
<1> DEFINE Less == OpToRel(<, Nat)
<1>1. IsWellFoundedOn(Less, Nat)
  BY NatLessThanWellFounded
<1> HIDE DEF Less
<1>2. PICK n \in S : \A m \in S : ~ (<<m, n>> \in Less)
  BY <1>1, WFMin
<1>3. \A m \in S : ~ (m < n)
  BY <1>2 DEF Less, OpToRel
<1>4. QED
  BY <1>3

(* The databases of the scenario, and the next report in them.               *)
LEMMA ReportsTyped ==
  ASSUME TypeOK
  PROVE  /\ Count \in Nat
         /\ session.index \in 0 .. Count
         /\ \A i \in 1 .. Count : Reports[i].covers \subseteq Needs
         /\ \A p \in Profiles : Len(p.reports) \in Nat
<1>1. \A p \in Profiles \cup {NoProfile} :
         p.reports \in Seq([reference : BOOLEAN, useful : BOOLEAN, ccc : BOOLEAN,
                            covers : SUBSET Needs])
  <2>1. ASSUME NEW p \in Profiles
        PROVE  p.reports \in Seq([reference : BOOLEAN, useful : BOOLEAN, ccc : BOOLEAN,
                                  covers : SUBSET Needs])
    <3> DEFINE R == Seq([reference : BOOLEAN, useful : BOOLEAN, ccc : BOOLEAN,
                         covers : SUBSET Needs])
    <3>1. scenario \in Scenarios /\ p \in scenario.profiles
      BY <2>1 DEF TypeOK, Profiles
    <3>2. scenario.profiles \subseteq [map : {"none", "bad", "good"},
                                      protocol : {"none", "write", "command"}, reports : R]
      BY <3>1, ClientAssumption
    <3> HIDE DEF R
    <3>3. p.reports \in R
      BY <3>1, <3>2
    <3>4. QED
      BY <3>3 DEF R
  <2>2. /\ NoProfile.reports = << >>
        /\ << >> \in Seq([reference : BOOLEAN, useful : BOOLEAN, ccc : BOOLEAN,
                          covers : SUBSET Needs])
    BY EmptySeq DEF NoProfile
  <2>3. QED
    BY <2>1, <2>2
<1>2. session.profile \in Profiles \cup {NoProfile}
  BY DEF TypeOK
<1>3. Reports \in Seq([reference : BOOLEAN, useful : BOOLEAN, ccc : BOOLEAN,
                       covers : SUBSET Needs])
  BY <1>1, <1>2 DEF Reports
<1>4. Count \in Nat /\ \A i \in 1 .. Count : Reports[i].covers \subseteq Needs
  <2> DEFINE R == [reference : BOOLEAN, useful : BOOLEAN, ccc : BOOLEAN, covers : SUBSET Needs]
  <2>1. \A r \in R : r.covers \subseteq Needs
    OBVIOUS
  <2>2. Reports \in Seq(R)
    BY <1>3
  <2> HIDE DEF R
  <2>3. Len(Reports) \in Nat /\ \A i \in 1 .. Len(Reports) : Reports[i] \in R
    BY <2>2
  <2>4. QED
    BY <2>1, <2>3 DEF Count
<1>5. session.index \in 0 .. Count
  BY <1>4 DEF TypeOK, Count, Reports
<1>6. \A p \in Profiles : Len(p.reports) \in Nat
  BY <1>1
<1>7. QED
  BY <1>4, <1>5, <1>6

LEMMA FirstFromInRange ==
  ASSUME TypeOK, NEW wanted
  PROVE  FirstFrom(wanted) \in 0 .. Count
<1> DEFINE ahead == {i \in session.index .. Count - 1 : Reports[i + 1] \in wanted}
<1>1. Count \in Nat /\ session.index \in Nat
  BY ReportsTyped
<1>2. CASE ahead = {}
  BY <1>1, <1>2 DEF FirstFrom
<1>3. CASE ahead # {}
  <2>1. ahead \subseteq 0 .. Count - 1
    BY <1>1
  <2> HIDE DEF ahead
  <2>2. \E i \in ahead : \A j \in ahead : i <= j
    BY <1>3, <2>1, LeastNatural
  <2>3. (CHOOSE i \in ahead : \A j \in ahead : i <= j) \in ahead
    BY <2>2
  <2>4. FirstFrom(wanted) = IF ahead = {} THEN Count
                            ELSE CHOOSE i \in ahead : \A j \in ahead : i <= j
    BY Zenon DEF FirstFrom, ahead
  <2>5. FirstFrom(wanted) \in ahead
    BY <1>3, <2>3, <2>4, Zenon
  <2>6. \A i \in ahead : i \in 0 .. Count
    BY <1>1, <2>1
  <2>7. QED
    BY <2>5, <2>6
<1>4. QED
  BY <1>2, <1>3

(* The session, when only the report it is at moves.                         *)
LEMMA SessionMoves ==
  ASSUME TypeOK, UNCHANGED scenario, NEW k \in 0 .. Count,
         session' = [session EXCEPT !.index = k]
  PROVE  /\ session' \in [profile : Profiles \cup {NoProfile}, index : Nat, covered : SUBSET Needs]'
         /\ (session.index <= Len(session.profile.reports))'
         /\ session'.index = k /\ session'.profile = session.profile
         /\ session'.covered = session.covered
<1>1. /\ session \in [profile : Profiles \cup {NoProfile}, index : Nat, covered : SUBSET Needs]
      /\ Count = Len(session.profile.reports) /\ Count \in Nat /\ k \in Nat /\ k <= Count
  BY ReportsTyped DEF TypeOK, Count, Reports
<1>2. /\ session'.index = k /\ session'.profile = session.profile
      /\ session'.covered = session.covered
  BY <1>1
<1>3. Profiles' = Profiles
  BY DEF Profiles
<1>4. session' \in [profile : Profiles \cup {NoProfile}, index : Nat, covered : SUBSET Needs]
  BY <1>1
<1>5. QED
  BY <1>1, <1>2, <1>3, <1>4

(* The report that an answer is about.                                       *)
LEMMA NextReport ==
  ASSUME TypeOK, session.index < Len(session.profile.reports)
  PROVE  /\ session.index + 1 \in 0 .. Count
         /\ session.profile.reports[session.index + 1].covers \subseteq Needs
<1>1. /\ Count = Len(session.profile.reports) /\ Count \in Nat
      /\ session.index \in 0 .. Count
      /\ \A i \in 1 .. Count : session.profile.reports[i].covers \subseteq Needs
  BY ReportsTyped DEF Count, Reports
<1>2. session.index + 1 \in 1 .. Count
  BY <1>1
<1>3. QED
  BY <1>1, <1>2

(* The session, when a report is covered.                                    *)
LEMMA SessionCovers ==
  ASSUME TypeOK, UNCHANGED scenario, NEW k \in 0 .. Count, NEW covered \in SUBSET Needs,
         session' = [session EXCEPT !.index = k, !.covered = covered]
  PROVE  /\ session' \in [profile : Profiles \cup {NoProfile}, index : Nat, covered : SUBSET Needs]'
         /\ (session.index <= Len(session.profile.reports))'
         /\ session'.index = k /\ session'.profile = session.profile
<1>1. /\ session \in [profile : Profiles \cup {NoProfile}, index : Nat, covered : SUBSET Needs]
      /\ Count = Len(session.profile.reports) /\ Count \in Nat /\ k \in Nat /\ k <= Count
  BY ReportsTyped DEF TypeOK, Count, Reports
<1>2. session'.index = k /\ session'.profile = session.profile
  BY <1>1
<1>3. Profiles' = Profiles
  BY DEF Profiles
<1>4. session' \in [profile : Profiles \cup {NoProfile}, index : Nat, covered : SUBSET Needs]
  BY <1>1
<1>5. QED
  BY <1>1, <1>2, <1>3, <1>4

(* A press of a key, or a power loss, is spent.                              *)
LEMMA BudgetSpent ==
  ASSUME budget \in [pair : Nat, clear : Nat, power : Nat],
         \/ budget.pair > 0 /\ budget' = [budget EXCEPT !.pair = @ - 1]
         \/ budget.clear > 0 /\ budget' = [budget EXCEPT !.clear = @ - 1]
         \/ budget.power > 0 /\ budget' = [budget EXCEPT !.power = @ - 1]
  PROVE  budget' \in [pair : Nat, clear : Nat, power : Nat] /\ budget'.power <= budget.power
OBVIOUS

--------------------------------------------------------------------------------
(* What a reset leaves: flash, and the scenario.                             *)
Flash ==
    /\ scenario \in Scenarios
    /\ saved_peer \in Mice \cup {None}
    /\ bonds \subseteq Addresses
    /\ budget \in [pair : Nat, clear : Nat, power : Nat]

LEMMA ResetAccounts == RamCleared /\ Flash => Accounts
<1> SUFFICES ASSUME RamCleared, Flash
             PROVE  Accounts
  OBVIOUS
<1>1. None \notin Mice /\ NoRequest.conn = None
  BY ClientAssumption DEF NoRequest
<1>2. Once(work_queue) /\ \A x : ~Queued(x)
  BY EmptySeq DEF RamCleared, Once, Queued, Holds
<1>3. /\ session \in [profile : Profiles \cup {NoProfile}, index : Nat, covered : SUBSET Needs]
      /\ session.index <= Len(session.profile.reports)
  BY EmptySeq DEF RamCleared, NoSession, NoProfile
<1>4. TypeOK
  BY <1>2, <1>3 DEF RamCleared, Flash, TypeOK, Once, Stages, Timers, Links, Securities
<1>5. Balanced /\ NoStrayLink /\ LinksAccounted /\ LinkSettled
  BY <1>1, <1>2 DEF RamCleared, Balanced, Held, NoStrayLink, LinksAccounted, LinkSettled,
     EventOnWay,
     TearingDown, Finishing, LateStages
<1>6. QueueOrder
  BY <1>2 DEF RamCleared, QueueOrder, Before, Queued, Holds
<1>7. ConnectingHolds /\ ConnectionHolds /\ EventAccounted
  BY <1>2 DEF RamCleared, ConnectingHolds, ConnectionHolds, EventAccounted, Connecting, Finishing,
     TearingDown, Forgetting
<1>8. OneRequest
  BY <1>2, <1>3 DEF RamCleared, OneRequest, EarlyStages, Finishing, NoSession
<1>9. QED
  BY <1>2, <1>4, <1>5, <1>6, <1>7, <1>8 DEF Accounts

LEMMA AccountsInit == Init => Accounts
<1>1. ASSUME Init
      PROVE  Flash
  <2>1. scenario \in Scenarios /\ saved_peer \in scenario.stored /\ budget = scenario.budget
    BY <1>1 DEF Init
  <2>2. /\ scenario.stored \subseteq Mice \cup {None} /\ scenario.others \subseteq Others
        /\ scenario.budget \in [pair : Nat, clear : Nat, power : Nat]
    BY <2>1, ClientAssumption
  <2>3. PICK S \in SUBSET scenario.others : bonds = S \cup ({saved_peer} \ {None})
    BY <1>1 DEF Init
  <2>4. QED
    BY <2>1, <2>2, <2>3 DEF Flash, Addresses
<1>2. QED
  BY <1>1, ResetAccounts DEF Init

LEMMA AccountsPowerLoss ==
  ASSUME TypeOK, PowerLoss
  PROVE  Accounts'
<1>1. budget' \in [pair : Nat, clear : Nat, power : Nat]
  BY BudgetSpent DEF TypeOK, PowerLoss
<1>2. Flash'
  BY <1>1 DEF TypeOK, PowerLoss, Flash, Addresses
<1>3. RamCleared'
  BY DEF PowerLoss, RamCleared
<1>4. QED
  BY <1>2, <1>3, ResetAccounts, PTL

--------------------------------------------------------------------------------
(* The timers' and the keys' handlers.                                       *)
LEMMA AccountsTimers ==
  ASSUME Accounts,
         RetryHandler \/ TimeoutHandler \/ PairTimeoutHandler \/ PairHandler \/ ClearHandler
  PROVE  Accounts'
<1>0. Once(work_queue)
  BY DEF Accounts
<1>i. /\ TypeOK /\ Balanced /\ NoStrayLink /\ QueueOrder /\ ConnectingHolds
      /\ ConnectionHolds /\ EventAccounted /\ LinksAccounted /\ LinkSettled /\ OneRequest
  BY DEF Accounts
<1>t. TypeOK
  BY <1>i
<1>b. Balanced
  BY <1>i
<1>none. None \notin Mice
  BY ClientAssumption
<1> USE DEF candidateVars, peerVars, userVars, eventVars, keptVars, workerVars, queueVars,
            stepVars, linkVars, hostVars, clientVars,
            Stages, Links, Securities, Handlers, Timers, Profiles, Faults, Addresses, QueueIs
<1> USE DEF TypeOK, Flags, Devices, WorkerTypes, HostTypes, Given, Balanced, Held, NoStrayLink,
            QueueOrder, ConnectingHolds, ConnectionHolds, EventAccounted, LinksAccounted,
            LinkSettled, OneRequest,
            Connecting, Finishing, TearingDown, Forgetting, EarlyStages, LateStages, EventOnWay
<1> USE DEF owns, valid_callback, Fail, next_stage, Submit, RequestRetry, RetryWork, RetryWanted,
            AutoOff, Unpair, LetGo, ForgetDone, ConnectFailed, SecurityChanged, Connected,
            Refused, Answer, Ignored, Failed, Advance, Request, DiscoverStep
<1>1. CASE RetryHandler
  <2>q. /\ work_queue' = Rest => QueueIs({}, {"retry"})
        /\ work_queue' = Enqueue(Rest, "connect") => QueueIs({"connect"}, {"retry"})
    BY <1>0, <1>1, QueueTake, QueueTakeAdd DEF Handlers, Timers, RetryHandler
  <2>h. /\ pc = "idle" /\ Queued("retry")
        /\ \A a \in Handlers : Before(work_queue, a, "retry") => ~Queued(a)
    BY <1>0, <1>1, QueueHead DEF RetryHandler
  <2>o. Once(work_queue') /\ work_queue' \in Seq(Handlers)
    BY <1>1, <1>i, <2>q, <2>h, <1>none DEF Once, RetryHandler
  <2>t. scan_wanted' \in BOOLEAN
    BY <1>t, <1>1 DEF RetryHandler
  <2>1. TypeOK'
    <3>1. UNCHANGED <<stage, failure, mouse_conn, peer, pairing, connecting_address,
                    new_candidate, candidate_bonded, forget_requested, clear_held, started,
                    connected_event_conn, connected_error, session, timers, pc, local, link,
                    security, auto_connect, gatt, references, bonds, saved_peer, attempt_bond,
                    scenario, budget>>
      BY <1>1 DEF RetryHandler
    <3>2. pending_address' \in Mice \cup {None}
      BY <1>1, <1>t, <2>h, <1>i DEF RetryHandler
    <3>3. Flags'
      BY <1>t, <3>1, <2>t
    <3>4. Devices'
      BY <1>t, <3>1, <3>2
    <3>5. WorkerTypes'
      BY <1>t, <3>1, <2>o
    <3>6. HostTypes'
      BY <1>t, <3>1
    <3>7. Given'
      BY <1>t, <3>1
    <3>8. QED
      BY <3>3, <3>4, <3>5, <3>6, <3>7
  <2>2. Balanced'
    BY <1>1, <1>i, <2>q, <2>h, <1>none DEF RetryHandler
  <2>3. NoStrayLink'
    BY <1>1, <1>i, <2>q, <2>h, <1>none DEF RetryHandler
  <2>4. QueueOrder'
    BY <1>1, <1>i, <2>q, <2>h, <1>none DEF RetryHandler
  <2>5. ConnectingHolds'
    BY <1>1, <1>i, <2>q, <2>h, <1>none DEF RetryHandler
  <2>6. ConnectionHolds'
    BY <1>1, <1>i, <2>q, <2>h, <1>none DEF RetryHandler
  <2>7. EventAccounted'
    BY <1>1, <1>i, <2>q, <2>h, <1>none DEF RetryHandler
  <2>8. LinksAccounted'
    BY <1>1, <1>i, <2>q, <2>h, <1>none DEF RetryHandler
  <2>9. LinkSettled'
    BY <1>1, <1>i, <2>q, <2>h, <1>none DEF RetryHandler
  <2>10. OneRequest'
    BY <1>1, <1>i, <2>q, <2>h, <1>none DEF RetryHandler
  <2>11. QED
    BY <2>o, <2>1, <2>2, <2>3, <2>4, <2>5, <2>6, <2>7, <2>8, <2>9, <2>10 DEF Accounts
<1>2. CASE TimeoutHandler
  <2>q. /\ work_queue' = Rest => QueueIs({}, {"timeout"})
        /\ work_queue' = Enqueue(Rest, "failure") => QueueIs({"failure"}, {"timeout"})
    BY <1>0, <1>2, QueueTake, QueueTakeAdd DEF Handlers, Timers, TimeoutHandler
  <2>h. /\ pc = "idle" /\ Queued("timeout")
        /\ \A a \in Handlers : Before(work_queue, a, "timeout") => ~Queued(a)
    BY <1>0, <1>2, QueueHead DEF TimeoutHandler
  <2>o. Once(work_queue') /\ work_queue' \in Seq(Handlers)
    BY <1>2, <1>i, <2>q, <2>h, <1>none DEF Once, TimeoutHandler
  <2>t. failure' \in BOOLEAN
    BY <1>t, <1>2 DEF TimeoutHandler
  <2>1. TypeOK'
    <3>1. UNCHANGED <<stage, mouse_conn, peer, pairing, scan_wanted, connecting_address,
                    new_candidate, candidate_bonded, forget_requested, clear_held, started,
                    connected_event_conn, connected_error, session, pending_address, timers,
                    pc, local, link, security, auto_connect, gatt, references, bonds,
                    saved_peer, attempt_bond, scenario, budget>>
      BY <1>2 DEF TimeoutHandler
    <3>2. Flags'
      BY <1>t, <3>1, <2>t
    <3>3. Devices'
      BY <1>t, <3>1
    <3>4. WorkerTypes'
      BY <1>t, <3>1, <2>o
    <3>5. HostTypes'
      BY <1>t, <3>1
    <3>6. Given'
      BY <1>t, <3>1
    <3>7. QED
      BY <3>2, <3>3, <3>4, <3>5, <3>6
  <2>2. Balanced'
    BY <1>2, <1>i, <2>q, <2>h, <1>none DEF TimeoutHandler
  <2>3. NoStrayLink'
    BY <1>2, <1>i, <2>q, <2>h, <1>none DEF TimeoutHandler
  <2>4. QueueOrder'
    BY <1>2, <1>i, <2>q, <2>h, <1>none DEF TimeoutHandler
  <2>5. ConnectingHolds'
    BY <1>2, <1>i, <2>q, <2>h, <1>none DEF TimeoutHandler
  <2>6. ConnectionHolds'
    BY <1>2, <1>i, <2>q, <2>h, <1>none DEF TimeoutHandler
  <2>7. EventAccounted'
    BY <1>2, <1>i, <2>q, <2>h, <1>none DEF TimeoutHandler
  <2>8. LinksAccounted'
    BY <1>2, <1>i, <2>q, <2>h, <1>none DEF TimeoutHandler
  <2>9. LinkSettled'
    BY <1>2, <1>i, <2>q, <2>h, <1>none DEF TimeoutHandler
  <2>10. OneRequest'
    BY <1>2, <1>i, <2>q, <2>h, <1>none DEF TimeoutHandler
  <2>11. QED
    BY <2>o, <2>1, <2>2, <2>3, <2>4, <2>5, <2>6, <2>7, <2>8, <2>9, <2>10 DEF Accounts
<1>3. CASE PairTimeoutHandler
  <2>q. /\ work_queue' = Rest => QueueIs({}, {"pair_timeout"})
        /\ work_queue' = Enqueue(Rest, "failure") => QueueIs({"failure"}, {"pair_timeout"})
        /\ work_queue' = Enqueue(Rest, "connect") => QueueIs({"connect"}, {"pair_timeout"})
    BY <1>0, <1>3, QueueTake, QueueTakeAdd DEF Handlers, Timers, PairTimeoutHandler
  <2>h. /\ pc = "idle" /\ Queued("pair_timeout")
        /\ \A a \in Handlers : Before(work_queue, a, "pair_timeout") => ~Queued(a)
    BY <1>0, <1>3, QueueHead DEF PairTimeoutHandler
  <2>o. Once(work_queue') /\ work_queue' \in Seq(Handlers)
    BY <1>3, <1>i, <2>q, <2>h, <1>none DEF Once, PairTimeoutHandler, AbandonsCandidate
  <2>t. /\ failure' \in BOOLEAN
        /\ pairing' \in BOOLEAN
        /\ scan_wanted' \in BOOLEAN
    <3>1. failure' \in BOOLEAN
      BY <1>t, <1>3 DEF PairTimeoutHandler, AbandonsCandidate
    <3>2. pairing' \in BOOLEAN
      BY <1>t, <1>3 DEF PairTimeoutHandler, AbandonsCandidate
    <3>3. scan_wanted' \in BOOLEAN
      BY <1>t, <1>3 DEF PairTimeoutHandler, AbandonsCandidate
    <3>4. QED
      BY <3>1, <3>2, <3>3
  <2>1. TypeOK'
    <3>1. UNCHANGED <<stage, mouse_conn, peer, connecting_address, new_candidate,
                    candidate_bonded, forget_requested, clear_held, started,
                    connected_event_conn, connected_error, session, timers, pc, local, link,
                    security, auto_connect, gatt, references, bonds, saved_peer, attempt_bond,
                    scenario, budget>>
      BY <1>3 DEF PairTimeoutHandler, AbandonsCandidate
    <3>2. pending_address' \in Mice \cup {None}
      BY <1>3, <1>t, <2>h, <1>i DEF PairTimeoutHandler, AbandonsCandidate
    <3>3. Flags'
      BY <1>t, <3>1, <2>t
    <3>4. Devices'
      BY <1>t, <3>1, <3>2
    <3>5. WorkerTypes'
      BY <1>t, <3>1, <2>o
    <3>6. HostTypes'
      BY <1>t, <3>1
    <3>7. Given'
      BY <1>t, <3>1
    <3>8. QED
      BY <3>3, <3>4, <3>5, <3>6, <3>7
  <2>2. Balanced'
    BY <1>3, <1>i, <2>q, <2>h, <1>none DEF PairTimeoutHandler, AbandonsCandidate
  <2>3. NoStrayLink'
    BY <1>3, <1>i, <2>q, <2>h, <1>none DEF PairTimeoutHandler, AbandonsCandidate
  <2>4. QueueOrder'
    BY <1>3, <1>i, <2>q, <2>h, <1>none DEF PairTimeoutHandler, AbandonsCandidate
  <2>5. ConnectingHolds'
    BY <1>3, <1>i, <2>q, <2>h, <1>none DEF PairTimeoutHandler, AbandonsCandidate
  <2>6. ConnectionHolds'
    BY <1>3, <1>i, <2>q, <2>h, <1>none DEF PairTimeoutHandler, AbandonsCandidate
  <2>7. EventAccounted'
    BY <1>3, <1>i, <2>q, <2>h, <1>none DEF PairTimeoutHandler, AbandonsCandidate
  <2>8. LinksAccounted'
    BY <1>3, <1>i, <2>q, <2>h, <1>none DEF PairTimeoutHandler, AbandonsCandidate
  <2>9. LinkSettled'
    BY <1>3, <1>i, <2>q, <2>h, <1>none DEF PairTimeoutHandler, AbandonsCandidate
  <2>10. OneRequest'
    BY <1>3, <1>i, <2>q, <2>h, <1>none DEF PairTimeoutHandler, AbandonsCandidate
  <2>11. QED
    BY <2>o, <2>1, <2>2, <2>3, <2>4, <2>5, <2>6, <2>7, <2>8, <2>9, <2>10 DEF Accounts
<1>4. CASE PairHandler
  <2>q. /\ work_queue' = Rest => QueueIs({}, {"pair"})
        /\ work_queue' = Enqueue(Rest, "connect") => QueueIs({"connect"}, {"pair"})
    BY <1>0, <1>4, QueueTake, QueueTakeAdd DEF Handlers, Timers, PairHandler
  <2>h. /\ pc = "idle" /\ Queued("pair")
        /\ \A a \in Handlers : Before(work_queue, a, "pair") => ~Queued(a)
    BY <1>0, <1>4, QueueHead DEF PairHandler
  <2>o. Once(work_queue') /\ work_queue' \in Seq(Handlers)
    BY <1>4, <1>i, <2>q, <2>h, <1>none DEF Once, PairHandler
  <2>s. timers' \subseteq Timers
    <3>1. \/ timers' = timers
          \/ timers' = timers \cup {"pair_timeout"}
      BY <1>t, <1>4 DEF PairHandler
    <3>2. QED
      BY <1>t, <3>1
  <2>e. work_queue' = Rest \/ work_queue' = Enqueue(Rest, "connect")
    BY <1>4, <1>i, <2>q, <2>h, <1>none, <2>s DEF PairHandler
  <2>t. /\ pairing' \in BOOLEAN
        /\ scan_wanted' \in BOOLEAN
    <3>1. pairing' \in BOOLEAN
      BY <1>t, <1>4 DEF PairHandler
    <3>2. scan_wanted' \in BOOLEAN
      BY <1>t, <1>4 DEF PairHandler
    <3>3. QED
      BY <3>1, <3>2
  <2>1. TypeOK'
    <3>1. UNCHANGED <<stage, failure, mouse_conn, peer, connecting_address, new_candidate,
                    candidate_bonded, forget_requested, clear_held, started,
                    connected_event_conn, connected_error, session, pc, local, link, security,
                    auto_connect, gatt, references, bonds, saved_peer, attempt_bond, scenario,
                    budget>>
      BY <1>4 DEF PairHandler
    <3>2. pending_address' \in Mice \cup {None}
      BY <1>4, <1>t, <2>h, <1>i DEF PairHandler
    <3>3. Flags'
      BY <1>t, <3>1, <2>t
    <3>4. Devices'
      BY <1>t, <3>1, <3>2
    <3>5. WorkerTypes'
      BY <1>t, <3>1, <2>o, <2>s
    <3>6. HostTypes'
      BY <1>t, <3>1
    <3>7. Given'
      BY <1>t, <3>1
    <3>8. QED
      BY <3>3, <3>4, <3>5, <3>6, <3>7
  <2>2. Balanced'
    BY <1>4, <1>i, <2>q, <2>h, <1>none, <2>s, <2>e DEF PairHandler
  <2>3. NoStrayLink'
    BY <1>4, <1>i, <2>q, <2>h, <1>none, <2>s, <2>e DEF PairHandler
  <2>4. QueueOrder'
    BY <1>4, <1>i, <2>q, <2>h, <1>none, <2>s, <2>e DEF PairHandler
  <2>5. ConnectingHolds'
    BY <1>4, <1>i, <2>q, <2>h, <1>none, <2>s, <2>e DEF PairHandler
  <2>6. ConnectionHolds'
    BY <1>4, <1>i, <2>q, <2>h, <1>none, <2>s, <2>e DEF PairHandler
  <2>7. EventAccounted'
    BY <1>4, <1>i, <2>q, <2>h, <1>none, <2>s, <2>e DEF PairHandler
  <2>8. LinksAccounted'
    <3>1. UNCHANGED <<mouse_conn, connected_event_conn, connected_error, pc, link, security,
                    auto_connect>>
      BY <1>4 DEF PairHandler
    <3>2. pc = "idle" /\ pc' = "idle"
      BY <1>4, <1>i, <2>q, <2>h, <1>none DEF PairHandler
    <3>3. /\ Queued("disconnected")' <=> Queued("disconnected")
      BY <2>q, <2>e
    <3>4. QED
      BY <1>i, <3>1, <3>2, <3>3, <1>none
  <2>9. LinkSettled'
    BY <1>4, <1>i, <2>q, <2>h, <1>none, <2>s, <2>e DEF PairHandler
  <2>10. OneRequest'
    <3>1. UNCHANGED <<stage, mouse_conn, session, pc, local, link, gatt>>
      BY <1>4 DEF PairHandler
    <3>2. pc = "idle" /\ pc' = "idle"
      BY <1>4, <1>i, <2>q, <2>h, <1>none DEF PairHandler
    <3>3. /\ Queued("discovery")' <=> Queued("discovery")
      BY <2>q, <2>e
    <3>4. QED
      BY <1>i, <3>1, <3>2, <3>3, <1>none
  <2>11. QED
    BY <2>o, <2>1, <2>2, <2>3, <2>4, <2>5, <2>6, <2>7, <2>8, <2>9, <2>10 DEF Accounts
<1>5. CASE ClearHandler
  <2>q. /\ work_queue' = Rest => QueueIs({}, {"clear"})
        /\ work_queue' = Enqueue(Rest, "failure") => QueueIs({"failure"}, {"clear"})
    BY <1>0, <1>5, QueueTake, QueueTakeAdd DEF Handlers, Timers, ClearHandler
  <2>h. /\ pc = "idle" /\ Queued("clear")
        /\ \A a \in Handlers : Before(work_queue, a, "clear") => ~Queued(a)
    BY <1>0, <1>5, QueueHead DEF ClearHandler
  <2>o. Once(work_queue') /\ work_queue' \in Seq(Handlers)
    BY <1>5, <1>i, <2>q, <2>h, <1>none DEF Once, ClearHandler
  <2>t. /\ failure' \in BOOLEAN
        /\ pairing' \in BOOLEAN
        /\ scan_wanted' \in BOOLEAN
        /\ forget_requested' \in BOOLEAN
    <3>1. failure' \in BOOLEAN
      BY <1>t, <1>5 DEF ClearHandler
    <3>2. pairing' \in BOOLEAN
      BY <1>t, <1>5 DEF ClearHandler
    <3>3. scan_wanted' \in BOOLEAN
      BY <1>t, <1>5 DEF ClearHandler
    <3>4. forget_requested' \in BOOLEAN
      BY <1>t, <1>5 DEF ClearHandler
    <3>5. QED
      BY <3>1, <3>2, <3>3, <3>4
  <2>1. TypeOK'
    <3>1. UNCHANGED <<stage, mouse_conn, peer, connecting_address, new_candidate,
                    candidate_bonded, clear_held, started, connected_event_conn,
                    connected_error, session, pending_address, timers, link, security,
                    auto_connect, gatt, references, bonds, saved_peer, attempt_bond, scenario,
                    budget>>
      BY <1>5 DEF ClearHandler
    <3>2. pc' \in {"idle", "auto", "lookup", "taken", "completed", "secure", "request", "secured",
                  "discover", "count", "save", "ready", "teardown", "release", "forget", "delete"}
      BY <1>5, <1>t, <2>h, <1>i DEF ClearHandler
    <3>3. local' \in Mice \cup Stages \cup {"retry", None}
      BY <1>5, <1>t, <2>h, <1>i DEF ClearHandler
    <3>4. Flags'
      BY <1>t, <3>1, <2>t
    <3>5. Devices'
      BY <1>t, <3>1
    <3>6. WorkerTypes'
      BY <1>t, <3>1, <2>o, <3>2, <3>3
    <3>7. HostTypes'
      BY <1>t, <3>1
    <3>8. Given'
      BY <1>t, <3>1
    <3>9. QED
      BY <3>4, <3>5, <3>6, <3>7, <3>8
  <2>2. Balanced'
    BY <1>5, <1>i, <2>q, <2>h, <1>none DEF ClearHandler
  <2>3. NoStrayLink'
    BY <1>5, <1>i, <2>q, <2>h, <1>none DEF ClearHandler
  <2>4. QueueOrder'
    BY <1>5, <1>i, <2>q, <2>h, <1>none DEF ClearHandler
  <2>5. ConnectingHolds'
    BY <1>5, <1>i, <2>q, <2>h, <1>none DEF ClearHandler
  <2>6. ConnectionHolds'
    BY <1>5, <1>i, <2>q, <2>h, <1>none DEF ClearHandler
  <2>7. EventAccounted'
    BY <1>5, <1>i, <2>q, <2>h, <1>none DEF ClearHandler
  <2>8. LinksAccounted'
    <3>1. UNCHANGED <<mouse_conn, connected_event_conn, connected_error, pending_address, link,
                    security, auto_connect>>
      BY <1>5 DEF ClearHandler
    <3>2. pc = "idle" /\ pc' \in {"idle", "forget"}
      BY <1>5, <1>i, <2>q, <2>h, <1>none DEF ClearHandler
    <3>3. /\ Queued("disconnected")' <=> Queued("disconnected")
      BY <1>5, <1>i, <2>q, <2>h, <1>none DEF ClearHandler
    <3>4. QED
      BY <1>i, <3>1, <3>2, <3>3, <1>none
  <2>9. LinkSettled'
    BY <1>5, <1>i, <2>q, <2>h, <1>none DEF ClearHandler
  <2>10. OneRequest'
    BY <1>5, <1>i, <2>q, <2>h, <1>none DEF ClearHandler
  <2>11. QED
    BY <2>o, <2>1, <2>2, <2>3, <2>4, <2>5, <2>6, <2>7, <2>8, <2>9, <2>10 DEF Accounts
<1>6. QED
  BY <1>1, <1>2, <1>3, <1>4, <1>5

(* A connection is ended, let go and forgotten.                              *)
LEMMA AccountsEnding ==
  ASSUME Accounts,
         FailureHandler \/ DisconnectedHandler \/ Teardown \/ Release \/ Forget \/ Delete
  PROVE  Accounts'
<1>0. Once(work_queue)
  BY DEF Accounts
<1>i. /\ TypeOK /\ Balanced /\ NoStrayLink /\ QueueOrder /\ ConnectingHolds
      /\ ConnectionHolds /\ EventAccounted /\ LinksAccounted /\ LinkSettled /\ OneRequest
  BY DEF Accounts
<1>t. TypeOK
  BY <1>i
<1>b. Balanced
  BY <1>i
<1>none. None \notin Mice
  BY ClientAssumption
<1> USE DEF candidateVars, peerVars, userVars, eventVars, keptVars, workerVars, queueVars,
            stepVars, linkVars, hostVars, clientVars,
            Stages, Links, Securities, Handlers, Timers, Profiles, Faults, Addresses, QueueIs
<1> USE DEF TypeOK, Flags, Devices, WorkerTypes, HostTypes, Given, Balanced, Held, NoStrayLink,
            QueueOrder, ConnectingHolds, ConnectionHolds, EventAccounted, LinksAccounted,
            LinkSettled, OneRequest,
            Connecting, Finishing, TearingDown, Forgetting, EarlyStages, LateStages, EventOnWay
<1> USE DEF owns, valid_callback, Fail, next_stage, Submit, RequestRetry, RetryWork, RetryWanted,
            AutoOff, Unpair, LetGo, ForgetDone, ConnectFailed, SecurityChanged, Connected,
            Refused, Answer, Ignored, Failed, Advance, Request, DiscoverStep
<1>1. CASE FailureHandler
  <2>q. work_queue' = Rest => QueueIs({}, {"failure"})
    BY <1>0, <1>1, QueueTake DEF Handlers, Timers, FailureHandler
  <2>h. /\ pc = "idle" /\ Queued("failure")
        /\ \A a \in Handlers : Before(work_queue, a, "failure") => ~Queued(a)
    BY <1>0, <1>1, QueueHead DEF FailureHandler
  <2>o. Once(work_queue') /\ work_queue' \in Seq(Handlers)
    BY <1>1, <1>i, <2>q, <2>h, <1>none DEF Once, FailureHandler, NotConnected, KeepsUp
  <2>e. /\ pc = "idle" /\ pending_address' = pending_address /\ security' = security
        /\ UNCHANGED <<mouse_conn, connected_event_conn, connected_error, session, gatt, local>>
        /\ mouse_conn = None => /\ stage' = "IDLE" /\ UNCHANGED <<pc, link, auto_connect>>
        /\ mouse_conn # None =>
            /\ mouse_conn \in Mice /\ stage' = "CLOSING"
            /\ auto_connect' = auto_connect \ {mouse_conn}
            /\ \/ /\ link[mouse_conn] \in {"down", "scan"} /\ pc' = "teardown"
                  /\ link' = [link EXCEPT ![mouse_conn] = "down"]
               \/ /\ link[mouse_conn] = "cancel" \/ (link[mouse_conn] = "scan" /\ KeepsUp)
                  /\ link' = [link EXCEPT ![mouse_conn] = "cancel"] /\ pc' = "idle"
               \/ /\ link[mouse_conn] \in {"up", "closing"}
                  /\ link' = [link EXCEPT ![mouse_conn] = "closing"] /\ pc' = "idle"
               \/ link[mouse_conn] = "up" /\ link' = link /\ pc' = "idle"
        /\ \A x \in Handlers : x # "failure" => (Queued(x)' <=> Queued(x))
    <3>1. work_queue' = Rest
      BY <1>1 DEF FailureHandler, NotConnected, KeepsUp
    <3>2. \A x \in Handlers : x # "failure" => (Queued(x)' <=> Queued(x))
      BY <2>q, <3>1
    <3>3. CASE mouse_conn = None
      BY <2>h, <3>2, <3>3, <1>1 DEF FailureHandler, RequestRetry
    <3>4. CASE mouse_conn # None
      <4>1. mouse_conn \in Mice
        BY <1>t, <3>4
      <4>2. link[mouse_conn] = "down" => [link EXCEPT ![mouse_conn] = link[mouse_conn]]
                                           = [link EXCEPT ![mouse_conn] = "down"]
        OBVIOUS
      <4>3. QED
        BY <2>h, <3>2, <3>4, <4>1, <4>2, <1>1 DEF FailureHandler, NotConnected
    <3>5. QED
      BY <3>3, <3>4
  <2>s. timers' \subseteq Timers
    <3>1. \/ timers' = timers
          \/ timers' = timers \cup {"retry"}
      BY <1>t, <1>1 DEF FailureHandler, NotConnected, KeepsUp
    <3>2. QED
      BY <1>t, <3>1
  <2>l. link' \in [Mice -> Links]
    <3>1. \/ link' = link
          \/ mouse_conn \in Mice /\ link' = [link EXCEPT ![mouse_conn] = "cancel"]
          \/ mouse_conn \in Mice /\ link' = [link EXCEPT ![mouse_conn] = "closing"]
          \/ mouse_conn \in Mice /\ link' = [link EXCEPT ![mouse_conn] = "down"]
          \/ mouse_conn \in Mice /\ link' = [link EXCEPT ![mouse_conn] = link[mouse_conn]]
      BY <1>t, <1>1 DEF FailureHandler, NotConnected, KeepsUp
    <3>2. QED
      BY <1>t, <3>1
  <2>t. /\ failure' \in BOOLEAN
        /\ scan_wanted' \in BOOLEAN
    <3>1. failure' \in BOOLEAN
      BY <1>t, <1>1 DEF FailureHandler, NotConnected, KeepsUp
    <3>2. scan_wanted' \in BOOLEAN
      BY <1>t, <1>1 DEF FailureHandler, NotConnected, KeepsUp
    <3>3. QED
      BY <3>1, <3>2
  <2>1. TypeOK'
    <3>1. UNCHANGED <<mouse_conn, peer, pairing, connecting_address, new_candidate,
                    candidate_bonded, forget_requested, clear_held, started,
                    connected_event_conn, connected_error, session, pending_address, local,
                    security, gatt, references, bonds, saved_peer, attempt_bond, scenario,
                    budget>>
      BY <1>1 DEF FailureHandler, NotConnected, KeepsUp
    <3>2. stage' \in Stages
      BY <1>1, <1>t, <2>h, <1>i DEF FailureHandler, NotConnected, KeepsUp
    <3>3. pc' \in {"idle", "auto", "lookup", "taken", "completed", "secure", "request", "secured",
                  "discover", "count", "save", "ready", "teardown", "release", "forget", "delete"}
      BY <1>1, <1>t, <2>h, <1>i DEF FailureHandler, NotConnected, KeepsUp
    <3>4. auto_connect' \subseteq Mice
      BY <1>1, <1>t, <2>h, <1>i DEF FailureHandler, NotConnected, KeepsUp
    <3>5. Flags'
      BY <1>t, <3>1, <2>t
    <3>6. Devices'
      BY <1>t, <3>1
    <3>7. WorkerTypes'
      BY <1>t, <3>1, <2>o, <3>2, <2>s, <3>3
    <3>8. HostTypes'
      BY <1>t, <3>1, <2>l, <3>4
    <3>9. Given'
      BY <1>t, <3>1
    <3>10. QED
      BY <3>5, <3>6, <3>7, <3>8, <3>9
  <2>2. Balanced'
    BY <1>1, <1>i, <2>q, <2>h, <1>none, <2>e, <2>s, <2>l
       DEF FailureHandler, NotConnected, KeepsUp
  <2>3. NoStrayLink'
    BY <1>1, <1>i, <2>q, <2>h, <1>none, <2>e, <2>s, <2>l
       DEF FailureHandler, NotConnected, KeepsUp
  <2>4. QueueOrder'
    BY <1>1, <1>i, <2>q, <2>h, <1>none, <2>e, <2>s, <2>l
       DEF FailureHandler, NotConnected, KeepsUp
  <2>5. ConnectingHolds'
    BY <1>1, <1>i, <2>q, <2>h, <1>none, <2>e, <2>s, <2>l
       DEF FailureHandler, NotConnected, KeepsUp
  <2>6. ConnectionHolds'
    BY <1>1, <1>i, <2>q, <2>h, <1>none, <2>e, <2>s, <2>l
       DEF FailureHandler, NotConnected, KeepsUp
  <2>7. EventAccounted'
    BY <1>1, <1>i, <2>q, <2>h, <1>none, <2>e, <2>s, <2>l
       DEF FailureHandler, NotConnected, KeepsUp
  <2>8. LinksAccounted'
    <3>1. CASE mouse_conn = None
      BY <1>i, <1>none, <2>e, <3>1
    <3>2. CASE mouse_conn # None
      <4>1. \A m \in Mice : m # mouse_conn => link'[m] = link[m]
        BY <1>t, <2>e, <3>2
      <4>2. \/ link'[mouse_conn] = "down" /\ pc' = "teardown"
                   /\ link[mouse_conn] \in {"down", "scan"}
            \/ /\ link'[mouse_conn] = "cancel" /\ pc' = "idle"
               /\ link[mouse_conn] = "cancel" \/ (link[mouse_conn] = "scan" /\ KeepsUp)
            \/ link'[mouse_conn] \in {"up", "closing"} /\ pc' = "idle"
                   /\ link[mouse_conn] \in {"up", "closing"}
        BY <1>t, <2>e, <3>2
      <4>3. /\ mouse_conn \in Mice /\ auto_connect' = auto_connect \ {mouse_conn}
            /\ pc = "idle" /\ pc' \in {"idle", "teardown"}
            /\ UNCHANGED <<mouse_conn, connected_event_conn, connected_error, pending_address,
                           security>>
            /\ Queued("disconnected")' <=> Queued("disconnected")
        BY <2>e, <3>2
      <4>4. QED
        BY <1>i, <1>none, <3>2, <4>1, <4>2, <4>3 DEF KeepsUp
    <3>3. QED
      BY <3>1, <3>2
  <2>9. LinkSettled'
    BY <1>1, <1>i, <2>q, <2>h, <1>none, <2>e, <2>s, <2>l
       DEF FailureHandler, NotConnected, KeepsUp
  <2>10. OneRequest'
    <3>1. /\ pc = "idle" /\ pc' \in {"idle", "teardown"} /\ stage' \in {"IDLE", "CLOSING"}
          /\ UNCHANGED <<mouse_conn, session, gatt>>
          /\ Queued("discovery")' <=> Queued("discovery")
          /\ stage' = "IDLE" => mouse_conn = None
      BY <2>e
    <3>2. gatt # NoRequest => /\ mouse_conn \in Mice /\ link[mouse_conn] \in {"up", "closing"}
                              /\ link'[mouse_conn] \in {"up", "closing"}
      BY <1>i, <1>none, <2>e DEF NoRequest
    <3>3. QED
      BY <1>i, <3>1, <3>2
  <2>11. QED
    BY <2>o, <2>1, <2>2, <2>3, <2>4, <2>5, <2>6, <2>7, <2>8, <2>9, <2>10 DEF Accounts
<1>2. CASE DisconnectedHandler
  <2>q. work_queue' = Rest => QueueIs({}, {"disconnected"})
    BY <1>0, <1>2, QueueTake DEF Handlers, Timers, DisconnectedHandler
  <2>h. /\ pc = "idle" /\ Queued("disconnected")
        /\ \A a \in Handlers : Before(work_queue, a, "disconnected") => ~Queued(a)
    BY <1>0, <1>2, QueueHead DEF DisconnectedHandler
  <2>o. Once(work_queue') /\ work_queue' \in Seq(Handlers)
    BY <1>2, <1>i, <2>q, <2>h, <1>none DEF Once, DisconnectedHandler
  <2>1. TypeOK'
    <3>1. UNCHANGED <<stage, failure, mouse_conn, peer, pairing, scan_wanted,
                    connecting_address, new_candidate, candidate_bonded, forget_requested,
                    clear_held, started, connected_event_conn, connected_error, session,
                    pending_address, timers, local, link, security, auto_connect, gatt,
                    references, bonds, saved_peer, attempt_bond, scenario, budget>>
      BY <1>2 DEF DisconnectedHandler
    <3>2. pc' \in {"idle", "auto", "lookup", "taken", "completed", "secure", "request", "secured",
                  "discover", "count", "save", "ready", "teardown", "release", "forget", "delete"}
      BY <1>2, <1>t, <2>h, <1>i DEF DisconnectedHandler
    <3>3. Flags'
      BY <1>t, <3>1
    <3>4. Devices'
      BY <1>t, <3>1
    <3>5. WorkerTypes'
      BY <1>t, <3>1, <2>o, <3>2
    <3>6. HostTypes'
      BY <1>t, <3>1
    <3>7. Given'
      BY <1>t, <3>1
    <3>8. QED
      BY <3>3, <3>4, <3>5, <3>6, <3>7
  <2>2. Balanced'
    BY <1>2, <1>i, <2>q, <2>h, <1>none DEF DisconnectedHandler
  <2>3. NoStrayLink'
    BY <1>2, <1>i, <2>q, <2>h, <1>none DEF DisconnectedHandler
  <2>4. QueueOrder'
    BY <1>2, <1>i, <2>q, <2>h, <1>none DEF DisconnectedHandler
  <2>5. ConnectingHolds'
    BY <1>2, <1>i, <2>q, <2>h, <1>none DEF DisconnectedHandler
  <2>6. ConnectionHolds'
    BY <1>2, <1>i, <2>q, <2>h, <1>none DEF DisconnectedHandler
  <2>7. EventAccounted'
    BY <1>2, <1>i, <2>q, <2>h, <1>none DEF DisconnectedHandler
  <2>8. LinksAccounted'
    BY <1>2, <1>i, <2>q, <2>h, <1>none DEF DisconnectedHandler
  <2>9. LinkSettled'
    BY <1>2, <1>i, <2>q, <2>h, <1>none DEF DisconnectedHandler
  <2>10. OneRequest'
    BY <1>2, <1>i, <2>q, <2>h, <1>none DEF DisconnectedHandler
  <2>11. QED
    BY <2>o, <2>1, <2>2, <2>3, <2>4, <2>5, <2>6, <2>7, <2>8, <2>9, <2>10 DEF Accounts
<1>3. CASE Teardown
  <2>q. work_queue' = work_queue => QueueIs({}, {})
    BY <1>0, <1>3, QueueKept DEF Handlers, Timers
  <2>o. Once(work_queue') /\ work_queue' \in Seq(Handlers)
    BY <1>3, <1>i, <2>q, <1>none DEF Once, Teardown, RemovesCandidateBond
  <2>e. mouse_conn \in Mice
    BY <1>i, <1>3 DEF Teardown
  <2>l. link' \in [Mice -> Links]
    <3>1. \/ link' = link
          \/ mouse_conn \in Mice /\ link' = [link EXCEPT ![mouse_conn] = "closing"]
          \/ mouse_conn \in Mice /\ link' = [link EXCEPT ![mouse_conn] = "down"]
          \/ mouse_conn \in Mice /\ link' = [link EXCEPT ![mouse_conn] = link[mouse_conn]]
      BY <1>i, <2>e, <1>3 DEF Teardown, RemovesCandidateBond
    <3>2. QED
      BY <1>t, <3>1
  <2>1. TypeOK'
    <3>1. UNCHANGED <<stage, failure, mouse_conn, peer, pairing, scan_wanted,
                    connecting_address, new_candidate, candidate_bonded, forget_requested,
                    clear_held, started, connected_event_conn, connected_error, session,
                    pending_address, timers, local, security, gatt, references, saved_peer,
                    attempt_bond, scenario, budget>>
      BY <1>3 DEF Teardown, RemovesCandidateBond
    <3>2. pc' \in {"idle", "auto", "lookup", "taken", "completed", "secure", "request", "secured",
                  "discover", "count", "save", "ready", "teardown", "release", "forget", "delete"}
      BY <1>3, <1>t, <1>i DEF Teardown, RemovesCandidateBond
    <3>3. auto_connect' \subseteq Mice
      BY <1>3, <1>t, <1>i DEF Teardown, RemovesCandidateBond
    <3>4. bonds' \subseteq Addresses
      BY <1>3, <1>t, <1>i DEF Teardown, RemovesCandidateBond
    <3>5. Flags'
      BY <1>t, <3>1
    <3>6. Devices'
      BY <1>t, <3>1
    <3>7. WorkerTypes'
      BY <1>t, <3>1, <2>o, <3>2
    <3>8. HostTypes'
      BY <1>t, <3>1, <2>l, <3>3, <3>4
    <3>9. Given'
      BY <1>t, <3>1
    <3>10. QED
      BY <3>5, <3>6, <3>7, <3>8, <3>9
  <2>2. Balanced'
    BY <1>3, <1>i, <2>q, <1>none, <2>e, <2>l DEF Teardown, RemovesCandidateBond
  <2>3. NoStrayLink'
    <3>1. ASSUME NEW c \in Mice
          PROVE  link'[c] # "down" => link[c] # "down"
      BY <1>t, <2>e, <1>3 DEF Teardown, RemovesCandidateBond
    <3>2. UNCHANGED <<mouse_conn, pending_address>> /\ pc # "lookup"
      BY <1>3 DEF Teardown
    <3>3. QED
      BY <1>i, <3>1, <3>2
  <2>4. QueueOrder'
    BY <1>3, <1>i, <2>q, <1>none, <2>e, <2>l DEF Teardown, RemovesCandidateBond
  <2>5. ConnectingHolds'
    BY <1>3, <1>i, <2>q, <1>none, <2>e, <2>l DEF Teardown, RemovesCandidateBond
  <2>6. ConnectionHolds'
    BY <1>3, <1>i, <2>q, <1>none, <2>e, <2>l DEF Teardown, RemovesCandidateBond
  <2>7. EventAccounted'
    BY <1>3, <1>i, <2>q, <1>none, <2>e, <2>l DEF Teardown, RemovesCandidateBond
  <2>8. LinksAccounted'
    <3>1. /\ pc = "teardown" /\ pc' = "release"
          /\ UNCHANGED <<mouse_conn, pending_address, connected_event_conn, connected_error,
                         security, work_queue>>
      BY <1>3 DEF Teardown
    <3>2. link[mouse_conn] = "down" /\ mouse_conn \notin auto_connect
      BY <1>i, <2>e, <3>1
    <3>3. auto_connect' = auto_connect \ {mouse_conn}
      BY <1>3 DEF Teardown, RemovesCandidateBond
    <3>4. \A c \in Mice : link'[c] = link[c]
      BY <1>t, <2>e, <3>2, <1>3 DEF Teardown, RemovesCandidateBond
    <3>5. Queued("disconnected")' <=> Queued("disconnected")
      BY <2>q, <3>1
    <3>6. QED
      BY <1>i, <1>none, <3>1, <3>2, <3>3, <3>4, <3>5
  <2>9. LinkSettled'
    BY <1>3, <1>i, <2>q, <1>none, <2>e, <2>l DEF Teardown, RemovesCandidateBond
  <2>10. OneRequest'
    BY <1>3, <1>i, <2>q, <1>none, <2>e, <2>l DEF Teardown, RemovesCandidateBond
  <2>11. QED
    BY <2>o, <2>1, <2>2, <2>3, <2>4, <2>5, <2>6, <2>7, <2>8, <2>9, <2>10 DEF Accounts
<1>4. CASE Release
  <2>q. /\ work_queue' = work_queue => QueueIs({}, {})
        /\ work_queue' = Dequeue(work_queue, "timeout") => QueueIs({}, {"timeout"})
    BY <1>0, <1>4, QueueKept, QueueDrop DEF Handlers, Timers
  <2>o. Once(work_queue') /\ work_queue' \in Seq(Handlers)
    BY <1>4, <1>i, <2>q, <1>none DEF Once, Release
  <2>s. timers' \subseteq Timers
    <3>1. \/ timers' = (timers \ {"timeout"})
          \/ timers' = (timers \ {"timeout"}) \cup {"retry"}
      BY <1>t, <1>4 DEF Release
    <3>2. QED
      BY <1>t, <3>1
  <2>r. references' \in [Mice -> Nat] /\ Balanced'
    <3>0. /\ mouse_conn \in Mice /\ mouse_conn' = None
          /\ connected_event_conn' = connected_event_conn
          /\ references' = [references EXCEPT ![mouse_conn] = @ - 1]
      BY <1>i, <1>none, <1>4 DEF Release
    <3>1. references' \in [Mice -> Int]
      BY <1>t, <3>0
    <3>2. ASSUME NEW m \in Mice
          PROVE  references'[m] = Held(m)'
      <4>1. references[m] = Held(m) /\ m # None
        BY <1>b, <1>none, <3>2
      <4>2. references[m] \in Nat
        BY <1>t
      <4>3. references'[m] = IF m = mouse_conn THEN references[m] - 1 ELSE references[m]
        BY <1>t, <1>none, <3>0
      <4>4. QED
        BY <3>0, <4>1, <4>2, <4>3
    <3>3. \A m \in Mice : Held(m)' \in Nat
      OBVIOUS
    <3>4. QED
      BY <3>1, <3>2, <3>3 DEF Balanced
  <2>t. /\ failure' \in BOOLEAN
        /\ scan_wanted' \in BOOLEAN
        /\ candidate_bonded' \in BOOLEAN
    <3>1. failure' \in BOOLEAN
      BY <1>t, <1>4 DEF Release
    <3>2. scan_wanted' \in BOOLEAN
      BY <1>t, <1>4 DEF Release
    <3>3. candidate_bonded' \in BOOLEAN
      BY <1>t, <1>4 DEF Release
    <3>4. QED
      BY <3>1, <3>2, <3>3
  <2>1. TypeOK'
    <3>1. UNCHANGED <<peer, pairing, connecting_address, new_candidate, forget_requested,
                    clear_held, started, connected_event_conn, connected_error, session,
                    pending_address, link, security, auto_connect, gatt, bonds, saved_peer,
                    attempt_bond, scenario, budget>>
      BY <1>4 DEF Release
    <3>2. stage' \in Stages
      BY <1>4, <1>t, <1>i DEF Release
    <3>3. mouse_conn' \in Mice \cup {None}
      BY <1>4, <1>t, <1>i DEF Release
    <3>4. pc' \in {"idle", "auto", "lookup", "taken", "completed", "secure", "request", "secured",
                  "discover", "count", "save", "ready", "teardown", "release", "forget", "delete"}
      BY <1>4, <1>t, <1>i DEF Release
    <3>5. local' \in Mice \cup Stages \cup {"retry", None}
      BY <1>4, <1>t, <1>i DEF Release
    <3>6. references' \in [Mice -> Nat]
      BY <2>r
    <3>7. Flags'
      BY <1>t, <3>1, <2>t
    <3>8. Devices'
      BY <1>t, <3>1, <3>3
    <3>9. WorkerTypes'
      BY <1>t, <2>o, <3>2, <2>s, <3>4, <3>5
    <3>10. HostTypes'
      BY <1>t, <3>1, <3>6
    <3>11. Given'
      BY <1>t, <3>1
    <3>12. QED
      BY <3>7, <3>8, <3>9, <3>10, <3>11
  <2>2. Balanced'
    BY <2>r
  <2>3. NoStrayLink'
    BY <1>4, <1>i, <2>q, <1>none, <2>s, <2>r DEF Release
  <2>4. QueueOrder'
    BY <1>4, <1>i, <2>q, <1>none, <2>s, <2>r DEF Release
  <2>5. ConnectingHolds'
    BY <1>4, <1>i, <2>q, <1>none, <2>s, <2>r DEF Release
  <2>6. ConnectionHolds'
    BY <1>4, <1>i, <2>q, <1>none, <2>s, <2>r DEF Release
  <2>7. EventAccounted'
    BY <1>4, <1>i, <2>q, <1>none, <2>s, <2>r DEF Release
  <2>8. LinksAccounted'
    <3>1. /\ pc = "release" /\ pc' \in {"idle", "forget"} /\ mouse_conn \in Mice
          /\ mouse_conn' = None
          /\ UNCHANGED <<connected_event_conn, connected_error, link, security, auto_connect>>
      BY <1>i, <1>none, <1>4 DEF Release
    <3>2. link[mouse_conn] = "down" /\ auto_connect = {}
      BY <1>i, <1>none, <3>1
    <3>3. Queued("disconnected")' <=> Queued("disconnected")
      BY <2>q, <1>4 DEF Release
    <3>4. QED
      BY <1>i, <1>none, <3>1, <3>2, <3>3
  <2>9. LinkSettled'
    BY <1>4, <1>i, <2>q, <1>none, <2>s, <2>r DEF Release
  <2>10. OneRequest'
    BY <1>4, <1>i, <2>q, <1>none, <2>s, <2>r DEF Release
  <2>11. QED
    BY <2>o, <2>1, <2>2, <2>3, <2>4, <2>5, <2>6, <2>7, <2>8, <2>9, <2>10 DEF Accounts
<1>5. CASE Forget
  <2>q. /\ work_queue' = work_queue => QueueIs({}, {})
        /\ work_queue' = Dequeue(work_queue, "pair_timeout") => QueueIs({}, {"pair_timeout"})
    BY <1>0, <1>5, QueueKept, QueueDrop DEF Handlers, Timers
  <2>o. Once(work_queue') /\ work_queue' \in Seq(Handlers)
    BY <1>5, <1>i, <2>q, <1>none DEF Once, Forget, have_peer
  <2>s. timers' \subseteq Timers
    <3>1. \/ timers' = (timers \ {"pair_timeout"})
          \/ timers' = (timers \ {"pair_timeout"}) \cup {"retry"}
      BY <1>t, <1>5 DEF Forget, have_peer
    <3>2. QED
      BY <1>t, <3>1
  <2>t. /\ pairing' \in BOOLEAN
        /\ scan_wanted' \in BOOLEAN
        /\ forget_requested' \in BOOLEAN
    <3>1. pairing' \in BOOLEAN
      BY <1>t, <1>5 DEF Forget, have_peer
    <3>2. scan_wanted' \in BOOLEAN
      BY <1>t, <1>5 DEF Forget, have_peer
    <3>3. forget_requested' \in BOOLEAN
      BY <1>t, <1>5 DEF Forget, have_peer
    <3>4. QED
      BY <3>1, <3>2, <3>3
  <2>1. TypeOK'
    <3>1. UNCHANGED <<stage, failure, mouse_conn, peer, connecting_address, new_candidate,
                    candidate_bonded, clear_held, started, connected_event_conn,
                    connected_error, session, pending_address, security, gatt, references,
                    saved_peer, attempt_bond, scenario, budget>>
      BY <1>5 DEF Forget, have_peer
    <3>2. pc' \in {"idle", "auto", "lookup", "taken", "completed", "secure", "request", "secured",
                  "discover", "count", "save", "ready", "teardown", "release", "forget", "delete"}
      BY <1>5, <1>t, <1>i DEF Forget, have_peer
    <3>3. local' \in Mice \cup Stages \cup {"retry", None}
      BY <1>5, <1>t, <1>i DEF Forget, have_peer
    <3>4. link' \in [Mice -> Links]
      BY <1>5, <1>t, <1>i DEF Forget, have_peer
    <3>5. auto_connect' \subseteq Mice
      BY <1>5, <1>t, <1>i DEF Forget, have_peer
    <3>6. bonds' \subseteq Addresses
      BY <1>5, <1>t, <1>i DEF Forget, have_peer
    <3>7. Flags'
      BY <1>t, <3>1, <2>t
    <3>8. Devices'
      BY <1>t, <3>1
    <3>9. WorkerTypes'
      BY <1>t, <3>1, <2>o, <2>s, <3>2, <3>3
    <3>10. HostTypes'
      BY <1>t, <3>1, <3>4, <3>5, <3>6
    <3>11. Given'
      BY <1>t, <3>1
    <3>12. QED
      BY <3>7, <3>8, <3>9, <3>10, <3>11
  <2>2. Balanced'
    BY <1>5, <1>i, <2>q, <1>none, <2>s DEF Forget, have_peer
  <2>3. NoStrayLink'
    BY <1>5, <1>i, <2>q, <1>none, <2>s DEF Forget, have_peer
  <2>4. QueueOrder'
    BY <1>5, <1>i, <2>q, <1>none, <2>s DEF Forget, have_peer
  <2>5. ConnectingHolds'
    BY <1>5, <1>i, <2>q, <1>none, <2>s DEF Forget, have_peer
  <2>6. ConnectionHolds'
    BY <1>5, <1>i, <2>q, <1>none, <2>s DEF Forget, have_peer
  <2>7. EventAccounted'
    BY <1>5, <1>i, <2>q, <1>none, <2>s DEF Forget, have_peer
  <2>8. LinksAccounted'
    <3>1. UNCHANGED <<mouse_conn, connected_event_conn, connected_error, pending_address,
                    security>>
      BY <1>5 DEF Forget, have_peer
    <3>2. mouse_conn = None /\ pc = "forget" /\ pc' \in {"idle", "delete"}
      BY <1>5, <1>i, <2>q, <1>none DEF Forget, have_peer
    <3>3. \A m \in Mice : link[m] = "down"
      BY <1>5, <1>i, <2>q, <1>none DEF Forget, have_peer
    <3>4. \A m \in Mice : link'[m] = link[m]
      BY <1>i, <3>3, <1>5 DEF Forget, have_peer
    <3>5. auto_connect' \subseteq auto_connect
      BY <1>5, <1>i, <2>q, <1>none DEF Forget, have_peer
    <3>6. /\ Queued("disconnected")' <=> Queued("disconnected")
      BY <1>5, <1>i, <2>q, <1>none DEF Forget, have_peer
    <3>7. QED
      BY <1>i, <3>1, <3>2, <3>3, <3>4, <3>5, <3>6, <1>none
  <2>9. LinkSettled'
    BY <1>5, <1>i, <2>q, <1>none, <2>s DEF Forget, have_peer
  <2>10. OneRequest'
    BY <1>5, <1>i, <2>q, <1>none, <2>s DEF Forget, have_peer
  <2>11. QED
    BY <2>o, <2>1, <2>2, <2>3, <2>4, <2>5, <2>6, <2>7, <2>8, <2>9, <2>10 DEF Accounts
<1>6. CASE Delete
  <2>q. /\ work_queue' = work_queue => QueueIs({}, {})
        /\ work_queue' = Dequeue(work_queue, "pair_timeout") => QueueIs({}, {"pair_timeout"})
    BY <1>0, <1>6, QueueKept, QueueDrop DEF Handlers, Timers
  <2>o. Once(work_queue') /\ work_queue' \in Seq(Handlers)
    BY <1>6, <1>i, <2>q, <1>none DEF Once, Delete
  <2>s. timers' \subseteq Timers
    <3>1. \/ timers' = (timers \ {"pair_timeout"})
          \/ timers' = (timers \ {"pair_timeout"}) \cup {"retry"}
      BY <1>t, <1>6 DEF Delete
    <3>2. QED
      BY <1>t, <3>1
  <2>t. /\ scan_wanted' \in BOOLEAN
        /\ forget_requested' \in BOOLEAN
    <3>1. scan_wanted' \in BOOLEAN
      BY <1>t, <1>6 DEF Delete
    <3>2. forget_requested' \in BOOLEAN
      BY <1>t, <1>6 DEF Delete
    <3>3. QED
      BY <3>1, <3>2
  <2>1. TypeOK'
    <3>1. UNCHANGED <<stage, failure, mouse_conn, pairing, connecting_address, new_candidate,
                    candidate_bonded, clear_held, started, connected_event_conn,
                    connected_error, session, pending_address, link, security, auto_connect,
                    gatt, references, bonds, attempt_bond, scenario, budget>>
      BY <1>6 DEF Delete
    <3>2. peer' \in Mice \cup {None}
      BY <1>6, <1>t, <1>i DEF Delete
    <3>3. pc' \in {"idle", "auto", "lookup", "taken", "completed", "secure", "request", "secured",
                  "discover", "count", "save", "ready", "teardown", "release", "forget", "delete"}
      BY <1>6, <1>t, <1>i DEF Delete
    <3>4. local' \in Mice \cup Stages \cup {"retry", None}
      BY <1>6, <1>t, <1>i DEF Delete
    <3>5. saved_peer' \in Mice \cup {None}
      BY <1>6, <1>t, <1>i DEF Delete
    <3>6. Flags'
      BY <1>t, <3>1, <2>t
    <3>7. Devices'
      BY <1>t, <3>1, <3>2, <3>5
    <3>8. WorkerTypes'
      BY <1>t, <3>1, <2>o, <2>s, <3>3, <3>4
    <3>9. HostTypes'
      BY <1>t, <3>1
    <3>10. Given'
      BY <1>t, <3>1
    <3>11. QED
      BY <3>6, <3>7, <3>8, <3>9, <3>10
  <2>2. Balanced'
    BY <1>6, <1>i, <2>q, <1>none, <2>s DEF Delete
  <2>3. NoStrayLink'
    BY <1>6, <1>i, <2>q, <1>none, <2>s DEF Delete
  <2>4. QueueOrder'
    BY <1>6, <1>i, <2>q, <1>none, <2>s DEF Delete
  <2>5. ConnectingHolds'
    BY <1>6, <1>i, <2>q, <1>none, <2>s DEF Delete
  <2>6. ConnectionHolds'
    BY <1>6, <1>i, <2>q, <1>none, <2>s DEF Delete
  <2>7. EventAccounted'
    BY <1>6, <1>i, <2>q, <1>none, <2>s DEF Delete
  <2>8. LinksAccounted'
    BY <1>6, <1>i, <2>q, <1>none, <2>s DEF Delete
  <2>9. LinkSettled'
    BY <1>6, <1>i, <2>q, <1>none, <2>s DEF Delete
  <2>10. OneRequest'
    BY <1>6, <1>i, <2>q, <1>none, <2>s DEF Delete
  <2>11. QED
    BY <2>o, <2>1, <2>2, <2>3, <2>4, <2>5, <2>6, <2>7, <2>8, <2>9, <2>10 DEF Accounts
<1>7. QED
  BY <1>1, <1>2, <1>3, <1>4, <1>5, <1>6

(* connect_work_cb and connect_mouse.                                        *)
LEMMA AccountsConnecting ==
  ASSUME Accounts,
         ConnectHandler \/ AutoConnect \/ Lookup
  PROVE  Accounts'
<1>0. Once(work_queue)
  BY DEF Accounts
<1>i. /\ TypeOK /\ Balanced /\ NoStrayLink /\ QueueOrder /\ ConnectingHolds
      /\ ConnectionHolds /\ EventAccounted /\ LinksAccounted /\ LinkSettled /\ OneRequest
  BY DEF Accounts
<1>t. TypeOK
  BY <1>i
<1>b. Balanced
  BY <1>i
<1>none. None \notin Mice
  BY ClientAssumption
<1> USE DEF candidateVars, peerVars, userVars, eventVars, keptVars, workerVars, queueVars,
            stepVars, linkVars, hostVars, clientVars,
            Stages, Links, Securities, Handlers, Timers, Profiles, Faults, Addresses, QueueIs
<1> USE DEF TypeOK, Flags, Devices, WorkerTypes, HostTypes, Given, Balanced, Held, NoStrayLink,
            QueueOrder, ConnectingHolds, ConnectionHolds, EventAccounted, LinksAccounted,
            LinkSettled, OneRequest,
            Connecting, Finishing, TearingDown, Forgetting, EarlyStages, LateStages, EventOnWay
<1> USE DEF owns, valid_callback, Fail, next_stage, Submit, RequestRetry, RetryWork, RetryWanted,
            AutoOff, Unpair, LetGo, ForgetDone, ConnectFailed, SecurityChanged, Connected,
            Refused, Answer, Ignored, Failed, Advance, Request, DiscoverStep
<1>1. CASE ConnectHandler
  <2>q. work_queue' = Rest => QueueIs({}, {"connect"})
    BY <1>0, <1>1, QueueTake DEF Handlers, Timers, ConnectHandler
  <2>h. /\ pc = "idle" /\ Queued("connect")
        /\ \A a \in Handlers : Before(work_queue, a, "connect") => ~Queued(a)
    BY <1>0, <1>1, QueueHead DEF ConnectHandler
  <2>o. Once(work_queue') /\ work_queue' \in Seq(Handlers)
    BY <1>1, <1>i, <2>q, <2>h, <1>none
       DEF Once, ConnectHandler, MayConnect, NoFreeBond, NoSession, NoProfile
  <2>e. session' = session \/ (session' = NoSession /\ gatt = NoRequest)
    BY <1>1, <1>i, <2>q, <2>h, <1>none
       DEF ConnectHandler, MayConnect, NoFreeBond, NoSession, NoProfile
  <2>s. /\ session' \in [profile : Profiles' \cup {NoProfile}, index : Nat, covered : SUBSET Needs]
        /\ session'.index <= Len(session'.profile.reports)
    <3>1. session' = session \/ session' = NoSession
      BY <1>1 DEF ConnectHandler, MayConnect, NoFreeBond, NoSession, NoProfile
    <3>2. scenario' = scenario
      BY <1>1 DEF ConnectHandler, MayConnect, NoFreeBond, NoSession, NoProfile
    <3>3. NoSession \in [profile : Profiles \cup {NoProfile}, index : Nat, covered : SUBSET Needs]
          /\ NoSession.index <= Len(NoSession.profile.reports)
      BY EmptySeq DEF NoSession, NoProfile
    <3>4. QED
      BY <1>t, <3>1, <3>2, <3>3
  <2>t. /\ failure' \in BOOLEAN
        /\ pairing' \in BOOLEAN
        /\ scan_wanted' \in BOOLEAN
        /\ new_candidate' \in BOOLEAN
        /\ candidate_bonded' \in BOOLEAN
    <3>1. failure' \in BOOLEAN
      BY <1>t, <1>1 DEF ConnectHandler, MayConnect, NoFreeBond, NoSession, NoProfile
    <3>2. pairing' \in BOOLEAN
      BY <1>t, <1>1 DEF ConnectHandler, MayConnect, NoFreeBond, NoSession, NoProfile
    <3>3. scan_wanted' \in BOOLEAN
      BY <1>t, <1>1 DEF ConnectHandler, MayConnect, NoFreeBond, NoSession, NoProfile
    <3>4. new_candidate' \in BOOLEAN
      BY <1>t, <1>1 DEF ConnectHandler, MayConnect, NoFreeBond, NoSession, NoProfile
    <3>5. candidate_bonded' \in BOOLEAN
      BY <1>t, <1>1 DEF ConnectHandler, MayConnect, NoFreeBond, NoSession, NoProfile
    <3>6. QED
      BY <3>1, <3>2, <3>3, <3>4, <3>5
  <2>1. TypeOK'
    <3>1. UNCHANGED <<mouse_conn, peer, forget_requested, clear_held, started,
                    connected_event_conn, connected_error, timers, local, link, security,
                    auto_connect, gatt, references, bonds, saved_peer, scenario, budget>>
      BY <1>1 DEF ConnectHandler, MayConnect, NoFreeBond, NoSession, NoProfile
    <3>2. stage' \in Stages
      BY <1>1, <1>t, <2>h, <1>i DEF ConnectHandler, MayConnect, NoFreeBond, NoSession, NoProfile
    <3>3. connecting_address' \in Mice \cup {None}
      BY <1>1, <1>t, <2>h, <1>i DEF ConnectHandler, MayConnect, NoFreeBond, NoSession, NoProfile
    <3>4. pending_address' \in Mice \cup {None}
      BY <1>1, <1>t, <2>h, <1>i DEF ConnectHandler, MayConnect, NoFreeBond, NoSession, NoProfile
    <3>5. pc' \in {"idle", "auto", "lookup", "taken", "completed", "secure", "request", "secured",
                  "discover", "count", "save", "ready", "teardown", "release", "forget", "delete"}
      BY <1>1, <1>t, <2>h, <1>i DEF ConnectHandler, MayConnect, NoFreeBond, NoSession, NoProfile
    <3>6. attempt_bond' \in Mice \cup {None}
      BY <1>1, <1>t, <2>h, <1>i DEF ConnectHandler, MayConnect, NoFreeBond, NoSession, NoProfile
    <3>7. Flags'
      BY <1>t, <3>1, <2>t
    <3>8. Devices'
      BY <1>t, <3>1, <3>3, <3>4, <3>6
    <3>9. WorkerTypes'
      BY <1>t, <3>1, <2>o, <3>2, <3>5
    <3>10. HostTypes'
      BY <1>t, <3>1
    <3>11. Given'
      BY <1>t, <3>1, <2>s
    <3>12. QED
      BY <3>7, <3>8, <3>9, <3>10, <3>11
  <2>2. Balanced'
    BY <1>1, <1>i, <2>q, <2>h, <1>none, <2>e, <2>s
       DEF ConnectHandler, MayConnect, NoFreeBond, NoSession, NoProfile
  <2>3. NoStrayLink'
    BY <1>1, <1>i, <2>q, <2>h, <1>none, <2>e, <2>s
       DEF ConnectHandler, MayConnect, NoFreeBond, NoSession, NoProfile
  <2>4. QueueOrder'
    BY <1>1, <1>i, <2>q, <2>h, <1>none, <2>e, <2>s
       DEF ConnectHandler, MayConnect, NoFreeBond, NoSession, NoProfile
  <2>5. ConnectingHolds'
    BY <1>1, <1>i, <2>q, <2>h, <1>none, <2>e, <2>s
       DEF ConnectHandler, MayConnect, NoFreeBond, NoSession, NoProfile
  <2>6. ConnectionHolds'
    BY <1>1, <1>i, <2>q, <2>h, <1>none, <2>e, <2>s
       DEF ConnectHandler, MayConnect, NoFreeBond, NoSession, NoProfile
  <2>7. EventAccounted'
    BY <1>1, <1>i, <2>q, <2>h, <1>none, <2>e, <2>s
       DEF ConnectHandler, MayConnect, NoFreeBond, NoSession, NoProfile
  <2>8. LinksAccounted'
    BY <1>1, <1>i, <2>q, <2>h, <1>none, <2>e, <2>s
       DEF ConnectHandler, MayConnect, NoFreeBond, NoSession, NoProfile
  <2>9. LinkSettled'
    BY <1>1, <1>i, <2>q, <2>h, <1>none, <2>e, <2>s
       DEF ConnectHandler, MayConnect, NoFreeBond, NoSession, NoProfile
  <2>10. OneRequest'
    BY <1>1, <1>i, <2>q, <2>h, <1>none, <2>e, <2>s
       DEF ConnectHandler, MayConnect, NoFreeBond, NoSession, NoProfile
  <2>11. QED
    BY <2>o, <2>1, <2>2, <2>3, <2>4, <2>5, <2>6, <2>7, <2>8, <2>9, <2>10 DEF Accounts
<1>2. CASE AutoConnect
  <2>q. work_queue' = work_queue => QueueIs({}, {})
    BY <1>0, <1>2, QueueKept DEF Handlers, Timers
  <2>o. Once(work_queue') /\ work_queue' \in Seq(Handlers)
    BY <1>2, <1>i, <2>q, <1>none DEF Once, AutoConnect
  <2>e. /\ pc = "auto" /\ pending_address \in Mice /\ mouse_conn = None
        /\ connected_event_conn = None
        /\ UNCHANGED <<mouse_conn, connected_event_conn, connected_error, security>>
        /\ ~Queued("disconnected")'
        /\ \/ /\ auto_connect' = auto_connect \cup {pending_address}
              /\ pending_address' = pending_address
              /\ link' = [link EXCEPT ![pending_address] = IF @ = "down" THEN "scan" ELSE @]
              /\ pc' = "lookup"
           \/ UNCHANGED <<link, auto_connect>> /\ pc' = "idle" /\ pending_address' = None
    BY <1>2, <1>i, <2>q, <1>none DEF AutoConnect
  <2>s. timers' \subseteq Timers
    <3>1. \/ timers' = timers
          \/ timers' = timers \cup {"retry"}
      BY <1>t, <1>2 DEF AutoConnect
    <3>2. QED
      BY <1>t, <3>1
  <2>t. scan_wanted' \in BOOLEAN
    BY <1>t, <1>2 DEF AutoConnect
  <2>1. TypeOK'
    <3>1. UNCHANGED <<failure, mouse_conn, peer, pairing, connecting_address, new_candidate,
                    candidate_bonded, forget_requested, clear_held, started,
                    connected_event_conn, connected_error, session, local, security, gatt,
                    references, bonds, saved_peer, attempt_bond, scenario, budget>>
      BY <1>2 DEF AutoConnect
    <3>2. stage' \in Stages
      BY <1>2, <1>t, <1>i DEF AutoConnect
    <3>3. pending_address' \in Mice \cup {None}
      BY <1>2, <1>t, <1>i DEF AutoConnect
    <3>4. pc' \in {"idle", "auto", "lookup", "taken", "completed", "secure", "request", "secured",
                  "discover", "count", "save", "ready", "teardown", "release", "forget", "delete"}
      BY <1>2, <1>t, <1>i DEF AutoConnect
    <3>5. link' \in [Mice -> Links]
      BY <1>2, <1>t, <1>i DEF AutoConnect
    <3>6. auto_connect' \subseteq Mice
      BY <1>2, <1>t, <1>i DEF AutoConnect
    <3>7. Flags'
      BY <1>t, <3>1, <2>t
    <3>8. Devices'
      BY <1>t, <3>1, <3>3
    <3>9. WorkerTypes'
      BY <1>t, <3>1, <2>o, <3>2, <2>s, <3>4
    <3>10. HostTypes'
      BY <1>t, <3>1, <3>5, <3>6
    <3>11. Given'
      BY <1>t, <3>1
    <3>12. QED
      BY <3>7, <3>8, <3>9, <3>10, <3>11
  <2>2. Balanced'
    BY <1>2, <1>i, <2>q, <1>none, <2>e, <2>s DEF AutoConnect
  <2>3. NoStrayLink'
    BY <1>2, <1>i, <2>q, <1>none, <2>e, <2>s DEF AutoConnect
  <2>4. QueueOrder'
    BY <1>2, <1>i, <2>q, <1>none, <2>e, <2>s DEF AutoConnect
  <2>5. ConnectingHolds'
    BY <1>2, <1>i, <2>q, <1>none, <2>e, <2>s DEF AutoConnect
  <2>6. ConnectionHolds'
    BY <1>2, <1>i, <2>q, <1>none, <2>e, <2>s DEF AutoConnect
  <2>7. EventAccounted'
    BY <1>2, <1>i, <2>q, <1>none, <2>e, <2>s DEF AutoConnect
  <2>8. LinksAccounted'
    <3>1. /\ \A m \in Mice : link[m] = "down"
          /\ auto_connect = {}
      BY <1>i, <1>none, <2>e
    <3>2. CASE /\ auto_connect' = {pending_address} /\ pending_address' = pending_address
               /\ pc' = "lookup" /\ link'[pending_address] = "scan"
               /\ \A m \in Mice : m # pending_address => link'[m] = "down"
      BY <1>i, <1>none, <2>e, <3>1, <3>2
    <3>3. CASE UNCHANGED <<link, auto_connect>> /\ pc' = "idle" /\ pending_address' = None
      BY <1>i, <1>none, <2>e, <3>1, <3>3
    <3>4. QED
      BY <1>t, <2>e, <3>1, <3>2, <3>3
  <2>9. LinkSettled'
    BY <1>2, <1>i, <2>q, <1>none, <2>e, <2>s DEF AutoConnect
  <2>10. OneRequest'
    BY <1>2, <1>i, <2>q, <1>none, <2>e, <2>s DEF AutoConnect
  <2>11. QED
    BY <2>o, <2>1, <2>2, <2>3, <2>4, <2>5, <2>6, <2>7, <2>8, <2>9, <2>10 DEF Accounts
<1>3. CASE Lookup
  <2>q. work_queue' = work_queue => QueueIs({}, {})
    BY <1>0, <1>3, QueueKept DEF Handlers, Timers
  <2>o. Once(work_queue') /\ work_queue' \in Seq(Handlers)
    BY <1>3, <1>i, <2>q, <1>none DEF Once, Lookup
  <2>e. /\ pc = "lookup" /\ pc' = "idle" /\ pending_address' = None /\ pending_address \in Mice
        /\ mouse_conn = None /\ connecting_address = pending_address /\ stage = "CONNECTING"
        /\ ~scan_wanted' /\ UNCHANGED connecting_address
        /\ UNCHANGED <<connected_event_conn, connected_error, security, gatt, session, failure,
                       local>>
        /\ \A x \in Handlers : Queued(x)' <=> Queued(x)
        /\ \/ /\ mouse_conn' = pending_address /\ stage' = stage
              /\ UNCHANGED <<link, auto_connect>>
           \/ /\ link[pending_address] = "scan"
              /\ mouse_conn' = None /\ stage' = "IDLE"
              /\ auto_connect' = auto_connect \ {pending_address}
              /\ link' = [link EXCEPT ![pending_address] = "down"]
    <3>1. pending_address \in Mice
      BY <1>i, <1>none, <1>3 DEF Lookup
    <3>2. work_queue' = work_queue
      BY <1>3 DEF Lookup
    <3>3. QED
      BY <1>i, <1>none, <2>q, <3>1, <3>2, <1>3 DEF Lookup
  <2>s. timers' \subseteq Timers
    <3>1. \/ timers' = timers \cup {"timeout"}
          \/ timers' = timers \cup {"retry"}
      BY <1>t, <1>3 DEF Lookup
    <3>2. QED
      BY <1>t, <3>1
  <2>r. references' \in [Mice -> Nat] /\ Balanced'
    <3>0. /\ mouse_conn = None /\ pending_address \in Mice
          /\ connected_event_conn' = connected_event_conn
          /\ \/ /\ mouse_conn' = pending_address
                /\ references' = [references EXCEPT ![pending_address] = @ + 1]
             \/ mouse_conn' = mouse_conn /\ references' = references
      BY <1>i, <1>none, <1>3 DEF Lookup
    <3>1. references' \in [Mice -> Int]
      BY <1>t, <3>0
    <3>2. ASSUME NEW m \in Mice
          PROVE  references'[m] = Held(m)'
      <4>1. references[m] = Held(m) /\ m # None
        BY <1>b, <1>none, <3>2
      <4>2. references[m] \in Nat
        BY <1>t
      <4>3. references'[m] = IF m = mouse_conn' THEN references[m] + 1 ELSE references[m]
        BY <1>t, <1>none, <3>0
      <4>4. QED
        BY <3>0, <4>1, <4>2, <4>3
    <3>3. \A m \in Mice : Held(m)' \in Nat
      OBVIOUS
    <3>4. QED
      BY <3>1, <3>2, <3>3 DEF Balanced
  <2>l. link' \in [Mice -> Links]
    BY <1>t, <2>e
  <2>t. scan_wanted' \in BOOLEAN
    BY <1>t, <1>3 DEF Lookup
  <2>1. TypeOK'
    <3>1. UNCHANGED <<failure, peer, pairing, connecting_address, new_candidate,
                    candidate_bonded, forget_requested, clear_held, started,
                    connected_event_conn, connected_error, session, local, security, gatt,
                    bonds, saved_peer, attempt_bond, scenario, budget>>
      BY <1>3 DEF Lookup
    <3>2. stage' \in Stages
      BY <1>3, <1>t, <1>i DEF Lookup
    <3>3. mouse_conn' \in Mice \cup {None}
      BY <1>3, <1>t, <1>i DEF Lookup
    <3>4. pending_address' \in Mice \cup {None}
      BY <1>3, <1>t, <1>i DEF Lookup
    <3>5. pc' \in {"idle", "auto", "lookup", "taken", "completed", "secure", "request", "secured",
                  "discover", "count", "save", "ready", "teardown", "release", "forget", "delete"}
      BY <1>3, <1>t, <1>i DEF Lookup
    <3>6. auto_connect' \subseteq Mice
      BY <1>3, <1>t, <1>i DEF Lookup
    <3>7. references' \in [Mice -> Nat]
      BY <2>r
    <3>8. Flags'
      BY <1>t, <3>1, <2>t
    <3>9. Devices'
      BY <1>t, <3>1, <3>3, <3>4
    <3>10. WorkerTypes'
      BY <1>t, <3>1, <2>o, <3>2, <2>s, <3>5
    <3>11. HostTypes'
      BY <1>t, <3>1, <2>l, <3>6, <3>7
    <3>12. Given'
      BY <1>t, <3>1
    <3>13. QED
      BY <3>8, <3>9, <3>10, <3>11, <3>12
  <2>2. Balanced'
    BY <2>r
  <2>3. NoStrayLink'
    <3>1. ASSUME NEW m \in Mice, link'[m] # "down"
          PROVE  m = mouse_conn'
      <4>1. CASE link' = link /\ mouse_conn' = pending_address
        BY <1>i, <1>none, <2>e, <3>1, <4>1
      <4>2. CASE link' = [link EXCEPT ![pending_address] = "down"]
        <5>1. m # pending_address /\ link[m] # "down"
          BY <1>t, <3>1, <4>2
        <5>2. QED
          BY <1>i, <1>none, <2>e, <5>1
      <4>3. QED
        BY <2>e, <4>1, <4>2
    <3>2. QED
      BY <3>1
  <2>4. QueueOrder'
    BY <1>3, <1>i, <2>q, <1>none, <2>e, <2>s, <2>r, <2>l DEF Lookup
  <2>5. ConnectingHolds'
    BY <1>i, <1>none, <2>e
  <2>6. ConnectionHolds'
    BY <1>i, <1>none, <2>e
  <2>7. EventAccounted'
    BY <1>i, <1>none, <2>e
  <2>8. LinksAccounted'
    <3>1. \A m \in Mice : m # pending_address => link'[m] = link[m]
      BY <1>t, <2>e
    <3>2. link[pending_address] \in {"scan", "up"} /\ auto_connect \subseteq {pending_address}
          /\ pending_address \in auto_connect /\ ~Queued("disconnected")
      BY <1>i, <1>none, <2>e
    <3>3. ~Queued("disconnected")'
      BY <2>e, <3>2
    <3>4. CASE link' = link /\ auto_connect' = auto_connect /\ mouse_conn' = pending_address
      BY <1>i, <1>none, <2>e, <3>2, <3>3, <3>4
    <3>5. CASE /\ link[pending_address] = "scan" /\ link'[pending_address] = "down"
               /\ auto_connect' = {} /\ mouse_conn' = None
      BY <1>i, <1>none, <2>e, <3>1, <3>2, <3>3, <3>5
    <3>6. QED
      BY <1>t, <2>e, <3>2, <3>4, <3>5
  <2>9. LinkSettled'
    BY <1>i, <1>none, <2>e
  <2>10. OneRequest'
    BY <1>i, <1>none, <2>e
  <2>11. QED
    BY <2>o, <2>1, <2>2, <2>3, <2>4, <2>5, <2>6, <2>7, <2>8, <2>9, <2>10 DEF Accounts
<1>4. QED
  BY <1>1, <1>2, <1>3

(* connected_work_cb.                                                        *)
LEMMA AccountsSecuring ==
  ASSUME Accounts,
         ConnectedHandler \/ EventTaken \/ Completed \/ Secure \/ RequestSecurity \/ Secured
  PROVE  Accounts'
<1>0. Once(work_queue)
  BY DEF Accounts
<1>i. /\ TypeOK /\ Balanced /\ NoStrayLink /\ QueueOrder /\ ConnectingHolds
      /\ ConnectionHolds /\ EventAccounted /\ LinksAccounted /\ LinkSettled /\ OneRequest
  BY DEF Accounts
<1>t. TypeOK
  BY <1>i
<1>b. Balanced
  BY <1>i
<1>none. None \notin Mice
  BY ClientAssumption
<1> USE DEF candidateVars, peerVars, userVars, eventVars, keptVars, workerVars, queueVars,
            stepVars, linkVars, hostVars, clientVars,
            Stages, Links, Securities, Handlers, Timers, Profiles, Faults, Addresses, QueueIs
<1> USE DEF TypeOK, Flags, Devices, WorkerTypes, HostTypes, Given, Balanced, Held, NoStrayLink,
            QueueOrder, ConnectingHolds, ConnectionHolds, EventAccounted, LinksAccounted,
            LinkSettled, OneRequest,
            Connecting, Finishing, TearingDown, Forgetting, EarlyStages, LateStages, EventOnWay
<1> USE DEF owns, valid_callback, Fail, next_stage, Submit, RequestRetry, RetryWork, RetryWanted,
            AutoOff, Unpair, LetGo, ForgetDone, ConnectFailed, SecurityChanged, Connected,
            Refused, Answer, Ignored, Failed, Advance, Request, DiscoverStep
<1>1. CASE ConnectedHandler
  <2>q. work_queue' = Rest => QueueIs({}, {"connected"})
    BY <1>0, <1>1, QueueTake DEF Handlers, Timers, ConnectedHandler
  <2>h. /\ pc = "idle" /\ Queued("connected")
        /\ \A a \in Handlers : Before(work_queue, a, "connected") => ~Queued(a)
    BY <1>0, <1>1, QueueHead DEF ConnectedHandler
  <2>o. Once(work_queue') /\ work_queue' \in Seq(Handlers)
    BY <1>1, <1>i, <2>q, <2>h, <1>none DEF Once, ConnectedHandler
  <2>1. TypeOK'
    <3>1. UNCHANGED <<stage, failure, mouse_conn, peer, pairing, scan_wanted,
                    connecting_address, new_candidate, candidate_bonded, forget_requested,
                    clear_held, started, connected_event_conn, connected_error, session,
                    pending_address, timers, link, security, auto_connect, gatt, references,
                    bonds, saved_peer, attempt_bond, scenario, budget>>
      BY <1>1 DEF ConnectedHandler
    <3>2. pc' \in {"idle", "auto", "lookup", "taken", "completed", "secure", "request", "secured",
                  "discover", "count", "save", "ready", "teardown", "release", "forget", "delete"}
      BY <1>1, <1>t, <2>h, <1>i DEF ConnectedHandler
    <3>3. local' \in Mice \cup Stages \cup {"retry", None}
      BY <1>1, <1>t, <2>h, <1>i DEF ConnectedHandler
    <3>4. Flags'
      BY <1>t, <3>1
    <3>5. Devices'
      BY <1>t, <3>1
    <3>6. WorkerTypes'
      BY <1>t, <3>1, <2>o, <3>2, <3>3
    <3>7. HostTypes'
      BY <1>t, <3>1
    <3>8. Given'
      BY <1>t, <3>1
    <3>9. QED
      BY <3>4, <3>5, <3>6, <3>7, <3>8
  <2>2. Balanced'
    BY <1>1, <1>i, <2>q, <2>h, <1>none DEF ConnectedHandler
  <2>3. NoStrayLink'
    BY <1>1, <1>i, <2>q, <2>h, <1>none DEF ConnectedHandler
  <2>4. QueueOrder'
    BY <1>1, <1>i, <2>q, <2>h, <1>none DEF ConnectedHandler
  <2>5. ConnectingHolds'
    BY <1>1, <1>i, <2>q, <2>h, <1>none DEF ConnectedHandler
  <2>6. ConnectionHolds'
    BY <1>1, <1>i, <2>q, <2>h, <1>none DEF ConnectedHandler
  <2>7. EventAccounted'
    BY <1>1, <1>i, <2>q, <2>h, <1>none DEF ConnectedHandler
  <2>8. LinksAccounted'
    BY <1>1, <1>i, <2>q, <2>h, <1>none DEF ConnectedHandler
  <2>9. LinkSettled'
    BY <1>1, <1>i, <2>q, <2>h, <1>none DEF ConnectedHandler
  <2>10. OneRequest'
    BY <1>1, <1>i, <2>q, <2>h, <1>none DEF ConnectedHandler
  <2>11. QED
    BY <2>o, <2>1, <2>2, <2>3, <2>4, <2>5, <2>6, <2>7, <2>8, <2>9, <2>10 DEF Accounts
<1>2. CASE EventTaken
  <2>q. work_queue' = work_queue => QueueIs({}, {})
    BY <1>0, <1>2, QueueKept DEF Handlers, Timers
  <2>o. Once(work_queue') /\ work_queue' \in Seq(Handlers)
    BY <1>2, <1>i, <2>q, <1>none DEF Once, EventTaken
  <2>r. references' \in [Mice -> Nat] /\ Balanced'
    <3>0. /\ connected_event_conn \in Mice /\ mouse_conn' = mouse_conn
          /\ connected_event_conn' = None
          /\ references' = [m \in Mice |-> IF m = connected_event_conn THEN references[m] - 1
                                           ELSE references[m]]
      BY <1>i, <1>none, <1>2 DEF EventTaken
    <3>1. references' \in [Mice -> Int]
      BY <1>t, <3>0
    <3>2. ASSUME NEW m \in Mice
          PROVE  references'[m] = Held(m)'
      <4>1. references[m] = Held(m) /\ m # None
        BY <1>b, <1>none, <3>2
      <4>2. references[m] \in Nat
        BY <1>t
      <4>3. references'[m] = IF m = connected_event_conn THEN references[m] - 1 ELSE references[m]
        BY <1>t, <1>none, <3>0
      <4>4. QED
        BY <3>0, <4>1, <4>2, <4>3
    <3>3. \A m \in Mice : Held(m)' \in Nat
      OBVIOUS
    <3>4. QED
      BY <3>1, <3>2, <3>3 DEF Balanced
  <2>1. TypeOK'
    <3>1. UNCHANGED <<stage, failure, mouse_conn, peer, pairing, scan_wanted,
                    connecting_address, new_candidate, candidate_bonded, forget_requested,
                    clear_held, started, connected_error, session, pending_address, timers,
                    link, security, auto_connect, gatt, bonds, saved_peer, attempt_bond,
                    scenario, budget>>
      BY <1>2 DEF EventTaken
    <3>2. connected_event_conn' \in Mice \cup {None}
      BY <1>2, <1>t, <1>i DEF EventTaken
    <3>3. pc' \in {"idle", "auto", "lookup", "taken", "completed", "secure", "request", "secured",
                  "discover", "count", "save", "ready", "teardown", "release", "forget", "delete"}
      BY <1>2, <1>t, <1>i DEF EventTaken
    <3>4. local' \in Mice \cup Stages \cup {"retry", None}
      BY <1>2, <1>t, <1>i DEF EventTaken
    <3>5. references' \in [Mice -> Nat]
      BY <2>r
    <3>6. Flags'
      BY <1>t, <3>1
    <3>7. Devices'
      BY <1>t, <3>1, <3>2
    <3>8. WorkerTypes'
      BY <1>t, <3>1, <2>o, <3>3, <3>4
    <3>9. HostTypes'
      BY <1>t, <3>1, <3>5
    <3>10. Given'
      BY <1>t, <3>1
    <3>11. QED
      BY <3>6, <3>7, <3>8, <3>9, <3>10
  <2>2. Balanced'
    BY <2>r
  <2>3. NoStrayLink'
    BY <1>2, <1>i, <2>q, <1>none, <2>r DEF EventTaken
  <2>4. QueueOrder'
    BY <1>2, <1>i, <2>q, <1>none, <2>r DEF EventTaken
  <2>5. ConnectingHolds'
    BY <1>2, <1>i, <2>q, <1>none, <2>r DEF EventTaken
  <2>6. ConnectionHolds'
    BY <1>2, <1>i, <2>q, <1>none, <2>r DEF EventTaken
  <2>7. EventAccounted'
    BY <1>2, <1>i, <2>q, <1>none, <2>r DEF EventTaken
  <2>8. LinksAccounted'
    BY <1>2, <1>i, <2>q, <1>none, <2>r DEF EventTaken
  <2>9. LinkSettled'
    BY <1>2, <1>i, <2>q, <1>none, <2>r DEF EventTaken
  <2>10. OneRequest'
    BY <1>2, <1>i, <2>q, <1>none, <2>r DEF EventTaken
  <2>11. QED
    BY <2>o, <2>1, <2>2, <2>3, <2>4, <2>5, <2>6, <2>7, <2>8, <2>9, <2>10 DEF Accounts
<1>3. CASE Completed
  <2>q. /\ work_queue' = work_queue => QueueIs({}, {})
        /\ work_queue' = Enqueue(work_queue, "failure") => QueueIs({"failure"}, {})
        /\ work_queue' = Dequeue(work_queue, "timeout") => QueueIs({}, {"timeout"})
    BY <1>0, <1>3, QueueKept, QueueAdd, QueueDrop DEF Handlers, Timers
  <2>o. Once(work_queue') /\ work_queue' \in Seq(Handlers)
    BY <1>3, <1>i, <2>q, <1>none DEF Once, Completed
  <2>s. timers' \subseteq Timers
    <3>1. \/ timers' = timers
          \/ timers' = (timers \ {"timeout"})
          \/ timers' = (timers \ {"timeout"}) \cup {"retry"}
      BY <1>t, <1>3 DEF Completed
    <3>2. QED
      BY <1>t, <3>1
  <2>r. references' \in [Mice -> Nat] /\ Balanced'
    <3>0. /\ mouse_conn \in Mice /\ connected_event_conn' = connected_event_conn
          /\ \/ mouse_conn' = None /\ references' = [references EXCEPT ![mouse_conn] = @ - 1]
             \/ mouse_conn' = mouse_conn /\ references' = references
      BY <1>i, <1>none, <1>3 DEF Completed
    <3>1. references' \in [Mice -> Int]
      BY <1>t, <3>0
    <3>2. ASSUME NEW m \in Mice
          PROVE  references'[m] = Held(m)'
      <4>1. references[m] = Held(m) /\ m # None
        BY <1>b, <1>none, <3>2
      <4>2. references[m] \in Nat
        BY <1>t
      <4>3. references'[m] = IF m = mouse_conn
                /\ mouse_conn' = None THEN references[m] - 1 ELSE references[m]
        BY <1>t, <1>none, <3>0
      <4>4. QED
        BY <3>0, <4>1, <4>2, <4>3
    <3>3. \A m \in Mice : Held(m)' \in Nat
      OBVIOUS
    <3>4. QED
      BY <3>1, <3>2, <3>3 DEF Balanced
  <2>t. /\ failure' \in BOOLEAN
        /\ scan_wanted' \in BOOLEAN
    <3>1. failure' \in BOOLEAN
      BY <1>t, <1>3 DEF Completed
    <3>2. scan_wanted' \in BOOLEAN
      BY <1>t, <1>3 DEF Completed
    <3>3. QED
      BY <3>1, <3>2
  <2>1. TypeOK'
    <3>1. UNCHANGED <<peer, pairing, connecting_address, new_candidate, candidate_bonded,
                    forget_requested, clear_held, started, connected_event_conn,
                    connected_error, session, pending_address, security, gatt, bonds,
                    saved_peer, attempt_bond, scenario, budget>>
      BY <1>3 DEF Completed
    <3>2. stage' \in Stages
      BY <1>3, <1>t, <1>i DEF Completed
    <3>3. mouse_conn' \in Mice \cup {None}
      BY <1>3, <1>t, <1>i DEF Completed
    <3>4. pc' \in {"idle", "auto", "lookup", "taken", "completed", "secure", "request", "secured",
                  "discover", "count", "save", "ready", "teardown", "release", "forget", "delete"}
      BY <1>3, <1>t, <1>i DEF Completed
    <3>5. local' \in Mice \cup Stages \cup {"retry", None}
      BY <1>3, <1>t, <1>i DEF Completed
    <3>6. link' \in [Mice -> Links]
      BY <1>3, <1>t, <1>i DEF Completed
    <3>7. auto_connect' \subseteq Mice
      BY <1>3, <1>t, <1>i DEF Completed
    <3>8. references' \in [Mice -> Nat]
      BY <2>r
    <3>9. Flags'
      BY <1>t, <3>1, <2>t
    <3>10. Devices'
      BY <1>t, <3>1, <3>3
    <3>11. WorkerTypes'
      BY <1>t, <2>o, <3>2, <2>s, <3>4, <3>5
    <3>12. HostTypes'
      BY <1>t, <3>1, <3>6, <3>7, <3>8
    <3>13. Given'
      BY <1>t, <3>1
    <3>14. QED
      BY <3>9, <3>10, <3>11, <3>12, <3>13
  <2>2. Balanced'
    BY <2>r
  <2>3. NoStrayLink'
    BY <1>3, <1>i, <2>q, <1>none, <2>s, <2>r DEF Completed
  <2>4. QueueOrder'
    BY <1>3, <1>i, <2>q, <1>none, <2>s, <2>r DEF Completed
  <2>5. ConnectingHolds'
    BY <1>3, <1>i, <2>q, <1>none, <2>s, <2>r DEF Completed
  <2>6. ConnectionHolds'
    BY <1>3, <1>i, <2>q, <1>none, <2>s, <2>r DEF Completed
  <2>7. EventAccounted'
    BY <1>3, <1>i, <2>q, <1>none, <2>s, <2>r DEF Completed
  <2>8. LinksAccounted'
    BY <1>3, <1>i, <2>q, <1>none, <2>s, <2>r DEF Completed
  <2>9. LinkSettled'
    BY <1>3, <1>i, <2>q, <1>none, <2>s, <2>r DEF Completed
  <2>10. OneRequest'
    BY <1>3, <1>i, <2>q, <1>none, <2>s, <2>r DEF Completed
  <2>11. QED
    BY <2>o, <2>1, <2>2, <2>3, <2>4, <2>5, <2>6, <2>7, <2>8, <2>9, <2>10 DEF Accounts
<1>4. CASE Secure
  <2>q. work_queue' = work_queue => QueueIs({}, {})
    BY <1>0, <1>4, QueueKept DEF Handlers, Timers
  <2>o. Once(work_queue') /\ work_queue' \in Seq(Handlers)
    BY <1>4, <1>i, <2>q, <1>none DEF Once, Secure
  <2>1. TypeOK'
    <3>1. UNCHANGED <<failure, mouse_conn, peer, pairing, scan_wanted, connecting_address,
                    new_candidate, candidate_bonded, forget_requested, clear_held, started,
                    connected_event_conn, connected_error, session, pending_address, timers,
                    local, link, security, auto_connect, gatt, references, bonds, saved_peer,
                    attempt_bond, scenario, budget>>
      BY <1>4 DEF Secure
    <3>2. stage' \in Stages
      BY <1>4, <1>t, <1>i DEF Secure
    <3>3. pc' \in {"idle", "auto", "lookup", "taken", "completed", "secure", "request", "secured",
                  "discover", "count", "save", "ready", "teardown", "release", "forget", "delete"}
      BY <1>4, <1>t, <1>i DEF Secure
    <3>4. Flags'
      BY <1>t, <3>1
    <3>5. Devices'
      BY <1>t, <3>1
    <3>6. WorkerTypes'
      BY <1>t, <3>1, <2>o, <3>2, <3>3
    <3>7. HostTypes'
      BY <1>t, <3>1
    <3>8. Given'
      BY <1>t, <3>1
    <3>9. QED
      BY <3>4, <3>5, <3>6, <3>7, <3>8
  <2>2. Balanced'
    BY <1>4, <1>i, <2>q, <1>none DEF Secure
  <2>3. NoStrayLink'
    BY <1>4, <1>i, <2>q, <1>none DEF Secure
  <2>4. QueueOrder'
    BY <1>4, <1>i, <2>q, <1>none DEF Secure
  <2>5. ConnectingHolds'
    BY <1>4, <1>i, <2>q, <1>none DEF Secure
  <2>6. ConnectionHolds'
    BY <1>4, <1>i, <2>q, <1>none DEF Secure
  <2>7. EventAccounted'
    BY <1>4, <1>i, <2>q, <1>none DEF Secure
  <2>8. LinksAccounted'
    BY <1>4, <1>i, <2>q, <1>none DEF Secure
  <2>9. LinkSettled'
    BY <1>4, <1>i, <2>q, <1>none DEF Secure
  <2>10. OneRequest'
    BY <1>4, <1>i, <2>q, <1>none DEF Secure
  <2>11. QED
    BY <2>o, <2>1, <2>2, <2>3, <2>4, <2>5, <2>6, <2>7, <2>8, <2>9, <2>10 DEF Accounts
<1>5. CASE RequestSecurity
  <2>q. /\ work_queue' = work_queue => QueueIs({}, {})
        /\ work_queue' = Enqueue(work_queue, "failure") => QueueIs({"failure"}, {})
    BY <1>0, <1>5, QueueKept, QueueAdd DEF Handlers, Timers
  <2>o. Once(work_queue') /\ work_queue' \in Seq(Handlers)
    BY <1>5, <1>i, <2>q, <1>none DEF Once, RequestSecurity
  <2>e. /\ pc = "request" /\ pc' \in {"idle", "secured"} /\ mouse_conn \in Mice
        /\ UNCHANGED <<stage, mouse_conn, connected_event_conn, connected_error, pending_address,
                       local,
                       link, auto_connect, gatt, session>>
        /\ \A m \in Mice : link[m] # "up" => security'[m] = security[m]
        /\ \A x \in Handlers : x # "failure" => (Queued(x)' <=> Queued(x))
    <3>1. /\ mouse_conn \in Mice /\ pc = "request" /\ pc' \in {"idle", "secured"}
      BY <1>5, <1>i, <1>none DEF RequestSecurity
    <3>2. \A m \in Mice : link[m] # "up" => security'[m] = security[m]
      BY <1>5, <1>t, <3>1 DEF RequestSecurity
    <3>3. \A x \in Handlers : x # "failure" => (Queued(x)' <=> Queued(x))
      BY <1>5, <2>q DEF RequestSecurity
    <3>4. QED
      BY <1>5, <3>1, <3>2, <3>3 DEF RequestSecurity
  <2>x. security' \in [Mice -> Securities]
    <3>1. \/ security' = security
          \/ \E s \in Securities : security' = [security EXCEPT ![mouse_conn] = s]
      BY <1>t, <2>e, <1>5 DEF RequestSecurity
    <3>2. QED
      BY <1>t, <2>e, <3>1
  <2>t. failure' \in BOOLEAN
    BY <1>t, <1>5 DEF RequestSecurity
  <2>1. TypeOK'
    <3>1. UNCHANGED <<stage, mouse_conn, peer, pairing, scan_wanted, connecting_address,
                    new_candidate, candidate_bonded, forget_requested, clear_held, started,
                    connected_event_conn, connected_error, session, pending_address, timers,
                    local, link, auto_connect, gatt, references, bonds, saved_peer,
                    attempt_bond, scenario, budget>>
      BY <1>5 DEF RequestSecurity
    <3>2. pc' \in {"idle", "auto", "lookup", "taken", "completed", "secure", "request", "secured",
                  "discover", "count", "save", "ready", "teardown", "release", "forget", "delete"}
      BY <1>5, <1>t, <1>i DEF RequestSecurity
    <3>3. Flags'
      BY <1>t, <3>1, <2>t
    <3>4. Devices'
      BY <1>t, <3>1
    <3>5. WorkerTypes'
      BY <1>t, <3>1, <2>o, <3>2
    <3>6. HostTypes'
      BY <1>t, <3>1, <2>x
    <3>7. Given'
      BY <1>t, <3>1
    <3>8. QED
      BY <3>3, <3>4, <3>5, <3>6, <3>7
  <2>2. Balanced'
    BY <1>5, <1>i, <2>q, <1>none, <2>e, <2>x DEF RequestSecurity
  <2>3. NoStrayLink'
    BY <1>5, <1>i, <2>q, <1>none, <2>e, <2>x DEF RequestSecurity
  <2>4. QueueOrder'
    BY <1>5, <1>i, <2>q, <1>none, <2>e, <2>x DEF RequestSecurity
  <2>5. ConnectingHolds'
    BY <1>5, <1>i, <2>q, <1>none, <2>e, <2>x DEF RequestSecurity
  <2>6. ConnectionHolds'
    BY <1>5, <1>i, <2>q, <1>none, <2>e, <2>x DEF RequestSecurity
  <2>7. EventAccounted'
    BY <1>5, <1>i, <2>q, <1>none, <2>e, <2>x DEF RequestSecurity
  <2>8. LinksAccounted'
    <3>1. \A c \in Mice : link'[c] \notin {"up", "closing"} => security'[c] = "none"
      BY <1>i, <2>e
    <3>2. /\ pc = "request" /\ pc' \in {"idle", "secured"}
          /\ UNCHANGED <<mouse_conn, connected_event_conn, connected_error, link, auto_connect>>
          /\ Queued("disconnected")' <=> Queued("disconnected")
      BY <2>e
    <3>3. QED
      BY <1>i, <1>none, <3>1, <3>2
  <2>9. LinkSettled'
    BY <1>5, <1>i, <2>q, <1>none, <2>e, <2>x DEF RequestSecurity
  <2>10. OneRequest'
    BY <1>i, <1>none, <2>e
  <2>11. QED
    BY <2>o, <2>1, <2>2, <2>3, <2>4, <2>5, <2>6, <2>7, <2>8, <2>9, <2>10 DEF Accounts
<1>6. CASE Secured
  <2>q. /\ work_queue' = work_queue => QueueIs({}, {})
        /\ work_queue' = Enqueue(work_queue, "discovery") => QueueIs({"discovery"}, {})
    BY <1>0, <1>6, QueueKept, QueueAdd DEF Handlers, Timers
  <2>o. Once(work_queue') /\ work_queue' \in Seq(Handlers)
    BY <1>6, <1>i, <2>q, <1>none DEF Once, Secured
  <2>1. TypeOK'
    <3>1. UNCHANGED <<failure, mouse_conn, peer, pairing, scan_wanted, connecting_address,
                    new_candidate, candidate_bonded, forget_requested, clear_held, started,
                    connected_event_conn, connected_error, session, pending_address, timers,
                    local, link, security, auto_connect, gatt, references, bonds, saved_peer,
                    attempt_bond, scenario, budget>>
      BY <1>6 DEF Secured
    <3>2. stage' \in Stages
      BY <1>6, <1>t, <1>i DEF Secured
    <3>3. pc' \in {"idle", "auto", "lookup", "taken", "completed", "secure", "request", "secured",
                  "discover", "count", "save", "ready", "teardown", "release", "forget", "delete"}
      BY <1>6, <1>t, <1>i DEF Secured
    <3>4. Flags'
      BY <1>t, <3>1
    <3>5. Devices'
      BY <1>t, <3>1
    <3>6. WorkerTypes'
      BY <1>t, <3>1, <2>o, <3>2, <3>3
    <3>7. HostTypes'
      BY <1>t, <3>1
    <3>8. Given'
      BY <1>t, <3>1
    <3>9. QED
      BY <3>4, <3>5, <3>6, <3>7, <3>8
  <2>2. Balanced'
    BY <1>6, <1>i, <2>q, <1>none DEF Secured
  <2>3. NoStrayLink'
    BY <1>6, <1>i, <2>q, <1>none DEF Secured
  <2>4. QueueOrder'
    BY <1>6, <1>i, <2>q, <1>none DEF Secured
  <2>5. ConnectingHolds'
    BY <1>6, <1>i, <2>q, <1>none DEF Secured
  <2>6. ConnectionHolds'
    BY <1>6, <1>i, <2>q, <1>none DEF Secured
  <2>7. EventAccounted'
    BY <1>6, <1>i, <2>q, <1>none DEF Secured
  <2>8. LinksAccounted'
    BY <1>6, <1>i, <2>q, <1>none DEF Secured
  <2>9. LinkSettled'
    BY <1>6, <1>i, <2>q, <1>none DEF Secured
  <2>10. OneRequest'
    BY <1>6, <1>i, <2>q, <1>none DEF Secured
  <2>11. QED
    BY <2>o, <2>1, <2>2, <2>3, <2>4, <2>5, <2>6, <2>7, <2>8, <2>9, <2>10 DEF Accounts
<1>7. QED
  BY <1>1, <1>2, <1>3, <1>4, <1>5, <1>6

(* discovery_work_cb and finish_ready.                                       *)
LEMMA AccountsDiscovery ==
  ASSUME Accounts,
         DiscoveryHandler \/ DiscoverList \/ DiscoverReferences \/ DiscoverProtocol
         \/ DiscoverSubscriptions \/ FinishReady \/ SavePeer \/ BecomeReady
  PROVE  Accounts'
<1>0. Once(work_queue)
  BY DEF Accounts
<1>i. /\ TypeOK /\ Balanced /\ NoStrayLink /\ QueueOrder /\ ConnectingHolds
      /\ ConnectionHolds /\ EventAccounted /\ LinksAccounted /\ LinkSettled /\ OneRequest
  BY DEF Accounts
<1>t. TypeOK
  BY <1>i
<1>b. Balanced
  BY <1>i
<1>none. None \notin Mice
  BY ClientAssumption
<1> USE DEF candidateVars, peerVars, userVars, eventVars, keptVars, workerVars, queueVars,
            stepVars, linkVars, hostVars, clientVars,
            Stages, Links, Securities, Handlers, Timers, Profiles, Faults, Addresses, QueueIs
<1> USE DEF TypeOK, Flags, Devices, WorkerTypes, HostTypes, Given, Balanced, Held, NoStrayLink,
            QueueOrder, ConnectingHolds, ConnectionHolds, EventAccounted, LinksAccounted,
            LinkSettled, OneRequest,
            Connecting, Finishing, TearingDown, Forgetting, EarlyStages, LateStages, EventOnWay
<1> USE DEF owns, valid_callback, Fail, next_stage, Submit, RequestRetry, RetryWork, RetryWanted,
            AutoOff, Unpair, LetGo, ForgetDone, ConnectFailed, SecurityChanged, Connected,
            Refused, Answer, Ignored, Failed, Advance, Request, DiscoverStep
<1>1. CASE DiscoveryHandler
  <2>q. work_queue' = Rest => QueueIs({}, {"discovery"})
    BY <1>0, <1>1, QueueTake DEF Handlers, Timers, DiscoveryHandler
  <2>h. /\ pc = "idle" /\ Queued("discovery")
        /\ \A a \in Handlers : Before(work_queue, a, "discovery") => ~Queued(a)
    BY <1>0, <1>1, QueueHead DEF DiscoveryHandler
  <2>o. Once(work_queue') /\ work_queue' \in Seq(Handlers)
    BY <1>1, <1>i, <2>q, <2>h, <1>none DEF Once, DiscoveryHandler
  <2>1. TypeOK'
    <3>1. UNCHANGED <<stage, failure, mouse_conn, peer, pairing, scan_wanted,
                    connecting_address, new_candidate, candidate_bonded, forget_requested,
                    clear_held, started, connected_event_conn, connected_error, session,
                    pending_address, timers, link, security, auto_connect, gatt, references,
                    bonds, saved_peer, attempt_bond, scenario, budget>>
      BY <1>1 DEF DiscoveryHandler
    <3>2. pc' \in {"idle", "auto", "lookup", "taken", "completed", "secure", "request", "secured",
                  "discover", "count", "save", "ready", "teardown", "release", "forget", "delete"}
      BY <1>1, <1>t, <2>h, <1>i DEF DiscoveryHandler
    <3>3. local' \in Mice \cup Stages \cup {"retry", None}
      BY <1>1, <1>t, <2>h, <1>i DEF DiscoveryHandler
    <3>4. Flags'
      BY <1>t, <3>1
    <3>5. Devices'
      BY <1>t, <3>1
    <3>6. WorkerTypes'
      BY <1>t, <3>1, <2>o, <3>2, <3>3
    <3>7. HostTypes'
      BY <1>t, <3>1
    <3>8. Given'
      BY <1>t, <3>1
    <3>9. QED
      BY <3>4, <3>5, <3>6, <3>7, <3>8
  <2>2. Balanced'
    BY <1>1, <1>i, <2>q, <2>h, <1>none DEF DiscoveryHandler
  <2>3. NoStrayLink'
    BY <1>1, <1>i, <2>q, <2>h, <1>none DEF DiscoveryHandler
  <2>4. QueueOrder'
    BY <1>1, <1>i, <2>q, <2>h, <1>none DEF DiscoveryHandler
  <2>5. ConnectingHolds'
    BY <1>1, <1>i, <2>q, <2>h, <1>none DEF DiscoveryHandler
  <2>6. ConnectionHolds'
    BY <1>1, <1>i, <2>q, <2>h, <1>none DEF DiscoveryHandler
  <2>7. EventAccounted'
    BY <1>1, <1>i, <2>q, <2>h, <1>none DEF DiscoveryHandler
  <2>8. LinksAccounted'
    BY <1>1, <1>i, <2>q, <2>h, <1>none DEF DiscoveryHandler
  <2>9. LinkSettled'
    BY <1>1, <1>i, <2>q, <2>h, <1>none DEF DiscoveryHandler
  <2>10. OneRequest'
    BY <1>1, <1>i, <2>q, <2>h, <1>none DEF DiscoveryHandler
  <2>11. QED
    BY <2>o, <2>1, <2>2, <2>3, <2>4, <2>5, <2>6, <2>7, <2>8, <2>9, <2>10 DEF Accounts
<1>2. CASE DiscoverList
  <2>q. /\ work_queue' = work_queue => QueueIs({}, {})
        /\ work_queue' = Enqueue(work_queue, "failure") => QueueIs({"failure"}, {})
    BY <1>0, <1>2, QueueKept, QueueAdd DEF Handlers, Timers
  <2>o. Once(work_queue') /\ work_queue' \in Seq(Handlers)
    BY <1>2, <1>i, <2>q, <1>none DEF Once, DiscoverList
  <2>t. failure' \in BOOLEAN
    BY <1>t, <1>2 DEF DiscoverList
  <2>1. TypeOK'
    <3>1. UNCHANGED <<stage, mouse_conn, peer, pairing, scan_wanted, connecting_address,
                    new_candidate, candidate_bonded, forget_requested, clear_held, started,
                    connected_event_conn, connected_error, session, pending_address, timers,
                    link, security, auto_connect, references, bonds, saved_peer, attempt_bond,
                    scenario, budget>>
      BY <1>2 DEF DiscoverList
    <3>2. pc' \in {"idle", "auto", "lookup", "taken", "completed", "secure", "request", "secured",
                  "discover", "count", "save", "ready", "teardown", "release", "forget", "delete"}
      BY <1>2, <1>t, <1>i DEF DiscoverList
    <3>3. local' \in Mice \cup Stages \cup {"retry", None}
      BY <1>2, <1>t, <1>i DEF DiscoverList
    <3>4. gatt' \in [conn : Mice, kind : {"discover", "read", "write", "subscribe"}]
              \cup {NoRequest}
      BY <1>2, <1>t, <1>i DEF DiscoverList
    <3>5. Flags'
      BY <1>t, <3>1, <2>t
    <3>6. Devices'
      BY <1>t, <3>1
    <3>7. WorkerTypes'
      BY <1>t, <3>1, <2>o, <3>2, <3>3
    <3>8. HostTypes'
      BY <1>t, <3>1, <3>4
    <3>9. Given'
      BY <1>t, <3>1
    <3>10. QED
      BY <3>5, <3>6, <3>7, <3>8, <3>9
  <2>2. Balanced'
    BY <1>2, <1>i, <2>q, <1>none DEF DiscoverList
  <2>3. NoStrayLink'
    BY <1>2, <1>i, <2>q, <1>none DEF DiscoverList
  <2>4. QueueOrder'
    BY <1>2, <1>i, <2>q, <1>none DEF DiscoverList
  <2>5. ConnectingHolds'
    BY <1>2, <1>i, <2>q, <1>none DEF DiscoverList
  <2>6. ConnectionHolds'
    BY <1>2, <1>i, <2>q, <1>none DEF DiscoverList
  <2>7. EventAccounted'
    BY <1>2, <1>i, <2>q, <1>none DEF DiscoverList
  <2>8. LinksAccounted'
    BY <1>2, <1>i, <2>q, <1>none DEF DiscoverList
  <2>9. LinkSettled'
    BY <1>2, <1>i, <2>q, <1>none DEF DiscoverList
  <2>10. OneRequest'
    BY <1>2, <1>i, <2>q, <1>none DEF DiscoverList
  <2>11. QED
    BY <2>o, <2>1, <2>2, <2>3, <2>4, <2>5, <2>6, <2>7, <2>8, <2>9, <2>10 DEF Accounts
<1>3. CASE DiscoverReferences
  <2>q. /\ work_queue' = work_queue => QueueIs({}, {})
        /\ work_queue' = Enqueue(work_queue, "failure") => QueueIs({"failure"}, {})
        /\ work_queue' = Enqueue(work_queue, "discovery") => QueueIs({"discovery"}, {})
    BY <1>0, <1>3, QueueKept, QueueAdd DEF Handlers, Timers
  <2>o. Once(work_queue') /\ work_queue' \in Seq(Handlers)
    BY <1>3, <1>i, <2>q, <1>none DEF Once, DiscoverReferences
  <2>e. /\ pc = "discover" /\ pc' = "idle" /\ local = "REPORT_REFERENCES"
        /\ UNCHANGED <<scenario, mouse_conn, link>>
        /\ \/ /\ gatt' = gatt /\ stage' = stage
              /\ session' \in {session, [session EXCEPT !.index = FirstFrom(Referenced)]}
              /\ work_queue' = Enqueue(work_queue, "failure")
           \/ /\ gatt' = gatt /\ stage' = "PROTOCOL"
              /\ session' = [session EXCEPT !.index = 0]
              /\ work_queue' = Enqueue(work_queue, "discovery")
           \/ /\ FirstFrom(Referenced) # Count /\ link[mouse_conn] = "up" /\ stage' = stage
              /\ session' = [session EXCEPT !.index = FirstFrom(Referenced)]
              /\ gatt' = [conn |-> mouse_conn, kind |-> "read"]
              /\ work_queue' = work_queue
    BY <1>3 DEF DiscoverReferences
  <2>f. FirstFrom(Referenced) \in 0 .. Count
    BY <1>t, FirstFromInRange
  <2>s. /\ session' \in [profile : Profiles' \cup {NoProfile}, index : Nat, covered : SUBSET Needs]
        /\ session'.index <= Len(session'.profile.reports)
    <3>0. 0 \in 0 .. Count
      BY <1>t, ReportsTyped
    <3>1. CASE session' = session
      BY <1>t, <2>e, <3>1
    <3>2. CASE session' = [session EXCEPT !.index = 0]
      BY <1>t, <2>e, <3>0, <3>2, SessionMoves
    <3>3. CASE session' = [session EXCEPT !.index = FirstFrom(Referenced)]
      BY <1>t, <2>e, <2>f, <3>3, SessionMoves
    <3>4. QED
      BY <2>e, <3>1, <3>2, <3>3
  <2>t. failure' \in BOOLEAN
    BY <1>t, <1>3 DEF DiscoverReferences
  <2>1. TypeOK'
    <3>1. UNCHANGED <<mouse_conn, peer, pairing, scan_wanted, connecting_address,
                    new_candidate, candidate_bonded, forget_requested, clear_held, started,
                    connected_event_conn, connected_error, pending_address, timers, link,
                    security, auto_connect, references, bonds, saved_peer, attempt_bond,
                    scenario, budget>>
      BY <1>3 DEF DiscoverReferences
    <3>2. stage' \in Stages
      BY <1>3, <1>t, <1>i DEF DiscoverReferences
    <3>3. pc' \in {"idle", "auto", "lookup", "taken", "completed", "secure", "request", "secured",
                  "discover", "count", "save", "ready", "teardown", "release", "forget", "delete"}
      BY <1>3, <1>t, <1>i DEF DiscoverReferences
    <3>4. local' \in Mice \cup Stages \cup {"retry", None}
      BY <1>3, <1>t, <1>i DEF DiscoverReferences
    <3>5. gatt' \in [conn : Mice, kind : {"discover", "read", "write", "subscribe"}]
              \cup {NoRequest}
      BY <1>3, <1>t, <1>i DEF DiscoverReferences
    <3>6. Flags'
      BY <1>t, <3>1, <2>t
    <3>7. Devices'
      BY <1>t, <3>1
    <3>8. WorkerTypes'
      BY <1>t, <3>1, <2>o, <3>2, <3>3, <3>4
    <3>9. HostTypes'
      BY <1>t, <3>1, <3>5
    <3>10. Given'
      BY <1>t, <3>1, <2>s
    <3>11. QED
      BY <3>6, <3>7, <3>8, <3>9, <3>10
  <2>2. Balanced'
    BY <1>3, <1>i, <2>q, <1>none, <2>e, <2>f, <2>s DEF DiscoverReferences
  <2>3. NoStrayLink'
    BY <1>3, <1>i, <2>q, <1>none, <2>e, <2>f, <2>s DEF DiscoverReferences
  <2>4. QueueOrder'
    BY <1>3, <1>i, <2>q, <1>none, <2>e, <2>f, <2>s DEF DiscoverReferences
  <2>5. ConnectingHolds'
    BY <1>3, <1>i, <2>q, <1>none, <2>e, <2>f, <2>s DEF DiscoverReferences
  <2>6. ConnectionHolds'
    BY <1>3, <1>i, <2>q, <1>none, <2>e, <2>f, <2>s DEF DiscoverReferences
  <2>7. EventAccounted'
    BY <1>3, <1>i, <2>q, <1>none, <2>e, <2>f, <2>s DEF DiscoverReferences
  <2>8. LinksAccounted'
    BY <1>3, <1>i, <2>q, <1>none, <2>e, <2>f, <2>s DEF DiscoverReferences
  <2>9. LinkSettled'
    BY <1>3, <1>i, <2>q, <1>none, <2>e, <2>f, <2>s DEF DiscoverReferences
  <2>10. OneRequest'
    <3>1. /\ gatt = NoRequest /\ ~Queued("discovery") /\ stage \in {"REPORT_REFERENCES", "CLOSING"}
          /\ mouse_conn \in Mice /\ pc' = "idle"
      BY <1>i, <2>e
    <3>2. Queued("discovery")' => stage' = "PROTOCOL" /\ gatt' = gatt
      BY <2>q, <2>e, <3>1
    <3>3. gatt' # NoRequest => /\ gatt'.conn = mouse_conn' /\ gatt'.kind = "read"
                               /\ link'[mouse_conn'] = "up"
                               /\ session'.index < Len(session'.profile.reports)
      <4>1. CASE gatt' = gatt
        BY <3>1, <4>1
      <4>2. CASE gatt' # gatt
        <5>1. /\ session' = [session EXCEPT !.index = FirstFrom(Referenced)]
              /\ FirstFrom(Referenced) # Count /\ link[mouse_conn] = "up"
              /\ gatt' = [conn |-> mouse_conn, kind |-> "read"]
              /\ UNCHANGED <<scenario, mouse_conn, link>>
          BY <2>e, <4>2
        <5>2. session'.index = FirstFrom(Referenced) /\ session'.profile = session.profile
          BY <1>t, <2>f, <5>1, SessionMoves
        <5>3. FirstFrom(Referenced) < Len(session.profile.reports)
          BY <1>t, <2>f, <5>1, ReportsTyped DEF Count, Reports
        <5>4. QED
          BY <5>1, <5>2, <5>3
      <4>3. QED
        BY <4>1, <4>2
    <3>4. stage' \in {"REPORT_REFERENCES", "CLOSING", "PROTOCOL"}
      BY <2>e, <3>1
    <3>5. QED
      BY <3>1, <3>2, <3>3, <3>4
  <2>11. QED
    BY <2>o, <2>1, <2>2, <2>3, <2>4, <2>5, <2>6, <2>7, <2>8, <2>9, <2>10 DEF Accounts
<1>4. CASE DiscoverProtocol
  <2>q. /\ work_queue' = work_queue => QueueIs({}, {})
        /\ work_queue' = Enqueue(work_queue, "failure") => QueueIs({"failure"}, {})
        /\ work_queue' = Enqueue(work_queue, "discovery") => QueueIs({"discovery"}, {})
    BY <1>0, <1>4, QueueKept, QueueAdd DEF Handlers, Timers
  <2>o. Once(work_queue') /\ work_queue' \in Seq(Handlers)
    BY <1>4, <1>i, <2>q, <1>none DEF Once, DiscoverProtocol
  <2>t. failure' \in BOOLEAN
    BY <1>t, <1>4 DEF DiscoverProtocol
  <2>1. TypeOK'
    <3>1. UNCHANGED <<mouse_conn, peer, pairing, scan_wanted, connecting_address,
                    new_candidate, candidate_bonded, forget_requested, clear_held, started,
                    connected_event_conn, connected_error, session, pending_address, timers,
                    link, security, auto_connect, references, bonds, saved_peer, attempt_bond,
                    scenario, budget>>
      BY <1>4 DEF DiscoverProtocol
    <3>2. stage' \in Stages
      BY <1>4, <1>t, <1>i DEF DiscoverProtocol
    <3>3. pc' \in {"idle", "auto", "lookup", "taken", "completed", "secure", "request", "secured",
                  "discover", "count", "save", "ready", "teardown", "release", "forget", "delete"}
      BY <1>4, <1>t, <1>i DEF DiscoverProtocol
    <3>4. local' \in Mice \cup Stages \cup {"retry", None}
      BY <1>4, <1>t, <1>i DEF DiscoverProtocol
    <3>5. gatt' \in [conn : Mice, kind : {"discover", "read", "write", "subscribe"}]
              \cup {NoRequest}
      BY <1>4, <1>t, <1>i DEF DiscoverProtocol
    <3>6. Flags'
      BY <1>t, <3>1, <2>t
    <3>7. Devices'
      BY <1>t, <3>1
    <3>8. WorkerTypes'
      BY <1>t, <3>1, <2>o, <3>2, <3>3, <3>4
    <3>9. HostTypes'
      BY <1>t, <3>1, <3>5
    <3>10. Given'
      BY <1>t, <3>1
    <3>11. QED
      BY <3>6, <3>7, <3>8, <3>9, <3>10
  <2>2. Balanced'
    BY <1>4, <1>i, <2>q, <1>none DEF DiscoverProtocol
  <2>3. NoStrayLink'
    BY <1>4, <1>i, <2>q, <1>none DEF DiscoverProtocol
  <2>4. QueueOrder'
    BY <1>4, <1>i, <2>q, <1>none DEF DiscoverProtocol
  <2>5. ConnectingHolds'
    BY <1>4, <1>i, <2>q, <1>none DEF DiscoverProtocol
  <2>6. ConnectionHolds'
    BY <1>4, <1>i, <2>q, <1>none DEF DiscoverProtocol
  <2>7. EventAccounted'
    BY <1>4, <1>i, <2>q, <1>none DEF DiscoverProtocol
  <2>8. LinksAccounted'
    BY <1>4, <1>i, <2>q, <1>none DEF DiscoverProtocol
  <2>9. LinkSettled'
    BY <1>4, <1>i, <2>q, <1>none DEF DiscoverProtocol
  <2>10. OneRequest'
    BY <1>4, <1>i, <2>q, <1>none DEF DiscoverProtocol
  <2>11. QED
    BY <2>o, <2>1, <2>2, <2>3, <2>4, <2>5, <2>6, <2>7, <2>8, <2>9, <2>10 DEF Accounts
<1>5. CASE DiscoverSubscriptions
  <2>q. /\ work_queue' = work_queue => QueueIs({}, {})
        /\ work_queue' = Enqueue(work_queue, "failure") => QueueIs({"failure"}, {})
    BY <1>0, <1>5, QueueKept, QueueAdd DEF Handlers, Timers
  <2>o. Once(work_queue') /\ work_queue' \in Seq(Handlers)
    BY <1>5, <1>i, <2>q, <1>none DEF Once, DiscoverSubscriptions
  <2>e. /\ pc = "discover" /\ pc' = "count" /\ local = "SUBSCRIPTIONS"
        /\ UNCHANGED <<stage, scenario, mouse_conn, link>>
        /\ session' = [session EXCEPT !.index = FirstFrom(Useful)]
        /\ \/ gatt' = gatt /\ work_queue' \in {work_queue, Enqueue(work_queue, "failure")}
           \/ /\ FirstFrom(Useful) # Count /\ link[mouse_conn] = "up"
              /\ gatt' = [conn |-> mouse_conn, kind |-> "subscribe"]
              /\ work_queue' = work_queue
    BY <1>5 DEF DiscoverSubscriptions
  <2>f. FirstFrom(Useful) \in 0 .. Count
    BY <1>t, FirstFromInRange
  <2>s. /\ session' \in [profile : Profiles' \cup {NoProfile}, index : Nat, covered : SUBSET Needs]
        /\ session'.index <= Len(session'.profile.reports)
    BY <1>t, <2>e, <2>f, SessionMoves
  <2>t. failure' \in BOOLEAN
    BY <1>t, <1>5 DEF DiscoverSubscriptions
  <2>1. TypeOK'
    <3>1. UNCHANGED <<stage, mouse_conn, peer, pairing, scan_wanted, connecting_address,
                    new_candidate, candidate_bonded, forget_requested, clear_held, started,
                    connected_event_conn, connected_error, pending_address, timers, link,
                    security, auto_connect, references, bonds, saved_peer, attempt_bond,
                    scenario, budget>>
      BY <1>5 DEF DiscoverSubscriptions
    <3>2. pc' \in {"idle", "auto", "lookup", "taken", "completed", "secure", "request", "secured",
                  "discover", "count", "save", "ready", "teardown", "release", "forget", "delete"}
      BY <1>5, <1>t, <1>i DEF DiscoverSubscriptions
    <3>3. local' \in Mice \cup Stages \cup {"retry", None}
      BY <1>5, <1>t, <1>i DEF DiscoverSubscriptions
    <3>4. gatt' \in [conn : Mice, kind : {"discover", "read", "write", "subscribe"}]
              \cup {NoRequest}
      BY <1>5, <1>t, <1>i DEF DiscoverSubscriptions
    <3>5. Flags'
      BY <1>t, <3>1, <2>t
    <3>6. Devices'
      BY <1>t, <3>1
    <3>7. WorkerTypes'
      BY <1>t, <3>1, <2>o, <3>2, <3>3
    <3>8. HostTypes'
      BY <1>t, <3>1, <3>4
    <3>9. Given'
      BY <1>t, <3>1, <2>s
    <3>10. QED
      BY <3>5, <3>6, <3>7, <3>8, <3>9
  <2>2. Balanced'
    BY <1>5, <1>i, <2>q, <1>none, <2>e, <2>f, <2>s DEF DiscoverSubscriptions
  <2>3. NoStrayLink'
    BY <1>5, <1>i, <2>q, <1>none, <2>e, <2>f, <2>s DEF DiscoverSubscriptions
  <2>4. QueueOrder'
    BY <1>5, <1>i, <2>q, <1>none, <2>e, <2>f, <2>s DEF DiscoverSubscriptions
  <2>5. ConnectingHolds'
    BY <1>5, <1>i, <2>q, <1>none, <2>e, <2>f, <2>s DEF DiscoverSubscriptions
  <2>6. ConnectionHolds'
    BY <1>5, <1>i, <2>q, <1>none, <2>e, <2>f, <2>s DEF DiscoverSubscriptions
  <2>7. EventAccounted'
    BY <1>5, <1>i, <2>q, <1>none, <2>e, <2>f, <2>s DEF DiscoverSubscriptions
  <2>8. LinksAccounted'
    BY <1>5, <1>i, <2>q, <1>none, <2>e, <2>f, <2>s DEF DiscoverSubscriptions
  <2>9. LinkSettled'
    BY <1>5, <1>i, <2>q, <1>none, <2>e, <2>f, <2>s DEF DiscoverSubscriptions
  <2>10. OneRequest'
    <3>1. /\ gatt = NoRequest /\ ~Queued("discovery") /\ stage \in {"SUBSCRIPTIONS", "CLOSING"}
          /\ mouse_conn \in Mice /\ pc' = "count" /\ stage' = stage
      BY <1>i, <2>e
    <3>2. ~Queued("discovery")'
      BY <2>q, <2>e, <3>1
    <3>3. gatt' # NoRequest => /\ gatt'.conn = mouse_conn' /\ gatt'.kind = "subscribe"
                               /\ link'[mouse_conn'] = "up"
                               /\ session'.index < Len(session'.profile.reports)
      <4>1. CASE gatt' = gatt
        BY <3>1, <4>1
      <4>2. CASE gatt' # gatt
        <5>1. /\ FirstFrom(Useful) # Count /\ link[mouse_conn] = "up"
              /\ gatt' = [conn |-> mouse_conn, kind |-> "subscribe"]
          BY <2>e, <4>2
        <5>2. session'.index = FirstFrom(Useful) /\ session'.profile = session.profile
          BY <1>t, <2>e, <2>f, SessionMoves
        <5>3. FirstFrom(Useful) < Len(session.profile.reports)
          BY <1>t, <2>f, <5>1, ReportsTyped DEF Count, Reports
        <5>4. QED
          BY <2>e, <5>1, <5>2, <5>3
      <4>3. QED
        BY <4>1, <4>2
    <3>4. QED
      BY <3>1, <3>2, <3>3
  <2>11. QED
    BY <2>o, <2>1, <2>2, <2>3, <2>4, <2>5, <2>6, <2>7, <2>8, <2>9, <2>10 DEF Accounts
<1>6. CASE FinishReady
  <2>q. /\ work_queue' = work_queue => QueueIs({}, {})
        /\ work_queue' = Enqueue(work_queue, "failure") => QueueIs({"failure"}, {})
    BY <1>0, <1>6, QueueKept, QueueAdd DEF Handlers, Timers
  <2>o. Once(work_queue') /\ work_queue' \in Seq(Handlers)
    BY <1>6, <1>i, <2>q, <1>none DEF Once, FinishReady, CandidateNotBonded
  <2>e. /\ pc = "count" /\ pc' \in {"idle", "save", "ready"} /\ mouse_conn \in Mice
        /\ UNCHANGED <<stage, mouse_conn, scan_wanted, connecting_address, pending_address,
                       connected_event_conn, connected_error, local, link, security, auto_connect>>
        /\ \A x \in Handlers : x # "failure" => (Queued(x)' <=> Queued(x))
    <3>1. pc = "count" /\ pc' \in {"idle", "save", "ready"} /\ mouse_conn \in Mice
      BY <1>i, <1>none, <1>6 DEF FinishReady, CandidateNotBonded
    <3>2. \A x \in Handlers : x # "failure" => (Queued(x)' <=> Queued(x))
      BY <2>q, <1>6 DEF FinishReady, CandidateNotBonded
    <3>3. QED
      BY <3>1, <3>2, <1>6 DEF FinishReady, CandidateNotBonded
  <2>t. failure' \in BOOLEAN
    BY <1>t, <1>6 DEF FinishReady, CandidateNotBonded
  <2>1. TypeOK'
    <3>1. UNCHANGED <<stage, mouse_conn, peer, pairing, scan_wanted, connecting_address,
                    new_candidate, candidate_bonded, forget_requested, clear_held, started,
                    connected_event_conn, connected_error, session, pending_address, timers,
                    local, link, security, auto_connect, gatt, references, bonds, saved_peer,
                    attempt_bond, scenario, budget>>
      BY <1>6 DEF FinishReady, CandidateNotBonded
    <3>2. pc' \in {"idle", "auto", "lookup", "taken", "completed", "secure", "request", "secured",
                  "discover", "count", "save", "ready", "teardown", "release", "forget", "delete"}
      BY <1>6, <1>t, <1>i DEF FinishReady, CandidateNotBonded
    <3>3. Flags'
      BY <1>t, <3>1, <2>t
    <3>4. Devices'
      BY <1>t, <3>1
    <3>5. WorkerTypes'
      BY <1>t, <3>1, <2>o, <3>2
    <3>6. HostTypes'
      BY <1>t, <3>1
    <3>7. Given'
      BY <1>t, <3>1
    <3>8. QED
      BY <3>3, <3>4, <3>5, <3>6, <3>7
  <2>2. Balanced'
    BY <1>6, <1>i, <2>q, <1>none, <2>e DEF FinishReady, CandidateNotBonded
  <2>3. NoStrayLink'
    BY <1>6, <1>i, <2>q, <1>none, <2>e DEF FinishReady, CandidateNotBonded
  <2>4. QueueOrder'
    BY <1>6, <1>i, <2>q, <1>none, <2>e DEF FinishReady, CandidateNotBonded
  <2>5. ConnectingHolds'
    BY <1>i, <1>none, <2>e
  <2>6. ConnectionHolds'
    BY <1>6, <1>i, <2>q, <1>none, <2>e DEF FinishReady, CandidateNotBonded
  <2>7. EventAccounted'
    BY <1>i, <1>none, <2>e
  <2>8. LinksAccounted'
    BY <1>i, <1>none, <2>e
  <2>9. LinkSettled'
    BY <1>6, <1>i, <2>q, <1>none, <2>e DEF FinishReady, CandidateNotBonded
  <2>10. OneRequest'
    <3>1. UNCHANGED <<stage, mouse_conn, session, local, link, gatt>>
      BY <1>6 DEF FinishReady, CandidateNotBonded
    <3>2. pc = "count" /\ pc' \in {"idle", "save", "ready"}
      BY <1>6, <1>i, <2>q, <1>none DEF FinishReady, CandidateNotBonded
    <3>3. pc' \in {"save", "ready"} => session.index = Len(session.profile.reports)
      BY <1>6 DEF FinishReady, Count, Reports, Fail, CandidateNotBonded
    <3>4. pc' \in {"save", "ready"} => gatt = NoRequest
      BY <1>i, <3>2, <3>3
    <3>5. /\ Queued("discovery")' <=> Queued("discovery")
      BY <1>6, <1>i, <2>q, <1>none DEF FinishReady, CandidateNotBonded
    <3>6. QED
      BY <1>i, <3>1, <3>2, <3>3, <3>4, <3>5, <1>none
  <2>11. QED
    BY <2>o, <2>1, <2>2, <2>3, <2>4, <2>5, <2>6, <2>7, <2>8, <2>9, <2>10 DEF Accounts
<1>7. CASE SavePeer
  <2>q. /\ work_queue' = work_queue => QueueIs({}, {})
        /\ work_queue' = Enqueue(work_queue, "failure") => QueueIs({"failure"}, {})
    BY <1>0, <1>7, QueueKept, QueueAdd DEF Handlers, Timers
  <2>o. Once(work_queue') /\ work_queue' \in Seq(Handlers)
    BY <1>7, <1>i, <2>q, <1>none DEF Once, SavePeer
  <2>t. failure' \in BOOLEAN
    BY <1>t, <1>7 DEF SavePeer
  <2>1. TypeOK'
    <3>1. UNCHANGED <<stage, mouse_conn, peer, pairing, scan_wanted, connecting_address,
                    new_candidate, candidate_bonded, forget_requested, clear_held, started,
                    connected_event_conn, connected_error, session, pending_address, timers,
                    local, link, security, auto_connect, gatt, references, bonds, attempt_bond,
                    scenario, budget>>
      BY <1>7 DEF SavePeer
    <3>2. pc' \in {"idle", "auto", "lookup", "taken", "completed", "secure", "request", "secured",
                  "discover", "count", "save", "ready", "teardown", "release", "forget", "delete"}
      BY <1>7, <1>t, <1>i DEF SavePeer
    <3>3. saved_peer' \in Mice \cup {None}
      BY <1>7, <1>t, <1>i DEF SavePeer
    <3>4. Flags'
      BY <1>t, <3>1, <2>t
    <3>5. Devices'
      BY <1>t, <3>1, <3>3
    <3>6. WorkerTypes'
      BY <1>t, <3>1, <2>o, <3>2
    <3>7. HostTypes'
      BY <1>t, <3>1
    <3>8. Given'
      BY <1>t, <3>1
    <3>9. QED
      BY <3>4, <3>5, <3>6, <3>7, <3>8
  <2>2. Balanced'
    BY <1>7, <1>i, <2>q, <1>none DEF SavePeer
  <2>3. NoStrayLink'
    BY <1>7, <1>i, <2>q, <1>none DEF SavePeer
  <2>4. QueueOrder'
    BY <1>7, <1>i, <2>q, <1>none DEF SavePeer
  <2>5. ConnectingHolds'
    BY <1>7, <1>i, <2>q, <1>none DEF SavePeer
  <2>6. ConnectionHolds'
    BY <1>7, <1>i, <2>q, <1>none DEF SavePeer
  <2>7. EventAccounted'
    BY <1>7, <1>i, <2>q, <1>none DEF SavePeer
  <2>8. LinksAccounted'
    <3>1. UNCHANGED <<mouse_conn, connected_event_conn, connected_error, pending_address, link,
                    security, auto_connect>>
      BY <1>7 DEF SavePeer
    <3>2. mouse_conn \in Mice /\ pc = "save" /\ pc' \in {"idle", "ready"}
      BY <1>7, <1>i, <2>q, <1>none DEF SavePeer
    <3>3. /\ Queued("disconnected")' <=> Queued("disconnected")
      BY <1>7, <1>i, <2>q, <1>none DEF SavePeer
    <3>4. QED
      BY <1>i, <3>1, <3>2, <3>3, <1>none
  <2>9. LinkSettled'
    BY <1>7, <1>i, <2>q, <1>none DEF SavePeer
  <2>10. OneRequest'
    BY <1>7, <1>i, <2>q, <1>none DEF SavePeer
  <2>11. QED
    BY <2>o, <2>1, <2>2, <2>3, <2>4, <2>5, <2>6, <2>7, <2>8, <2>9, <2>10 DEF Accounts
<1>8. CASE BecomeReady
  <2>q. /\ work_queue' = work_queue => QueueIs({}, {})
        /\ work_queue' = Dequeue(Dequeue(work_queue, "pair_timeout"), "timeout")
               => QueueIs({}, {"pair_timeout", "timeout"})
    BY <1>0, <1>8, QueueKept, QueueDropTwo DEF Handlers, Timers
  <2>o. Once(work_queue') /\ work_queue' \in Seq(Handlers)
    BY <1>8, <1>i, <2>q, <1>none DEF Once, BecomeReady
  <2>t. /\ pairing' \in BOOLEAN
        /\ new_candidate' \in BOOLEAN
    <3>1. pairing' \in BOOLEAN
      BY <1>t, <1>8 DEF BecomeReady
    <3>2. new_candidate' \in BOOLEAN
      BY <1>t, <1>8 DEF BecomeReady
    <3>3. QED
      BY <3>1, <3>2
  <2>1. TypeOK'
    <3>1. UNCHANGED <<failure, mouse_conn, scan_wanted, connecting_address, candidate_bonded,
                    forget_requested, clear_held, started, connected_event_conn,
                    connected_error, session, pending_address, local, link, security,
                    auto_connect, gatt, references, bonds, saved_peer, scenario, budget>>
      BY <1>8 DEF BecomeReady
    <3>2. stage' \in Stages
      BY <1>8, <1>t, <1>i DEF BecomeReady
    <3>3. peer' \in Mice \cup {None}
      BY <1>8, <1>t, <1>i DEF BecomeReady
    <3>4. timers' \subseteq Timers
      BY <1>8, <1>t, <1>i DEF BecomeReady
    <3>5. pc' \in {"idle", "auto", "lookup", "taken", "completed", "secure", "request", "secured",
                  "discover", "count", "save", "ready", "teardown", "release", "forget", "delete"}
      BY <1>8, <1>t, <1>i DEF BecomeReady
    <3>6. attempt_bond' \in Mice \cup {None}
      BY <1>8, <1>t, <1>i DEF BecomeReady
    <3>7. Flags'
      BY <1>t, <3>1, <2>t
    <3>8. Devices'
      BY <1>t, <3>1, <3>3, <3>6
    <3>9. WorkerTypes'
      BY <1>t, <3>1, <2>o, <3>2, <3>4, <3>5
    <3>10. HostTypes'
      BY <1>t, <3>1
    <3>11. Given'
      BY <1>t, <3>1
    <3>12. QED
      BY <3>7, <3>8, <3>9, <3>10, <3>11
  <2>2. Balanced'
    BY <1>8, <1>i, <2>q, <1>none DEF BecomeReady
  <2>3. NoStrayLink'
    BY <1>8, <1>i, <2>q, <1>none DEF BecomeReady
  <2>4. QueueOrder'
    BY <1>8, <1>i, <2>q, <1>none DEF BecomeReady
  <2>5. ConnectingHolds'
    BY <1>8, <1>i, <2>q, <1>none DEF BecomeReady
  <2>6. ConnectionHolds'
    BY <1>8, <1>i, <2>q, <1>none DEF BecomeReady
  <2>7. EventAccounted'
    BY <1>8, <1>i, <2>q, <1>none DEF BecomeReady
  <2>8. LinksAccounted'
    BY <1>8, <1>i, <2>q, <1>none DEF BecomeReady
  <2>9. LinkSettled'
    BY <1>8, <1>i, <2>q, <1>none DEF BecomeReady
  <2>10. OneRequest'
    BY <1>8, <1>i, <2>q, <1>none DEF BecomeReady
  <2>11. QED
    BY <2>o, <2>1, <2>2, <2>3, <2>4, <2>5, <2>6, <2>7, <2>8, <2>9, <2>10 DEF Accounts
<1>9. QED
  BY <1>1, <1>2, <1>3, <1>4, <1>5, <1>6, <1>7, <1>8

================================================================================
