--------------------------- MODULE MouseClientProofs ---------------------------
(***************************************************************************)
(* Theorems about MouseClient, for any mice, any other devices, any number *)
(* of bond slots, and any faults, databases and budgets in the scenarios,  *)
(* and that Receiver implements MouseSession.                              *)
(***************************************************************************)
EXTENDS MouseClientAccounts, Receiver

--------------------------------------------------------------------------------
(* What the host reports of a device.                                        *)
LEMMA AccountsRadio ==
  ASSUME Accounts, NEW m \in Mice,
         LinkUp(m) \/ LinkRefused(m) \/ LinkLost(m) \/ Encrypted(m) \/ PairingStarts(m)
         \/ PairingEncrypts(m) \/ PairingCompletes(m) \/ SecurityFails(m) \/ NotifyEnds(m)
         \/ Advertises(m)
  PROVE  Accounts'
<1>0. Once(work_queue)
  BY DEF Accounts
<1>i. /\ TypeOK /\ Balanced /\ NoStrayLink /\ QueueOrder /\ ConnectingHolds
      /\ ConnectionHolds /\ EventAccounted /\ LinksAccounted /\ LinkSettled /\ OneRequest
  BY DEF Accounts
<1>t. TypeOK
  BY <1>i
<1>b. Balanced
  BY <1>i
<1>none. None \notin Mice
  BY ClientAssumption
<1> USE DEF candidateVars, peerVars, userVars, eventVars, keptVars, workerVars, queueVars,
            stepVars, linkVars, hostVars, clientVars,
            Stages, Links, Securities, Handlers, Timers, Profiles, Faults, Addresses, QueueIs
<1> USE DEF TypeOK, Flags, Devices, WorkerTypes, HostTypes, Given, Balanced, Held, NoStrayLink,
            QueueOrder, ConnectingHolds, ConnectionHolds, EventAccounted, LinksAccounted,
            LinkSettled, OneRequest,
            Connecting, Finishing, TearingDown, Forgetting, EarlyStages, LateStages, EventOnWay
<1> USE DEF owns, valid_callback, Fail, next_stage, Submit, RequestRetry, RetryWork, RetryWanted,
            AutoOff, Unpair, LetGo, ForgetDone, ConnectFailed, SecurityChanged, Connected,
            Refused, Answer, Ignored, Failed, Advance, Request, DiscoverStep
<1>1. CASE LinkUp(m)
  <2>q. /\ work_queue' = work_queue => QueueIs({}, {})
        /\ work_queue' = Enqueue(work_queue, "connected") => QueueIs({"connected"}, {})
    BY <1>0, <1>1, QueueKept, QueueAdd DEF Handlers, Timers
  <2>o. Once(work_queue') /\ work_queue' \in Seq(Handlers)
    BY <1>1, <1>i, <2>q, <1>none DEF Once, LinkUp, KeepsUp
  <2>e. /\ link[m] \in {"scan", "cancel"} /\ connected_event_conn = None
        /\ pc \notin {"taken", "completed"} /\ ~Queued("disconnected") /\ ~Queued("disconnected")'
        /\ link' = [link EXCEPT ![m] = "up"] /\ security' = [security EXCEPT ![m] = "none"]
        /\ m = mouse_conn \/ (m = pending_address /\ pc = "lookup")
        /\ connected_event_conn' = m /\ connected_error' = FALSE
        /\ references' = [references EXCEPT ![m] = @ + 1]
        /\ UNCHANGED <<mouse_conn, pending_address, auto_connect, pc, local>>
    <3>1. /\ link[m] \in {"scan", "cancel"} /\ connected_event_conn = None
          /\ pc \notin {"taken", "completed"} /\ ~Queued("disconnected")
      BY <1>i, <1>1 DEF LinkUp, KeepsUp
    <3>2. m = mouse_conn \/ (m = pending_address /\ pc = "lookup")
      BY <1>i, <3>1, <1>1
    <3>3. owns(m) \/ (stage = "CONNECTING" /\ m = connecting_address)
      BY <1>i, <1>none, <3>2, <1>1 DEF owns
    <3>4. QED
      BY <2>q, <3>1, <3>2, <3>3, <1>1 DEF LinkUp, Connected, Submit
  <2>r. references' \in [Mice -> Nat] /\ Balanced'
    <3>0. /\ connected_event_conn = None /\ connected_event_conn' = m /\ mouse_conn' = mouse_conn
          /\ references' = [references EXCEPT ![m] = @ + 1]
      BY <2>e
    <3>1. references' \in [Mice -> Int]
      BY <1>t, <3>0
    <3>2. ASSUME NEW c \in Mice
          PROVE  references'[c] = Held(c)'
      <4>1. references[c] = Held(c) /\ c # None
        BY <1>b, <1>none, <3>2
      <4>2. references[c] \in Nat
        BY <1>t
      <4>3. references'[c] = IF c = m THEN references[c] + 1 ELSE references[c]
        BY <1>t, <1>none, <3>0
      <4>4. QED
        BY <3>0, <4>1, <4>2, <4>3
    <3>3. \A c \in Mice : Held(c)' \in Nat
      OBVIOUS
    <3>4. QED
      BY <3>1, <3>2, <3>3 DEF Balanced
  <2>t. connected_error' \in BOOLEAN
    BY <1>t, <1>1 DEF LinkUp, KeepsUp
  <2>1. TypeOK'
    <3>1. UNCHANGED <<stage, failure, mouse_conn, peer, pairing, scan_wanted,
                    connecting_address, new_candidate, candidate_bonded, forget_requested,
                    clear_held, started, session, pending_address, timers, pc, local,
                    auto_connect, gatt, bonds, saved_peer, attempt_bond, scenario, budget>>
      BY <1>1 DEF LinkUp, KeepsUp
    <3>2. connected_event_conn' \in Mice \cup {None}
      BY <1>1, <1>t, <1>i DEF LinkUp, KeepsUp
    <3>3. link' \in [Mice -> Links]
      BY <1>1, <1>t, <1>i DEF LinkUp, KeepsUp
    <3>4. security' \in [Mice -> Securities]
      BY <1>1, <1>t, <1>i DEF LinkUp, KeepsUp
    <3>5. references' \in [Mice -> Nat]
      BY <2>r
    <3>6. Flags'
      BY <1>t, <3>1, <2>t
    <3>7. Devices'
      BY <1>t, <3>1, <3>2
    <3>8. WorkerTypes'
      BY <1>t, <3>1, <2>o
    <3>9. HostTypes'
      BY <1>t, <3>1, <3>3, <3>4, <3>5
    <3>10. Given'
      BY <1>t, <3>1
    <3>11. QED
      BY <3>6, <3>7, <3>8, <3>9, <3>10
  <2>2. Balanced'
    BY <2>r
  <2>3. NoStrayLink'
    BY <1>1, <1>i, <2>q, <1>none, <2>e, <2>r DEF LinkUp, KeepsUp
  <2>4. QueueOrder'
    <3>1. /\ ~Queued("disconnected") /\ ~Queued("connect")
      BY <1>i, <1>none, <2>e
    <3>2. work_queue' = Enqueue(work_queue, "connected") \/ work_queue' = work_queue
      BY <1>1 DEF LinkUp
    <3>3. QED
      BY <1>i, <2>q, <3>1, <3>2
  <2>5. ConnectingHolds'
    BY <1>1, <1>i, <2>q, <1>none, <2>e, <2>r DEF LinkUp, KeepsUp
  <2>6. ConnectionHolds'
    BY <1>1, <1>i, <2>q, <1>none, <2>e, <2>r DEF LinkUp, KeepsUp
  <2>7. EventAccounted'
    BY <1>1, <1>i, <2>q, <1>none, <2>e, <2>r DEF LinkUp, KeepsUp
  <2>8. LinksAccounted'
    <3>1. /\ link'[m] = "up" /\ security'[m] = "none"
          /\ \A c \in Mice : c # m => link'[c] = link[c] /\ security'[c] = security[c]
      BY <1>t, <2>e
    <3>2. QED
      BY <1>i, <1>none, <1>1, <2>e, <3>1
  <2>9. LinkSettled'
    BY <1>1, <1>i, <2>q, <1>none, <2>e, <2>r DEF LinkUp, KeepsUp
  <2>10. OneRequest'
    BY <1>1, <1>i, <2>q, <1>none, <2>e, <2>r DEF LinkUp, KeepsUp
  <2>11. QED
    BY <2>o, <2>1, <2>2, <2>3, <2>4, <2>5, <2>6, <2>7, <2>8, <2>9, <2>10 DEF Accounts
<1>2. CASE LinkRefused(m)
  <2>q. /\ work_queue' = work_queue => QueueIs({}, {})
        /\ work_queue' = Enqueue(work_queue, "connected") => QueueIs({"connected"}, {})
    BY <1>0, <1>2, QueueKept, QueueAdd DEF Handlers, Timers
  <2>o. Once(work_queue') /\ work_queue' \in Seq(Handlers)
    BY <1>2, <1>i, <2>q, <1>none DEF Once, LinkRefused, KeepsUp
  <2>e. /\ link[m] \in {"scan", "cancel"} /\ connected_event_conn = None
        /\ pc \notin {"taken", "completed"} /\ ~Queued("disconnected") /\ ~Queued("disconnected")'
        /\ link' = [link EXCEPT ![m] = IF m \in auto_connect THEN "scan" ELSE "down"]
        /\ m = mouse_conn \/ (m = pending_address /\ pc = "lookup")
        /\ connected_event_conn' = m /\ connected_error' = TRUE
        /\ references' = [references EXCEPT ![m] = @ + 1]
        /\ UNCHANGED <<mouse_conn, pending_address, security, auto_connect, pc, local, stage,
                       failure,
                       connecting_address, scan_wanted, gatt, session>>
        /\ \A x \in Handlers \ {"connected"} : Queued(x)' <=> Queued(x)
    <3>1. /\ link[m] \in {"scan", "cancel"} /\ connected_event_conn = None
          /\ pc \notin {"taken", "completed"} /\ ~Queued("disconnected")
      BY <1>i, <1>2 DEF LinkRefused, KeepsUp
    <3>2. m = mouse_conn \/ (m = pending_address /\ pc = "lookup")
      BY <1>i, <3>1, <1>2
    <3>3. owns(m) \/ (stage = "CONNECTING" /\ m = connecting_address)
      BY <1>i, <1>none, <3>2, <1>2 DEF owns
    <3>4. QED
      BY <2>q, <3>1, <3>2, <3>3, <1>2 DEF LinkRefused, Connected, Submit
  <2>r. references' \in [Mice -> Nat] /\ Balanced'
    <3>0. /\ connected_event_conn = None /\ connected_event_conn' = m /\ mouse_conn' = mouse_conn
          /\ references' = [references EXCEPT ![m] = @ + 1]
      BY <2>e
    <3>1. references' \in [Mice -> Int]
      BY <1>t, <3>0
    <3>2. ASSUME NEW c \in Mice
          PROVE  references'[c] = Held(c)'
      <4>1. references[c] = Held(c) /\ c # None
        BY <1>b, <1>none, <3>2
      <4>2. references[c] \in Nat
        BY <1>t
      <4>3. references'[c] = IF c = m THEN references[c] + 1 ELSE references[c]
        BY <1>t, <1>none, <3>0
      <4>4. QED
        BY <3>0, <4>1, <4>2, <4>3
    <3>3. \A c \in Mice : Held(c)' \in Nat
      OBVIOUS
    <3>4. QED
      BY <3>1, <3>2, <3>3 DEF Balanced
  <2>t. connected_error' \in BOOLEAN
    BY <1>t, <1>2 DEF LinkRefused, KeepsUp
  <2>1. TypeOK'
    <3>1. UNCHANGED <<stage, failure, mouse_conn, peer, pairing, scan_wanted,
                    connecting_address, new_candidate, candidate_bonded, forget_requested,
                    clear_held, started, session, pending_address, timers, pc, local, security,
                    auto_connect, gatt, bonds, saved_peer, attempt_bond, scenario, budget>>
      BY <1>2 DEF LinkRefused, KeepsUp
    <3>2. connected_event_conn' \in Mice \cup {None}
      BY <1>2, <1>t, <1>i DEF LinkRefused, KeepsUp
    <3>3. link' \in [Mice -> Links]
      BY <1>2, <1>t, <1>i DEF LinkRefused, KeepsUp
    <3>4. references' \in [Mice -> Nat]
      BY <2>r
    <3>5. Flags'
      BY <1>t, <3>1, <2>t
    <3>6. Devices'
      BY <1>t, <3>1, <3>2
    <3>7. WorkerTypes'
      BY <1>t, <3>1, <2>o
    <3>8. HostTypes'
      BY <1>t, <3>1, <3>3, <3>4
    <3>9. Given'
      BY <1>t, <3>1
    <3>10. QED
      BY <3>5, <3>6, <3>7, <3>8, <3>9
  <2>2. Balanced'
    BY <2>r
  <2>3. NoStrayLink'
    BY <1>2, <1>i, <2>q, <1>none, <2>e, <2>r DEF LinkRefused, KeepsUp
  <2>4. QueueOrder'
    <3>1. /\ ~Queued("disconnected") /\ ~Queued("connect")
      BY <1>i, <1>none, <2>e
    <3>2. work_queue' = Enqueue(work_queue, "connected") \/ work_queue' = work_queue
      BY <1>2 DEF LinkRefused
    <3>3. QED
      BY <1>i, <2>q, <3>1, <3>2
  <2>5. ConnectingHolds'
    BY <1>i, <1>none, <2>e, <1>2
  <2>6. ConnectionHolds'
    BY <1>2, <1>i, <2>q, <1>none, <2>e, <2>r DEF LinkRefused, KeepsUp
  <2>7. EventAccounted'
    BY <1>2, <1>i, <2>q, <1>none, <2>e, <2>r DEF LinkRefused, KeepsUp
  <2>8. LinksAccounted'
    <3>1. /\ link'[m] \in {"scan", "down"} /\ (link'[m] = "scan" <=> m \in auto_connect)
          /\ \A c \in Mice : c # m => link'[c] = link[c]
      BY <1>t, <2>e
    <3>2. QED
      BY <1>i, <1>none, <1>2, <2>e, <3>1
  <2>9. LinkSettled'
    BY <1>2, <1>i, <2>q, <1>none, <2>e, <2>r DEF LinkRefused, KeepsUp
  <2>10. OneRequest'
    <3>1. \A c \in Mice : c # m => link'[c] = link[c]
      BY <1>t, <2>e
    <3>2. gatt # NoRequest => gatt.conn \in Mice /\ gatt.conn # m
      BY <1>i, <2>e
    <3>3. QED
      BY <1>i, <2>e, <3>1, <3>2
  <2>11. QED
    BY <2>o, <2>1, <2>2, <2>3, <2>4, <2>5, <2>6, <2>7, <2>8, <2>9, <2>10 DEF Accounts
<1>3. CASE LinkLost(m)
  <2>q. /\ work_queue' = work_queue => QueueIs({}, {})
        /\ work_queue' = Enqueue(work_queue, "disconnected") => QueueIs({"disconnected"}, {})
        /\ work_queue' = Enqueue(Enqueue(work_queue, "failure"), "disconnected")
               => QueueIs({"failure", "disconnected"}, {})
        /\ work_queue' = Enqueue(Enqueue(work_queue, "discovery"), "disconnected")
               => QueueIs({"discovery", "disconnected"}, {})
    BY <1>0, <1>3, QueueKept, QueueAdd, QueueAddTwo DEF Handlers, Timers
  <2>o. Once(work_queue') /\ work_queue' \in Seq(Handlers)
    BY <1>3, <1>i, <2>q, <1>none DEF Once, LinkLost, NoRequest, LastAnswers
  <2>e. /\ link[m] \in {"up", "closing"}
        /\ link' = [link EXCEPT ![m] = IF m \in auto_connect THEN "scan" ELSE "down"]
        /\ security' = [security EXCEPT ![m] = "none"]
        /\ UNCHANGED <<mouse_conn, connecting_address, connected_event_conn, connected_error,
                       pending_address,
                       auto_connect, pc, local>>
        /\ \A x \in Handlers \ {"failure", "discovery", "disconnected"} : Queued(x)' <=> Queued(x)
        /\ \/ m = mouse_conn /\ stage' = "CLOSING"
           \/ /\ m = pending_address /\ pc = "lookup"
              /\ UNCHANGED <<stage, failure, scan_wanted, work_queue>>
              /\ \A x \in Handlers : Queued(x)' <=> Queued(x)
    <3>1. link[m] \in {"up", "closing"}
      BY <1>3 DEF LinkLost
    <3>2. m = mouse_conn \/ (m = pending_address /\ pc = "lookup" /\ m # mouse_conn)
      BY <1>i, <1>none, <3>1, <1>3
    <3>3. CASE m = mouse_conn
      <4>1. owns(m)
        BY <1>none, <3>3, <1>3 DEF owns
      <4>2. \A x \in Handlers \ {"failure", "discovery", "disconnected"} : Queued(x)' <=> Queued(x)
        <5>1. PICK answer \in LastAnswers(m) :
                work_queue' = Enqueue(IF answer = "none" THEN work_queue
                                      ELSE Enqueue(work_queue, answer), "disconnected")
          BY <1>3, <4>1 DEF LinkLost
        <5>2. answer \in {"none", "failure", "discovery"}
          BY DEF LastAnswers
        <5>3. QED
          BY <2>q, <5>1, <5>2
      <4>3. QED
        BY <3>1, <3>3, <4>1, <4>2, <1>3 DEF LinkLost
    <3>4. CASE m # mouse_conn
      BY <2>q, <3>1, <3>2, <3>4, <1>3 DEF LinkLost, owns
    <3>5. QED
      BY <3>3, <3>4
  <2>t. /\ failure' \in BOOLEAN
        /\ scan_wanted' \in BOOLEAN
    <3>1. failure' \in BOOLEAN
      BY <1>t, <1>3 DEF LinkLost, NoRequest, LastAnswers
    <3>2. scan_wanted' \in BOOLEAN
      BY <1>t, <1>3 DEF LinkLost, NoRequest, LastAnswers
    <3>3. QED
      BY <3>1, <3>2
  <2>1. TypeOK'
    <3>1. UNCHANGED <<mouse_conn, peer, pairing, connecting_address, new_candidate,
                    candidate_bonded, forget_requested, clear_held, started,
                    connected_event_conn, connected_error, session, pending_address, timers,
                    pc, local, auto_connect, references, bonds, saved_peer, attempt_bond,
                    scenario, budget>>
      BY <1>3 DEF LinkLost, NoRequest, LastAnswers
    <3>2. stage' \in Stages
      BY <1>3, <1>t, <1>i DEF LinkLost, NoRequest, LastAnswers
    <3>3. link' \in [Mice -> Links]
      BY <1>3, <1>t, <1>i DEF LinkLost, NoRequest, LastAnswers
    <3>4. security' \in [Mice -> Securities]
      BY <1>3, <1>t, <1>i DEF LinkLost, NoRequest, LastAnswers
    <3>5. gatt' \in [conn : Mice, kind : {"discover", "read", "write", "subscribe"}]
              \cup {NoRequest}
      BY <1>3, <1>t, <1>i DEF LinkLost, NoRequest, LastAnswers
    <3>6. Flags'
      BY <1>t, <3>1, <2>t
    <3>7. Devices'
      BY <1>t, <3>1
    <3>8. WorkerTypes'
      BY <1>t, <3>1, <2>o, <3>2
    <3>9. HostTypes'
      BY <1>t, <3>1, <3>3, <3>4, <3>5
    <3>10. Given'
      BY <1>t, <3>1
    <3>11. QED
      BY <3>6, <3>7, <3>8, <3>9, <3>10
  <2>2. Balanced'
    BY <1>3, <1>i, <2>q, <1>none, <2>e DEF LinkLost, NoRequest, LastAnswers
  <2>3. NoStrayLink'
    BY <1>3, <1>i, <2>q, <1>none, <2>e DEF LinkLost, NoRequest, LastAnswers
  <2>4. QueueOrder'
    BY <1>3, <1>i, <2>q, <1>none, <2>e DEF LinkLost, NoRequest, LastAnswers
  <2>5. ConnectingHolds'
    <3>1. CASE m = mouse_conn
      <4>1. ~Connecting /\ ~Connecting' /\ (Queued("connect")' <=> Queued("connect"))
        BY <1>i, <1>none, <2>e, <1>3, <3>1
      <4>2. QED
        BY <1>i, <2>e, <4>1
    <3>2. CASE m # mouse_conn
      BY <1>i, <2>e, <3>2
    <3>3. QED
      BY <3>1, <3>2
  <2>6. ConnectionHolds'
    BY <1>3, <1>i, <2>q, <1>none, <2>e DEF LinkLost, NoRequest, LastAnswers
  <2>7. EventAccounted'
    BY <1>i, <1>none, <2>e, <1>3
  <2>8. LinksAccounted'
    <3>1. /\ link'[m] \in {"scan", "down"} /\ (link'[m] = "scan" <=> m \in auto_connect)
          /\ security'[m] = "none"
          /\ \A c \in Mice : c # m => link'[c] = link[c] /\ security'[c] = security[c]
      BY <1>t, <2>e
    <3>2. QED
      BY <1>i, <1>none, <1>3, <2>e, <3>1
  <2>9. LinkSettled'
    BY <1>3, <1>i, <2>q, <1>none, <2>e DEF LinkLost, NoRequest, LastAnswers
  <2>10. OneRequest'
    <3>1. CASE m = mouse_conn
      <4>0. gatt' = IF gatt.conn = m THEN NoRequest ELSE gatt
        BY <1>3 DEF LinkLost
      <4>1. stage' = "CLOSING" /\ UNCHANGED <<pc, session, mouse_conn, local>>
        BY <1>3, <1>none, <3>1 DEF LinkLost, owns
      <4>2. gatt' = NoRequest
        BY <1>i, <3>1, <4>0
      <4>3. Queued("discovery")' => Queued("discovery") \/ gatt # NoRequest
        <5>1. PICK answer \in LastAnswers(m) :
                work_queue' = Enqueue(IF answer = "none" THEN work_queue
                                      ELSE Enqueue(work_queue, answer), "disconnected")
          BY <1>none, <3>1, <1>3 DEF LinkLost, owns
        <5>2. answer = "discovery" => gatt = [conn |-> m, kind |-> "discover"]
          BY DEF LastAnswers
        <5>3. answer \in {"none", "failure", "discovery"}
          BY DEF LastAnswers
        <5>4. [conn |-> m, kind |-> "discover"] # NoRequest
          BY <1>none, <1>3 DEF NoRequest
        <5>5. answer # "discovery" => (Queued("discovery")' <=> Queued("discovery"))
          BY <2>q, <5>1, <5>3
        <5>6. QED
          BY <5>2, <5>4, <5>5
      <4>4. pc = "secure" => ~Queued("discovery") /\ gatt = NoRequest
        BY <1>i
      <4>5. QED
        BY <1>i, <4>1, <4>2, <4>3, <4>4
    <3>2. CASE m # mouse_conn
      <4>1. /\ UNCHANGED <<stage, pc, session, mouse_conn, local>> /\ mouse_conn = None
            /\ Queued("discovery")' <=> Queued("discovery")
        BY <1>i, <2>e, <1>3, <3>2 DEF LinkLost, owns
      <4>2. gatt = NoRequest /\ gatt' = NoRequest
        BY <1>i, <1>none, <4>1, <1>3 DEF LinkLost, NoRequest
      <4>3. QED
        BY <1>i, <4>1, <4>2
    <3>3. QED
      BY <3>1, <3>2
  <2>11. QED
    BY <2>o, <2>1, <2>2, <2>3, <2>4, <2>5, <2>6, <2>7, <2>8, <2>9, <2>10 DEF Accounts
<1>4. CASE Encrypted(m)
  <2>q. /\ work_queue' = work_queue => QueueIs({}, {})
        /\ work_queue' = Enqueue(work_queue, "discovery") => QueueIs({"discovery"}, {})
    BY <1>0, <1>4, QueueKept, QueueAdd DEF Handlers, Timers
  <2>o. Once(work_queue') /\ work_queue' \in Seq(Handlers)
    BY <1>4, <1>i, <2>q, <1>none DEF Once, Encrypted
  <2>e. /\ mouse_conn' = mouse_conn /\ UNCHANGED <<pc, link, gatt, session, local>>
        /\ \/ stage' = stage /\ (Queued("discovery")' <=> Queued("discovery"))
           \/ stage = "SECURITY" /\ stage' = "SERVICE" /\ mouse_conn # None
    BY <1>4, <2>q DEF Encrypted
  <2>1. TypeOK'
    <3>1. UNCHANGED <<failure, mouse_conn, peer, pairing, scan_wanted, connecting_address,
                    new_candidate, candidate_bonded, forget_requested, clear_held, started,
                    connected_event_conn, connected_error, session, pending_address, timers,
                    pc, local, link, auto_connect, gatt, references, bonds, saved_peer,
                    attempt_bond, scenario, budget>>
      BY <1>4 DEF Encrypted
    <3>2. stage' \in Stages
      BY <1>4, <1>t, <1>i DEF Encrypted
    <3>3. security' \in [Mice -> Securities]
      BY <1>4, <1>t, <1>i DEF Encrypted
    <3>4. Flags'
      BY <1>t, <3>1
    <3>5. Devices'
      BY <1>t, <3>1
    <3>6. WorkerTypes'
      BY <1>t, <3>1, <2>o, <3>2
    <3>7. HostTypes'
      BY <1>t, <3>1, <3>3
    <3>8. Given'
      BY <1>t, <3>1
    <3>9. QED
      BY <3>4, <3>5, <3>6, <3>7, <3>8
  <2>2. Balanced'
    BY <1>4, <1>i, <2>q, <1>none, <2>e DEF Encrypted
  <2>3. NoStrayLink'
    BY <1>4, <1>i, <2>q, <1>none, <2>e DEF Encrypted
  <2>4. QueueOrder'
    BY <1>4, <1>i, <2>q, <1>none, <2>e DEF Encrypted
  <2>5. ConnectingHolds'
    BY <1>4, <1>i, <2>q, <1>none, <2>e DEF Encrypted
  <2>6. ConnectionHolds'
    BY <1>4, <1>i, <2>q, <1>none, <2>e DEF Encrypted
  <2>7. EventAccounted'
    BY <1>4, <1>i, <2>q, <1>none, <2>e DEF Encrypted
  <2>8. LinksAccounted'
    BY <1>4, <1>i, <2>q, <1>none, <2>e DEF Encrypted
  <2>9. LinkSettled'
    <3>1. UNCHANGED <<mouse_conn, connected_event_conn, pc, link, auto_connect>>
      BY <1>4 DEF Encrypted
    <3>2. pc' = pc /\ (stage' = stage \/ (stage = "SECURITY" /\ stage' = "SERVICE"))
      BY <1>4, <1>i, <2>q, <1>none DEF Encrypted
    <3>3. QED
      BY <1>i, <3>1, <3>2, <1>none
  <2>10. OneRequest'
    BY <1>i, <1>none, <2>e
  <2>11. QED
    BY <2>o, <2>1, <2>2, <2>3, <2>4, <2>5, <2>6, <2>7, <2>8, <2>9, <2>10 DEF Accounts
<1>5. CASE PairingStarts(m)
  <2>q. work_queue' = work_queue => QueueIs({}, {})
    BY <1>0, <1>5, QueueKept DEF Handlers, Timers
  <2>o. Once(work_queue') /\ work_queue' \in Seq(Handlers)
    BY <1>5, <1>i, <2>q, <1>none DEF Once, PairingStarts, legacy_pairing_allowed
  <2>1. TypeOK'
    <3>1. UNCHANGED <<stage, failure, mouse_conn, peer, pairing, scan_wanted,
                    connecting_address, new_candidate, candidate_bonded, forget_requested,
                    clear_held, started, connected_event_conn, connected_error, session,
                    pending_address, timers, pc, local, link, auto_connect, gatt, references,
                    bonds, saved_peer, attempt_bond, scenario, budget>>
      BY <1>5 DEF PairingStarts, legacy_pairing_allowed
    <3>2. security' \in [Mice -> Securities]
      BY <1>5, <1>t, <1>i DEF PairingStarts, legacy_pairing_allowed
    <3>3. Flags'
      BY <1>t, <3>1
    <3>4. Devices'
      BY <1>t, <3>1
    <3>5. WorkerTypes'
      BY <1>t, <3>1, <2>o
    <3>6. HostTypes'
      BY <1>t, <3>1, <3>2
    <3>7. Given'
      BY <1>t, <3>1
    <3>8. QED
      BY <3>3, <3>4, <3>5, <3>6, <3>7
  <2>2. Balanced'
    BY <1>5, <1>i, <2>q, <1>none DEF PairingStarts, legacy_pairing_allowed
  <2>3. NoStrayLink'
    BY <1>5, <1>i, <2>q, <1>none DEF PairingStarts, legacy_pairing_allowed
  <2>4. QueueOrder'
    BY <1>5, <1>i, <2>q, <1>none DEF PairingStarts, legacy_pairing_allowed
  <2>5. ConnectingHolds'
    BY <1>5, <1>i, <2>q, <1>none DEF PairingStarts, legacy_pairing_allowed
  <2>6. ConnectionHolds'
    BY <1>5, <1>i, <2>q, <1>none DEF PairingStarts, legacy_pairing_allowed
  <2>7. EventAccounted'
    BY <1>5, <1>i, <2>q, <1>none DEF PairingStarts, legacy_pairing_allowed
  <2>8. LinksAccounted'
    BY <1>5, <1>i, <2>q, <1>none DEF PairingStarts, legacy_pairing_allowed
  <2>9. LinkSettled'
    BY <1>5, <1>i, <2>q, <1>none DEF PairingStarts, legacy_pairing_allowed
  <2>10. OneRequest'
    BY <1>5, <1>i, <2>q, <1>none DEF PairingStarts, legacy_pairing_allowed
  <2>11. QED
    BY <2>o, <2>1, <2>2, <2>3, <2>4, <2>5, <2>6, <2>7, <2>8, <2>9, <2>10 DEF Accounts
<1>6. CASE PairingEncrypts(m)
  <2>q. /\ work_queue' = work_queue => QueueIs({}, {})
        /\ work_queue' = Enqueue(work_queue, "discovery") => QueueIs({"discovery"}, {})
    BY <1>0, <1>6, QueueKept, QueueAdd DEF Handlers, Timers
  <2>o. Once(work_queue') /\ work_queue' \in Seq(Handlers)
    BY <1>6, <1>i, <2>q, <1>none DEF Once, PairingEncrypts
  <2>e. /\ mouse_conn' = mouse_conn /\ UNCHANGED <<pc, link, gatt, session, local>>
        /\ \/ stage' = stage /\ (Queued("discovery")' <=> Queued("discovery"))
           \/ stage = "SECURITY" /\ stage' = "SERVICE" /\ mouse_conn # None
    BY <1>6, <2>q DEF PairingEncrypts
  <2>1. TypeOK'
    <3>1. UNCHANGED <<failure, mouse_conn, peer, pairing, scan_wanted, connecting_address,
                    new_candidate, candidate_bonded, forget_requested, clear_held, started,
                    connected_event_conn, connected_error, session, pending_address, timers,
                    pc, local, link, auto_connect, gatt, references, bonds, saved_peer,
                    attempt_bond, scenario, budget>>
      BY <1>6 DEF PairingEncrypts
    <3>2. stage' \in Stages
      BY <1>6, <1>t, <1>i DEF PairingEncrypts
    <3>3. security' \in [Mice -> Securities]
      BY <1>6, <1>t, <1>i DEF PairingEncrypts
    <3>4. Flags'
      BY <1>t, <3>1
    <3>5. Devices'
      BY <1>t, <3>1
    <3>6. WorkerTypes'
      BY <1>t, <3>1, <2>o, <3>2
    <3>7. HostTypes'
      BY <1>t, <3>1, <3>3
    <3>8. Given'
      BY <1>t, <3>1
    <3>9. QED
      BY <3>4, <3>5, <3>6, <3>7, <3>8
  <2>2. Balanced'
    BY <1>6, <1>i, <2>q, <1>none, <2>e DEF PairingEncrypts
  <2>3. NoStrayLink'
    BY <1>6, <1>i, <2>q, <1>none, <2>e DEF PairingEncrypts
  <2>4. QueueOrder'
    BY <1>6, <1>i, <2>q, <1>none, <2>e DEF PairingEncrypts
  <2>5. ConnectingHolds'
    BY <1>6, <1>i, <2>q, <1>none, <2>e DEF PairingEncrypts
  <2>6. ConnectionHolds'
    BY <1>6, <1>i, <2>q, <1>none, <2>e DEF PairingEncrypts
  <2>7. EventAccounted'
    BY <1>6, <1>i, <2>q, <1>none, <2>e DEF PairingEncrypts
  <2>8. LinksAccounted'
    BY <1>6, <1>i, <2>q, <1>none, <2>e DEF PairingEncrypts
  <2>9. LinkSettled'
    <3>1. UNCHANGED <<mouse_conn, connected_event_conn, pc, link, auto_connect>>
      BY <1>6 DEF PairingEncrypts
    <3>2. pc' = pc /\ (stage' = stage \/ (stage = "SECURITY" /\ stage' = "SERVICE"))
      BY <1>6, <1>i, <2>q, <1>none DEF PairingEncrypts
    <3>3. QED
      BY <1>i, <3>1, <3>2, <1>none
  <2>10. OneRequest'
    BY <1>i, <1>none, <2>e
  <2>11. QED
    BY <2>o, <2>1, <2>2, <2>3, <2>4, <2>5, <2>6, <2>7, <2>8, <2>9, <2>10 DEF Accounts
<1>7. CASE PairingCompletes(m)
  <2>q. /\ work_queue' = work_queue => QueueIs({}, {})
        /\ work_queue' = Enqueue(work_queue, "failure") => QueueIs({"failure"}, {})
    BY <1>0, <1>7, QueueKept, QueueAdd DEF Handlers, Timers
  <2>o. Once(work_queue') /\ work_queue' \in Seq(Handlers)
    BY <1>7, <1>i, <2>q, <1>none DEF Once, PairingCompletes
  <2>b. candidate_bonded' \in BOOLEAN
    <3>1. (Cardinality(bonds) < MaxPaired) \in BOOLEAN
      OBVIOUS
    <3>2. candidate_bonded' = (Cardinality(bonds) < MaxPaired)
              \/ candidate_bonded' = candidate_bonded
      BY <1>7, Zenon DEF PairingCompletes
    <3>3. QED
      BY <1>t, <3>1, <3>2, Zenon
  <2>t. /\ failure' \in BOOLEAN
        /\ candidate_bonded' \in BOOLEAN
    <3>1. failure' \in BOOLEAN
      BY <1>t, <1>7 DEF PairingCompletes
    <3>2. candidate_bonded' \in BOOLEAN
      BY <2>b
    <3>3. QED
      BY <3>1, <3>2
  <2>1. TypeOK'
    <3>1. UNCHANGED <<stage, mouse_conn, peer, pairing, scan_wanted, connecting_address,
                    new_candidate, forget_requested, clear_held, started, connected_event_conn,
                    connected_error, session, pending_address, timers, pc, local, link,
                    auto_connect, gatt, references, saved_peer, scenario, budget>>
      BY <1>7 DEF PairingCompletes
    <3>2. security' \in [Mice -> Securities]
      BY <1>7, <1>t, <1>i DEF PairingCompletes
    <3>3. bonds' \subseteq Addresses
      BY <1>7, <1>t, <1>i DEF PairingCompletes
    <3>4. attempt_bond' \in Mice \cup {None}
      BY <1>7, <1>t, <1>i DEF PairingCompletes
    <3>5. Flags'
      BY <1>t, <3>1, <2>t
    <3>6. Devices'
      BY <1>t, <3>1, <3>4
    <3>7. WorkerTypes'
      BY <1>t, <3>1, <2>o
    <3>8. HostTypes'
      BY <1>t, <3>1, <3>2, <3>3
    <3>9. Given'
      BY <1>t, <3>1
    <3>10. QED
      BY <3>5, <3>6, <3>7, <3>8, <3>9
  <2>2. Balanced'
    BY <1>7, <1>i, <2>q, <1>none, <2>b DEF PairingCompletes
  <2>3. NoStrayLink'
    BY <1>7, <1>i, <2>q, <1>none, <2>b DEF PairingCompletes
  <2>4. QueueOrder'
    BY <1>7, <1>i, <2>q, <1>none, <2>b DEF PairingCompletes
  <2>5. ConnectingHolds'
    BY <1>7, <1>i, <2>q, <1>none, <2>b DEF PairingCompletes
  <2>6. ConnectionHolds'
    BY <1>7, <1>i, <2>q, <1>none, <2>b DEF PairingCompletes
  <2>7. EventAccounted'
    BY <1>7, <1>i, <2>q, <1>none, <2>b DEF PairingCompletes
  <2>8. LinksAccounted'
    BY <1>7, <1>i, <2>q, <1>none, <2>b DEF PairingCompletes
  <2>9. LinkSettled'
    BY <1>7, <1>i, <2>q, <1>none, <2>b DEF PairingCompletes
  <2>10. OneRequest'
    BY <1>7, <1>i, <2>q, <1>none, <2>b DEF PairingCompletes
  <2>11. QED
    BY <2>o, <2>1, <2>2, <2>3, <2>4, <2>5, <2>6, <2>7, <2>8, <2>9, <2>10 DEF Accounts
<1>8. CASE SecurityFails(m)
  <2>q. /\ work_queue' = work_queue => QueueIs({}, {})
        /\ work_queue' = Enqueue(work_queue, "failure") => QueueIs({"failure"}, {})
    BY <1>0, <1>8, QueueKept, QueueAdd DEF Handlers, Timers
  <2>o. Once(work_queue') /\ work_queue' \in Seq(Handlers)
    BY <1>8, <1>i, <2>q, <1>none DEF Once, SecurityFails, legacy_pairing_allowed
  <2>t. failure' \in BOOLEAN
    BY <1>t, <1>8 DEF SecurityFails, legacy_pairing_allowed
  <2>1. TypeOK'
    <3>1. UNCHANGED <<stage, mouse_conn, peer, pairing, scan_wanted, connecting_address,
                    new_candidate, candidate_bonded, forget_requested, clear_held, started,
                    connected_event_conn, connected_error, session, pending_address, timers,
                    pc, local, link, auto_connect, gatt, references, bonds, saved_peer,
                    attempt_bond, scenario, budget>>
      BY <1>8 DEF SecurityFails, legacy_pairing_allowed
    <3>2. security' \in [Mice -> Securities]
      BY <1>8, <1>t, <1>i DEF SecurityFails, legacy_pairing_allowed
    <3>3. Flags'
      BY <1>t, <3>1, <2>t
    <3>4. Devices'
      BY <1>t, <3>1
    <3>5. WorkerTypes'
      BY <1>t, <3>1, <2>o
    <3>6. HostTypes'
      BY <1>t, <3>1, <3>2
    <3>7. Given'
      BY <1>t, <3>1
    <3>8. QED
      BY <3>3, <3>4, <3>5, <3>6, <3>7
  <2>2. Balanced'
    BY <1>8, <1>i, <2>q, <1>none DEF SecurityFails, legacy_pairing_allowed
  <2>3. NoStrayLink'
    BY <1>8, <1>i, <2>q, <1>none DEF SecurityFails, legacy_pairing_allowed
  <2>4. QueueOrder'
    BY <1>8, <1>i, <2>q, <1>none DEF SecurityFails, legacy_pairing_allowed
  <2>5. ConnectingHolds'
    BY <1>8, <1>i, <2>q, <1>none DEF SecurityFails, legacy_pairing_allowed
  <2>6. ConnectionHolds'
    BY <1>8, <1>i, <2>q, <1>none DEF SecurityFails, legacy_pairing_allowed
  <2>7. EventAccounted'
    BY <1>8, <1>i, <2>q, <1>none DEF SecurityFails, legacy_pairing_allowed
  <2>8. LinksAccounted'
    BY <1>8, <1>i, <2>q, <1>none DEF SecurityFails, legacy_pairing_allowed
  <2>9. LinkSettled'
    BY <1>8, <1>i, <2>q, <1>none DEF SecurityFails, legacy_pairing_allowed
  <2>10. OneRequest'
    BY <1>8, <1>i, <2>q, <1>none DEF SecurityFails, legacy_pairing_allowed
  <2>11. QED
    BY <2>o, <2>1, <2>2, <2>3, <2>4, <2>5, <2>6, <2>7, <2>8, <2>9, <2>10 DEF Accounts
<1>9. CASE NotifyEnds(m)
  <2>q. /\ work_queue' = work_queue => QueueIs({}, {})
        /\ work_queue' = Enqueue(work_queue, "failure") => QueueIs({"failure"}, {})
    BY <1>0, <1>9, QueueKept, QueueAdd DEF Handlers, Timers
  <2>o. Once(work_queue') /\ work_queue' \in Seq(Handlers)
    BY <1>9, <1>i, <2>q, <1>none DEF Once, NotifyEnds
  <2>t. failure' \in BOOLEAN
    BY <1>t, <1>9 DEF NotifyEnds
  <2>1. TypeOK'
    <3>1. UNCHANGED <<stage, mouse_conn, peer, pairing, scan_wanted, connecting_address,
                    new_candidate, candidate_bonded, forget_requested, clear_held, started,
                    connected_event_conn, connected_error, session, pending_address, timers,
                    pc, local, link, security, auto_connect, gatt, references, bonds,
                    saved_peer, attempt_bond, scenario, budget>>
      BY <1>9 DEF NotifyEnds
    <3>2. Flags'
      BY <1>t, <3>1, <2>t
    <3>3. Devices'
      BY <1>t, <3>1
    <3>4. WorkerTypes'
      BY <1>t, <3>1, <2>o
    <3>5. HostTypes'
      BY <1>t, <3>1
    <3>6. Given'
      BY <1>t, <3>1
    <3>7. QED
      BY <3>2, <3>3, <3>4, <3>5, <3>6
  <2>2. Balanced'
    BY <1>9, <1>i, <2>q, <1>none DEF NotifyEnds
  <2>3. NoStrayLink'
    BY <1>9, <1>i, <2>q, <1>none DEF NotifyEnds
  <2>4. QueueOrder'
    BY <1>9, <1>i, <2>q, <1>none DEF NotifyEnds
  <2>5. ConnectingHolds'
    BY <1>9, <1>i, <2>q, <1>none DEF NotifyEnds
  <2>6. ConnectionHolds'
    BY <1>9, <1>i, <2>q, <1>none DEF NotifyEnds
  <2>7. EventAccounted'
    BY <1>9, <1>i, <2>q, <1>none DEF NotifyEnds
  <2>8. LinksAccounted'
    BY <1>9, <1>i, <2>q, <1>none DEF NotifyEnds
  <2>9. LinkSettled'
    BY <1>9, <1>i, <2>q, <1>none DEF NotifyEnds
  <2>10. OneRequest'
    BY <1>9, <1>i, <2>q, <1>none DEF NotifyEnds
  <2>11. QED
    BY <2>o, <2>1, <2>2, <2>3, <2>4, <2>5, <2>6, <2>7, <2>8, <2>9, <2>10 DEF Accounts
<1>10. CASE Advertises(m)
  <2>q. /\ work_queue' = work_queue => QueueIs({}, {})
        /\ work_queue' = Enqueue(work_queue, "connect") => QueueIs({"connect"}, {})
    BY <1>0, <1>10, QueueKept, QueueAdd DEF Handlers, Timers
  <2>o. Once(work_queue') /\ work_queue' \in Seq(Handlers)
    BY <1>10, <1>i, <2>q, <1>none DEF Once, Advertises
  <2>1. TypeOK'
    <3>1. UNCHANGED <<stage, failure, mouse_conn, peer, pairing, scan_wanted,
                    connecting_address, new_candidate, candidate_bonded, forget_requested,
                    clear_held, started, connected_event_conn, connected_error, session,
                    timers, pc, local, link, security, auto_connect, gatt, references, bonds,
                    saved_peer, attempt_bond, scenario, budget>>
      BY <1>10 DEF Advertises
    <3>2. pending_address' \in Mice \cup {None}
      BY <1>10, <1>t, <1>i DEF Advertises
    <3>3. Flags'
      BY <1>t, <3>1
    <3>4. Devices'
      BY <1>t, <3>1, <3>2
    <3>5. WorkerTypes'
      BY <1>t, <3>1, <2>o
    <3>6. HostTypes'
      BY <1>t, <3>1
    <3>7. Given'
      BY <1>t, <3>1
    <3>8. QED
      BY <3>3, <3>4, <3>5, <3>6, <3>7
  <2>2. Balanced'
    BY <1>10, <1>i, <2>q, <1>none DEF Advertises
  <2>3. NoStrayLink'
    BY <1>10, <1>i, <2>q, <1>none DEF Advertises
  <2>4. QueueOrder'
    BY <1>10, <1>i, <2>q, <1>none DEF Advertises
  <2>5. ConnectingHolds'
    BY <1>10, <1>i, <2>q, <1>none DEF Advertises
  <2>6. ConnectionHolds'
    BY <1>10, <1>i, <2>q, <1>none DEF Advertises
  <2>7. EventAccounted'
    BY <1>10, <1>i, <2>q, <1>none DEF Advertises
  <2>8. LinksAccounted'
    BY <1>10, <1>i, <2>q, <1>none DEF Advertises
  <2>9. LinkSettled'
    BY <1>10, <1>i, <2>q, <1>none DEF Advertises
  <2>10. OneRequest'
    BY <1>10, <1>i, <2>q, <1>none DEF Advertises
  <2>11. QED
    BY <2>o, <2>1, <2>2, <2>3, <2>4, <2>5, <2>6, <2>7, <2>8, <2>9, <2>10 DEF Accounts
<1>11. QED
  BY <1>1, <1>2, <1>3, <1>4, <1>5, <1>6, <1>7, <1>8, <1>9, <1>10

(* GATT answers.                                                             *)
LEMMA AccountsAnswers ==
  ASSUME Accounts, NEW found \in BOOLEAN, NEW profile \in Profiles, NEW ok \in BOOLEAN,
         DiscoverCb(found, profile) \/ ReadCb(ok) \/ WrittenCb(ok) \/ SubscribedCb(ok)
  PROVE  Accounts'
<1>0. Once(work_queue)
  BY DEF Accounts
<1>i. /\ TypeOK /\ Balanced /\ NoStrayLink /\ QueueOrder /\ ConnectingHolds
      /\ ConnectionHolds /\ EventAccounted /\ LinksAccounted /\ LinkSettled /\ OneRequest
  BY DEF Accounts
<1>t. TypeOK
  BY <1>i
<1>b. Balanced
  BY <1>i
<1>none. None \notin Mice
  BY ClientAssumption
<1> USE DEF candidateVars, peerVars, userVars, eventVars, keptVars, workerVars, queueVars,
            stepVars, linkVars, hostVars, clientVars,
            Stages, Links, Securities, Handlers, Timers, Profiles, Faults, Addresses, QueueIs
<1> USE DEF TypeOK, Flags, Devices, WorkerTypes, HostTypes, Given, Balanced, Held, NoStrayLink,
            QueueOrder, ConnectingHolds, ConnectionHolds, EventAccounted, LinksAccounted,
            LinkSettled, OneRequest,
            Connecting, Finishing, TearingDown, Forgetting, EarlyStages, LateStages, EventOnWay
<1> USE DEF owns, valid_callback, Fail, next_stage, Submit, RequestRetry, RetryWork, RetryWanted,
            AutoOff, Unpair, LetGo, ForgetDone, ConnectFailed, SecurityChanged, Connected,
            Refused, Answer, Ignored, Failed, Advance, Request, DiscoverStep
<1>1. CASE DiscoverCb(found, profile)
  <2>q. /\ work_queue' = work_queue => QueueIs({}, {})
        /\ work_queue' = Enqueue(work_queue, "failure") => QueueIs({"failure"}, {})
        /\ work_queue' = Enqueue(work_queue, "discovery") => QueueIs({"discovery"}, {})
    BY <1>0, <1>1, QueueKept, QueueAdd DEF Handlers, Timers
  <2>o. Once(work_queue') /\ work_queue' \in Seq(Handlers)
    BY <1>1, <1>i, <2>q, <1>none DEF Once, DiscoverCb, NoRequest, Usable
  <2>e. scenario' = scenario /\ (session' = session
        \/ (session.index = 0 /\ session' = [session EXCEPT !.profile = profile]))
    <3>1. scenario' = scenario
      BY <1>1 DEF DiscoverCb, Answer
    <3>2. CASE stage = "CHARACTERISTICS"
      <4>1. session.index = 0
        BY <1>i, <3>2
      <4>2. session' = session \/ session' = [session EXCEPT !.profile = profile]
        BY <1>1, <3>2 DEF DiscoverCb, Ignored
      <4>3. QED
        BY <3>1, <4>1, <4>2
    <3>3. CASE stage # "CHARACTERISTICS"
      BY <1>1, <3>1, <3>3 DEF DiscoverCb, Ignored, Failed
    <3>4. QED
      BY <3>2, <3>3
  <2>s. /\ session' \in [profile : Profiles' \cup {NoProfile}, index : Nat, covered : SUBSET Needs]
        /\ session'.index <= Len(session'.profile.reports)
    <3>1. /\ session \in [profile : Profiles \cup {NoProfile}, index : Nat, covered : SUBSET Needs]
          /\ session.index <= Len(session.profile.reports) /\ Profiles' = Profiles
      BY <1>t, <2>e
    <3>2. CASE session' = session
      BY <3>1, <3>2
    <3>3. CASE session.index = 0 /\ session' = [session EXCEPT !.profile = profile]
      <4>1. Len(profile.reports) \in Nat
        BY <1>t, <1>1, ReportsTyped
      <4>2. /\ session' \in [profile : Profiles
                   \cup {NoProfile}, index : Nat, covered : SUBSET Needs]
            /\ session'.index = 0 /\ session'.profile = profile
        BY <1>1, <3>1, <3>3
      <4>3. QED
        BY <3>1, <4>1, <4>2
    <3>4. QED
      BY <2>e, <3>2, <3>3
  <2>t. failure' \in BOOLEAN
    BY <1>t, <1>1 DEF DiscoverCb, NoRequest, Usable
  <2>1. TypeOK'
    <3>1. UNCHANGED <<mouse_conn, peer, pairing, scan_wanted, connecting_address,
                    new_candidate, candidate_bonded, forget_requested, clear_held, started,
                    connected_event_conn, connected_error, pending_address, timers, pc, local,
                    link, security, auto_connect, references, bonds, saved_peer, attempt_bond,
                    scenario, budget>>
      BY <1>1 DEF DiscoverCb, NoRequest, Usable
    <3>2. stage' \in Stages
      BY <1>1, <1>t, <1>i DEF DiscoverCb, NoRequest, Usable
    <3>3. gatt' \in [conn : Mice, kind : {"discover", "read", "write", "subscribe"}]
              \cup {NoRequest}
      BY <1>1, <1>t, <1>i DEF DiscoverCb, NoRequest, Usable
    <3>4. Flags'
      BY <1>t, <3>1, <2>t
    <3>5. Devices'
      BY <1>t, <3>1
    <3>6. WorkerTypes'
      BY <1>t, <3>1, <2>o, <3>2
    <3>7. HostTypes'
      BY <1>t, <3>1, <3>3
    <3>8. Given'
      BY <1>t, <3>1, <2>s
    <3>9. QED
      BY <3>4, <3>5, <3>6, <3>7, <3>8
  <2>2. Balanced'
    BY <1>1, <1>i, <2>q, <1>none, <2>e, <2>s DEF DiscoverCb, NoRequest, Usable
  <2>3. NoStrayLink'
    BY <1>1, <1>i, <2>q, <1>none, <2>e, <2>s DEF DiscoverCb, NoRequest, Usable
  <2>4. QueueOrder'
    BY <1>1, <1>i, <2>q, <1>none, <2>e, <2>s DEF DiscoverCb, NoRequest, Usable
  <2>5. ConnectingHolds'
    BY <1>1, <1>i, <2>q, <1>none, <2>e, <2>s DEF DiscoverCb, NoRequest, Usable
  <2>6. ConnectionHolds'
    BY <1>1, <1>i, <2>q, <1>none, <2>e, <2>s DEF DiscoverCb, NoRequest, Usable
  <2>7. EventAccounted'
    BY <1>1, <1>i, <2>q, <1>none, <2>e, <2>s DEF DiscoverCb, NoRequest, Usable
  <2>8. LinksAccounted'
    BY <1>1, <1>i, <2>q, <1>none, <2>e, <2>s DEF DiscoverCb, NoRequest, Usable
  <2>9. LinkSettled'
    BY <1>1, <1>i, <2>q, <1>none, <2>e, <2>s DEF DiscoverCb, NoRequest, Usable
  <2>10. OneRequest'
    BY <1>1, <1>i, <2>q, <1>none, <2>e, <2>s DEF DiscoverCb, NoRequest, Usable
  <2>11. QED
    BY <2>o, <2>1, <2>2, <2>3, <2>4, <2>5, <2>6, <2>7, <2>8, <2>9, <2>10 DEF Accounts
<1>2. CASE ReadCb(ok)
  <2>q. /\ work_queue' = work_queue => QueueIs({}, {})
        /\ work_queue' = Enqueue(work_queue, "failure") => QueueIs({"failure"}, {})
        /\ work_queue' = Enqueue(work_queue, "discovery") => QueueIs({"discovery"}, {})
    BY <1>0, <1>2, QueueKept, QueueAdd DEF Handlers, Timers
  <2>o. Once(work_queue') /\ work_queue' \in Seq(Handlers)
    BY <1>2, <1>i, <2>q, <1>none DEF Once, ReadCb, NoRequest
  <2>e. scenario' = scenario /\ (session' = session
        \/ /\ session.index < Len(session.profile.reports)
           /\ session' = [session EXCEPT !.index = session.index + 1])
    BY <1>2, <1>i, <2>q, <1>none DEF ReadCb, NoRequest
  <2>s. /\ session' \in [profile : Profiles' \cup {NoProfile}, index : Nat, covered : SUBSET Needs]
        /\ session'.index <= Len(session'.profile.reports)
    <3>1. CASE session' = session
      BY <1>t, <2>e, <3>1
    <3>2. CASE /\ session.index < Len(session.profile.reports)
               /\ session' = [session EXCEPT !.index = session.index + 1]
      <4>1. session.index + 1 \in 0 .. Count
        BY <1>t, <3>2, NextReport
      <4>2. QED
        BY <1>t, <2>e, <3>2, <4>1, SessionMoves
    <3>3. QED
      BY <2>e, <3>1, <3>2
  <2>t. failure' \in BOOLEAN
    BY <1>t, <1>2 DEF ReadCb, NoRequest
  <2>1. TypeOK'
    <3>1. UNCHANGED <<mouse_conn, peer, pairing, scan_wanted, connecting_address,
                    new_candidate, candidate_bonded, forget_requested, clear_held, started,
                    connected_event_conn, connected_error, pending_address, timers, pc, local,
                    link, security, auto_connect, references, bonds, saved_peer, attempt_bond,
                    scenario, budget>>
      BY <1>2 DEF ReadCb, NoRequest
    <3>2. stage' \in Stages
      BY <1>2, <1>t, <1>i DEF ReadCb, NoRequest
    <3>3. gatt' \in [conn : Mice, kind : {"discover", "read", "write", "subscribe"}]
              \cup {NoRequest}
      BY <1>2, <1>t, <1>i DEF ReadCb, NoRequest
    <3>4. Flags'
      BY <1>t, <3>1, <2>t
    <3>5. Devices'
      BY <1>t, <3>1
    <3>6. WorkerTypes'
      BY <1>t, <3>1, <2>o, <3>2
    <3>7. HostTypes'
      BY <1>t, <3>1, <3>3
    <3>8. Given'
      BY <1>t, <3>1, <2>s
    <3>9. QED
      BY <3>4, <3>5, <3>6, <3>7, <3>8
  <2>2. Balanced'
    BY <1>2, <1>i, <2>q, <1>none, <2>e, <2>s DEF ReadCb, NoRequest
  <2>3. NoStrayLink'
    BY <1>2, <1>i, <2>q, <1>none, <2>e, <2>s DEF ReadCb, NoRequest
  <2>4. QueueOrder'
    BY <1>2, <1>i, <2>q, <1>none, <2>e, <2>s DEF ReadCb, NoRequest
  <2>5. ConnectingHolds'
    BY <1>2, <1>i, <2>q, <1>none, <2>e, <2>s DEF ReadCb, NoRequest
  <2>6. ConnectionHolds'
    BY <1>2, <1>i, <2>q, <1>none, <2>e, <2>s DEF ReadCb, NoRequest
  <2>7. EventAccounted'
    BY <1>2, <1>i, <2>q, <1>none, <2>e, <2>s DEF ReadCb, NoRequest
  <2>8. LinksAccounted'
    BY <1>2, <1>i, <2>q, <1>none, <2>e, <2>s DEF ReadCb, NoRequest
  <2>9. LinkSettled'
    BY <1>2, <1>i, <2>q, <1>none, <2>e, <2>s DEF ReadCb, NoRequest
  <2>10. OneRequest'
    BY <1>2, <1>i, <2>q, <1>none, <2>e, <2>s DEF ReadCb, NoRequest
  <2>11. QED
    BY <2>o, <2>1, <2>2, <2>3, <2>4, <2>5, <2>6, <2>7, <2>8, <2>9, <2>10 DEF Accounts
<1>3. CASE WrittenCb(ok)
  <2>q. /\ work_queue' = work_queue => QueueIs({}, {})
        /\ work_queue' = Enqueue(work_queue, "failure") => QueueIs({"failure"}, {})
        /\ work_queue' = Enqueue(work_queue, "discovery") => QueueIs({"discovery"}, {})
    BY <1>0, <1>3, QueueKept, QueueAdd DEF Handlers, Timers
  <2>o. Once(work_queue') /\ work_queue' \in Seq(Handlers)
    BY <1>3, <1>i, <2>q, <1>none DEF Once, WrittenCb, NoRequest
  <2>e. scenario' = scenario /\ session' = session
    BY <1>3, <1>i, <2>q, <1>none DEF WrittenCb, NoRequest
  <2>s. /\ session' \in [profile : Profiles' \cup {NoProfile}, index : Nat, covered : SUBSET Needs]
        /\ session'.index <= Len(session'.profile.reports)
    BY <1>t, <2>e
  <2>t. failure' \in BOOLEAN
    BY <1>t, <1>3 DEF WrittenCb, NoRequest
  <2>1. TypeOK'
    <3>1. UNCHANGED <<mouse_conn, peer, pairing, scan_wanted, connecting_address,
                    new_candidate, candidate_bonded, forget_requested, clear_held, started,
                    connected_event_conn, connected_error, session, pending_address, timers,
                    pc, local, link, security, auto_connect, references, bonds, saved_peer,
                    attempt_bond, scenario, budget>>
      BY <1>3 DEF WrittenCb, NoRequest
    <3>2. stage' \in Stages
      BY <1>3, <1>t, <1>i DEF WrittenCb, NoRequest
    <3>3. gatt' \in [conn : Mice, kind : {"discover", "read", "write", "subscribe"}]
              \cup {NoRequest}
      BY <1>3, <1>t, <1>i DEF WrittenCb, NoRequest
    <3>4. Flags'
      BY <1>t, <3>1, <2>t
    <3>5. Devices'
      BY <1>t, <3>1
    <3>6. WorkerTypes'
      BY <1>t, <3>1, <2>o, <3>2
    <3>7. HostTypes'
      BY <1>t, <3>1, <3>3
    <3>8. Given'
      BY <1>t, <3>1
    <3>9. QED
      BY <3>4, <3>5, <3>6, <3>7, <3>8
  <2>2. Balanced'
    BY <1>3, <1>i, <2>q, <1>none, <2>e, <2>s DEF WrittenCb, NoRequest
  <2>3. NoStrayLink'
    BY <1>3, <1>i, <2>q, <1>none, <2>e, <2>s DEF WrittenCb, NoRequest
  <2>4. QueueOrder'
    BY <1>3, <1>i, <2>q, <1>none, <2>e, <2>s DEF WrittenCb, NoRequest
  <2>5. ConnectingHolds'
    BY <1>3, <1>i, <2>q, <1>none, <2>e, <2>s DEF WrittenCb, NoRequest
  <2>6. ConnectionHolds'
    BY <1>3, <1>i, <2>q, <1>none, <2>e, <2>s DEF WrittenCb, NoRequest
  <2>7. EventAccounted'
    BY <1>3, <1>i, <2>q, <1>none, <2>e, <2>s DEF WrittenCb, NoRequest
  <2>8. LinksAccounted'
    BY <1>3, <1>i, <2>q, <1>none, <2>e, <2>s DEF WrittenCb, NoRequest
  <2>9. LinkSettled'
    BY <1>3, <1>i, <2>q, <1>none, <2>e, <2>s DEF WrittenCb, NoRequest
  <2>10. OneRequest'
    BY <1>3, <1>i, <2>q, <1>none, <2>e, <2>s DEF WrittenCb, NoRequest
  <2>11. QED
    BY <2>o, <2>1, <2>2, <2>3, <2>4, <2>5, <2>6, <2>7, <2>8, <2>9, <2>10 DEF Accounts
<1>4. CASE SubscribedCb(ok)
  <2>q. /\ work_queue' = work_queue => QueueIs({}, {})
        /\ work_queue' = Enqueue(work_queue, "failure") => QueueIs({"failure"}, {})
        /\ work_queue' = Enqueue(work_queue, "discovery") => QueueIs({"discovery"}, {})
    BY <1>0, <1>4, QueueKept, QueueAdd DEF Handlers, Timers
  <2>o. Once(work_queue') /\ work_queue' \in Seq(Handlers)
    BY <1>4, <1>i, <2>q, <1>none DEF Once, SubscribedCb, NoRequest
  <2>e. scenario' = scenario /\ (session' = session
        \/ /\ session.index < Len(session.profile.reports)
           /\ session' = [session EXCEPT !.index = session.index + 1, !.covered = session.covered
                            \cup session.profile.reports[session.index + 1].covers])
    BY <1>4, <1>i, <2>q, <1>none DEF SubscribedCb, NoRequest
  <2>s. /\ session' \in [profile : Profiles' \cup {NoProfile}, index : Nat, covered : SUBSET Needs]
        /\ session'.index <= Len(session'.profile.reports)
    <3>1. /\ session \in [profile : Profiles \cup {NoProfile}, index : Nat, covered : SUBSET Needs]
          /\ session.index <= Len(session.profile.reports) /\ Profiles' = Profiles
      BY <1>t, <2>e
    <3>2. CASE session' = session
      BY <3>1, <3>2
    <3>3. CASE /\ session.index < Len(session.profile.reports)
               /\ session' = [session EXCEPT !.index = session.index + 1,
                  !.covered = session.covered
                                \cup session.profile.reports[session.index + 1].covers]
      <4> DEFINE covered == session.covered
                              \cup session.profile.reports[session.index + 1].covers
      <4>1. session.index + 1 \in 0 .. Count /\ covered \in SUBSET Needs
        BY <1>t, <3>3, NextReport
      <4>2. session' = [session EXCEPT !.index = session.index + 1, !.covered = covered]
        BY <3>3
      <4> HIDE DEF covered
      <4>3. QED
        BY <1>t, <2>e, <4>1, <4>2, SessionCovers
    <3>4. QED
      BY <2>e, <3>2, <3>3
  <2>t. failure' \in BOOLEAN
    BY <1>t, <1>4 DEF SubscribedCb, NoRequest
  <2>1. TypeOK'
    <3>1. UNCHANGED <<stage, mouse_conn, peer, pairing, scan_wanted, connecting_address,
                    new_candidate, candidate_bonded, forget_requested, clear_held, started,
                    connected_event_conn, connected_error, pending_address, timers, pc, local,
                    link, security, auto_connect, references, bonds, saved_peer, attempt_bond,
                    scenario, budget>>
      BY <1>4 DEF SubscribedCb, NoRequest
    <3>2. gatt' \in [conn : Mice, kind : {"discover", "read", "write", "subscribe"}]
              \cup {NoRequest}
      BY <1>4, <1>t, <1>i DEF SubscribedCb, NoRequest
    <3>3. Flags'
      BY <1>t, <3>1, <2>t
    <3>4. Devices'
      BY <1>t, <3>1
    <3>5. WorkerTypes'
      BY <1>t, <3>1, <2>o
    <3>6. HostTypes'
      BY <1>t, <3>1, <3>2
    <3>7. Given'
      BY <1>t, <3>1, <2>s
    <3>8. QED
      BY <3>3, <3>4, <3>5, <3>6, <3>7
  <2>2. Balanced'
    BY <1>4, <1>i, <2>q, <1>none, <2>e, <2>s DEF SubscribedCb, NoRequest
  <2>3. NoStrayLink'
    BY <1>4, <1>i, <2>q, <1>none, <2>e, <2>s DEF SubscribedCb, NoRequest
  <2>4. QueueOrder'
    BY <1>4, <1>i, <2>q, <1>none, <2>e, <2>s DEF SubscribedCb, NoRequest
  <2>5. ConnectingHolds'
    BY <1>4, <1>i, <2>q, <1>none, <2>e, <2>s DEF SubscribedCb, NoRequest
  <2>6. ConnectionHolds'
    BY <1>4, <1>i, <2>q, <1>none, <2>e, <2>s DEF SubscribedCb, NoRequest
  <2>7. EventAccounted'
    BY <1>4, <1>i, <2>q, <1>none, <2>e, <2>s DEF SubscribedCb, NoRequest
  <2>8. LinksAccounted'
    BY <1>4, <1>i, <2>q, <1>none, <2>e, <2>s DEF SubscribedCb, NoRequest
  <2>9. LinkSettled'
    BY <1>4, <1>i, <2>q, <1>none, <2>e, <2>s DEF SubscribedCb, NoRequest
  <2>10. OneRequest'
    BY <1>4, <1>i, <2>q, <1>none, <2>e, <2>s DEF SubscribedCb, NoRequest
  <2>11. QED
    BY <2>o, <2>1, <2>2, <2>3, <2>4, <2>5, <2>6, <2>7, <2>8, <2>9, <2>10 DEF Accounts
<1>5. QED
  BY <1>1, <1>2, <1>3, <1>4

(* Keys, timers, and the boot.                                               *)
LEMMA AccountsKeys ==
  ASSUME Accounts, NEW pressed \in BOOLEAN, NEW timer \in Timers,
         PairPressed \/ ClearHold(pressed) \/ Expire(timer) \/ Start
  PROVE  Accounts'
<1>0. Once(work_queue)
  BY DEF Accounts
<1>i. /\ TypeOK /\ Balanced /\ NoStrayLink /\ QueueOrder /\ ConnectingHolds
      /\ ConnectionHolds /\ EventAccounted /\ LinksAccounted /\ LinkSettled /\ OneRequest
  BY DEF Accounts
<1>t. TypeOK
  BY <1>i
<1>b. Balanced
  BY <1>i
<1>none. None \notin Mice
  BY ClientAssumption
<1> USE DEF candidateVars, peerVars, userVars, eventVars, keptVars, workerVars, queueVars,
            stepVars, linkVars, hostVars, clientVars,
            Stages, Links, Securities, Handlers, Timers, Profiles, Faults, Addresses, QueueIs
<1> USE DEF TypeOK, Flags, Devices, WorkerTypes, HostTypes, Given, Balanced, Held, NoStrayLink,
            QueueOrder, ConnectingHolds, ConnectionHolds, EventAccounted, LinksAccounted,
            LinkSettled, OneRequest,
            Connecting, Finishing, TearingDown, Forgetting, EarlyStages, LateStages, EventOnWay
<1> USE DEF owns, valid_callback, Fail, next_stage, Submit, RequestRetry, RetryWork, RetryWanted,
            AutoOff, Unpair, LetGo, ForgetDone, ConnectFailed, SecurityChanged, Connected,
            Refused, Answer, Ignored, Failed, Advance, Request, DiscoverStep
<1>1. CASE PairPressed
  <2>q. /\ work_queue' = work_queue => QueueIs({}, {})
        /\ work_queue' = Enqueue(work_queue, "pair") => QueueIs({"pair"}, {})
    BY <1>0, <1>1, QueueKept, QueueAdd DEF Handlers, Timers
  <2>o. Once(work_queue') /\ work_queue' \in Seq(Handlers)
    BY <1>1, <1>i, <2>q, <1>none DEF Once, PairPressed
  <2>u. budget' \in [pair : Nat, clear : Nat, power : Nat]
    BY <1>t, <1>1, BudgetSpent DEF PairPressed
  <2>1. TypeOK'
    <3>1. UNCHANGED <<stage, failure, mouse_conn, peer, pairing, scan_wanted,
                    connecting_address, new_candidate, candidate_bonded, forget_requested,
                    clear_held, started, connected_event_conn, connected_error, session,
                    pending_address, timers, pc, local, link, security, auto_connect, gatt,
                    references, bonds, saved_peer, attempt_bond, scenario>>
      BY <1>1 DEF PairPressed
    <3>2. Flags'
      BY <1>t, <3>1
    <3>3. Devices'
      BY <1>t, <3>1
    <3>4. WorkerTypes'
      BY <1>t, <3>1, <2>o
    <3>5. HostTypes'
      BY <1>t, <3>1
    <3>6. Given'
      BY <1>t, <3>1, <2>u
    <3>7. QED
      BY <3>2, <3>3, <3>4, <3>5, <3>6
  <2>2. Balanced'
    BY <1>1, <1>i, <2>q, <1>none, <2>u DEF PairPressed
  <2>3. NoStrayLink'
    BY <1>1, <1>i, <2>q, <1>none, <2>u DEF PairPressed
  <2>4. QueueOrder'
    BY <1>1, <1>i, <2>q, <1>none, <2>u DEF PairPressed
  <2>5. ConnectingHolds'
    BY <1>1, <1>i, <2>q, <1>none, <2>u DEF PairPressed
  <2>6. ConnectionHolds'
    BY <1>1, <1>i, <2>q, <1>none, <2>u DEF PairPressed
  <2>7. EventAccounted'
    BY <1>1, <1>i, <2>q, <1>none, <2>u DEF PairPressed
  <2>8. LinksAccounted'
    BY <1>1, <1>i, <2>q, <1>none, <2>u DEF PairPressed
  <2>9. LinkSettled'
    BY <1>1, <1>i, <2>q, <1>none, <2>u DEF PairPressed
  <2>10. OneRequest'
    BY <1>1, <1>i, <2>q, <1>none, <2>u DEF PairPressed
  <2>11. QED
    BY <2>o, <2>1, <2>2, <2>3, <2>4, <2>5, <2>6, <2>7, <2>8, <2>9, <2>10 DEF Accounts
<1>2. CASE ClearHold(pressed)
  <2>q. /\ work_queue' = work_queue => QueueIs({}, {})
        /\ work_queue' = Dequeue(work_queue, "clear") => QueueIs({}, {"clear"})
    BY <1>0, <1>2, QueueKept, QueueDrop DEF Handlers, Timers
  <2>o. Once(work_queue') /\ work_queue' \in Seq(Handlers)
    BY <1>2, <1>i, <2>q, <1>none DEF Once, ClearHold
  <2>u. budget' \in [pair : Nat, clear : Nat, power : Nat]
    BY <1>t, <1>2, BudgetSpent DEF ClearHold
  <2>s. timers' \subseteq Timers
    <3>1. timers' = timers \cup {"clear"} \/ timers' = timers \ {"clear"}
      BY <1>2 DEF ClearHold
    <3>2. QED
      BY <1>t, <3>1
  <2>t. clear_held' \in BOOLEAN
    BY <1>t, <1>2 DEF ClearHold
  <2>1. TypeOK'
    <3>1. UNCHANGED <<stage, failure, mouse_conn, peer, pairing, scan_wanted,
                    connecting_address, new_candidate, candidate_bonded, forget_requested,
                    started, connected_event_conn, connected_error, session, pending_address,
                    pc, local, link, security, auto_connect, gatt, references, bonds,
                    saved_peer, attempt_bond, scenario>>
      BY <1>2 DEF ClearHold
    <3>2. Flags'
      BY <1>t, <3>1, <2>t
    <3>3. Devices'
      BY <1>t, <3>1
    <3>4. WorkerTypes'
      BY <1>t, <3>1, <2>o, <2>s
    <3>5. HostTypes'
      BY <1>t, <3>1
    <3>6. Given'
      BY <1>t, <3>1, <2>u
    <3>7. QED
      BY <3>2, <3>3, <3>4, <3>5, <3>6
  <2>2. Balanced'
    BY <1>2, <1>i, <2>q, <1>none, <2>u, <2>s DEF ClearHold
  <2>3. NoStrayLink'
    BY <1>2, <1>i, <2>q, <1>none, <2>u, <2>s DEF ClearHold
  <2>4. QueueOrder'
    BY <1>2, <1>i, <2>q, <1>none, <2>u, <2>s DEF ClearHold
  <2>5. ConnectingHolds'
    BY <1>2, <1>i, <2>q, <1>none, <2>u, <2>s DEF ClearHold
  <2>6. ConnectionHolds'
    BY <1>2, <1>i, <2>q, <1>none, <2>u, <2>s DEF ClearHold
  <2>7. EventAccounted'
    BY <1>2, <1>i, <2>q, <1>none, <2>u, <2>s DEF ClearHold
  <2>8. LinksAccounted'
    BY <1>2, <1>i, <2>q, <1>none, <2>u, <2>s DEF ClearHold
  <2>9. LinkSettled'
    BY <1>2, <1>i, <2>q, <1>none, <2>u, <2>s DEF ClearHold
  <2>10. OneRequest'
    BY <1>2, <1>i, <2>q, <1>none, <2>u, <2>s DEF ClearHold
  <2>11. QED
    BY <2>o, <2>1, <2>2, <2>3, <2>4, <2>5, <2>6, <2>7, <2>8, <2>9, <2>10 DEF Accounts
<1>3. CASE Expire(timer)
  <2>q. /\ work_queue' = work_queue => QueueIs({}, {})
        /\ work_queue' = Enqueue(work_queue, timer) => QueueIs({timer}, {})
    BY <1>0, <1>3, QueueKept, QueueAdd DEF Handlers, Timers
  <2>o. Once(work_queue') /\ work_queue' \in Seq(Handlers)
    BY <1>3, <1>i, <2>q, <1>none DEF Once, Expire
  <2>1. TypeOK'
    <3>1. UNCHANGED <<stage, failure, mouse_conn, peer, pairing, scan_wanted,
                    connecting_address, new_candidate, candidate_bonded, forget_requested,
                    clear_held, started, connected_event_conn, connected_error, session,
                    pending_address, pc, local, link, security, auto_connect, gatt, references,
                    bonds, saved_peer, attempt_bond, scenario, budget>>
      BY <1>3 DEF Expire
    <3>2. timers' \subseteq Timers
      BY <1>3, <1>t, <1>i DEF Expire
    <3>3. Flags'
      BY <1>t, <3>1
    <3>4. Devices'
      BY <1>t, <3>1
    <3>5. WorkerTypes'
      BY <1>t, <3>1, <2>o, <3>2
    <3>6. HostTypes'
      BY <1>t, <3>1
    <3>7. Given'
      BY <1>t, <3>1
    <3>8. QED
      BY <3>3, <3>4, <3>5, <3>6, <3>7
  <2>2. Balanced'
    BY <1>3, <1>i, <2>q, <1>none DEF Expire
  <2>3. NoStrayLink'
    BY <1>3, <1>i, <2>q, <1>none DEF Expire
  <2>4. QueueOrder'
    BY <1>3, <1>i, <2>q, <1>none DEF Expire
  <2>5. ConnectingHolds'
    BY <1>3, <1>i, <2>q, <1>none DEF Expire
  <2>6. ConnectionHolds'
    BY <1>3, <1>i, <2>q, <1>none DEF Expire
  <2>7. EventAccounted'
    BY <1>3, <1>i, <2>q, <1>none DEF Expire
  <2>8. LinksAccounted'
    BY <1>3, <1>i, <2>q, <1>none DEF Expire
  <2>9. LinkSettled'
    BY <1>3, <1>i, <2>q, <1>none DEF Expire
  <2>10. OneRequest'
    BY <1>3, <1>i, <2>q, <1>none DEF Expire
  <2>11. QED
    BY <2>o, <2>1, <2>2, <2>3, <2>4, <2>5, <2>6, <2>7, <2>8, <2>9, <2>10 DEF Accounts
<1>4. CASE Start
  <2>q. work_queue' = work_queue => QueueIs({}, {})
    BY <1>0, <1>4, QueueKept DEF Handlers, Timers
  <2>o. Once(work_queue') /\ work_queue' \in Seq(Handlers)
    BY <1>4, <1>i, <2>q, <1>none DEF Once, Start
  <2>t. started' \in BOOLEAN
    BY <1>t, <1>4 DEF Start
  <2>1. TypeOK'
    <3>1. UNCHANGED <<stage, failure, mouse_conn, pairing, scan_wanted, connecting_address,
                    new_candidate, candidate_bonded, forget_requested, clear_held,
                    connected_event_conn, connected_error, session, pending_address, pc, local,
                    link, security, auto_connect, gatt, references, bonds, saved_peer,
                    attempt_bond, scenario, budget>>
      BY <1>4 DEF Start
    <3>2. peer' \in Mice \cup {None}
      BY <1>4, <1>t, <1>i DEF Start
    <3>3. timers' \subseteq Timers
      BY <1>4, <1>t, <1>i DEF Start
    <3>4. Flags'
      BY <1>t, <3>1, <2>t
    <3>5. Devices'
      BY <1>t, <3>1, <3>2
    <3>6. WorkerTypes'
      BY <1>t, <3>1, <2>o, <3>3
    <3>7. HostTypes'
      BY <1>t, <3>1
    <3>8. Given'
      BY <1>t, <3>1
    <3>9. QED
      BY <3>4, <3>5, <3>6, <3>7, <3>8
  <2>2. Balanced'
    BY <1>4, <1>i, <2>q, <1>none DEF Start
  <2>3. NoStrayLink'
    BY <1>4, <1>i, <2>q, <1>none DEF Start
  <2>4. QueueOrder'
    BY <1>4, <1>i, <2>q, <1>none DEF Start
  <2>5. ConnectingHolds'
    BY <1>4, <1>i, <2>q, <1>none DEF Start
  <2>6. ConnectionHolds'
    BY <1>4, <1>i, <2>q, <1>none DEF Start
  <2>7. EventAccounted'
    BY <1>4, <1>i, <2>q, <1>none DEF Start
  <2>8. LinksAccounted'
    BY <1>4, <1>i, <2>q, <1>none DEF Start
  <2>9. LinkSettled'
    BY <1>4, <1>i, <2>q, <1>none DEF Start
  <2>10. OneRequest'
    BY <1>4, <1>i, <2>q, <1>none DEF Start
  <2>11. QED
    BY <2>o, <2>1, <2>2, <2>3, <2>4, <2>5, <2>6, <2>7, <2>8, <2>9, <2>10 DEF Accounts
<1>5. QED
  BY <1>1, <1>2, <1>3, <1>4

(* Other devices.                                                            *)
LEMMA AccountsOthers ==
  ASSUME Accounts, NEW d \in Others,
         OtherPairs(d)
  PROVE  Accounts'
<1>0. Once(work_queue)
  BY DEF Accounts
<1>i. /\ TypeOK /\ Balanced /\ NoStrayLink /\ QueueOrder /\ ConnectingHolds
      /\ ConnectionHolds /\ EventAccounted /\ LinksAccounted /\ LinkSettled /\ OneRequest
  BY DEF Accounts
<1>t. TypeOK
  BY <1>i
<1>b. Balanced
  BY <1>i
<1>none. None \notin Mice
  BY ClientAssumption
<1> USE DEF candidateVars, peerVars, userVars, eventVars, keptVars, workerVars, queueVars,
            stepVars, linkVars, hostVars, clientVars,
            Stages, Links, Securities, Handlers, Timers, Profiles, Faults, Addresses, QueueIs
<1> USE DEF TypeOK, Flags, Devices, WorkerTypes, HostTypes, Given, Balanced, Held, NoStrayLink,
            QueueOrder, ConnectingHolds, ConnectionHolds, EventAccounted, LinksAccounted,
            LinkSettled, OneRequest,
            Connecting, Finishing, TearingDown, Forgetting, EarlyStages, LateStages, EventOnWay
<1> USE DEF owns, valid_callback, Fail, next_stage, Submit, RequestRetry, RetryWork, RetryWanted,
            AutoOff, Unpair, LetGo, ForgetDone, ConnectFailed, SecurityChanged, Connected,
            Refused, Answer, Ignored, Failed, Advance, Request, DiscoverStep
<1>1. CASE OtherPairs(d)
  <2>q. work_queue' = work_queue => QueueIs({}, {})
    BY <1>0, <1>1, QueueKept DEF Handlers, Timers
  <2>o. Once(work_queue') /\ work_queue' \in Seq(Handlers)
    BY <1>1, <1>i, <2>q, <1>none DEF Once, OtherPairs
  <2>1. TypeOK'
    <3>1. UNCHANGED <<stage, failure, mouse_conn, peer, pairing, scan_wanted,
                    connecting_address, new_candidate, candidate_bonded, forget_requested,
                    clear_held, started, connected_event_conn, connected_error, session,
                    pending_address, timers, pc, local, link, security, auto_connect, gatt,
                    references, saved_peer, attempt_bond, scenario, budget>>
      BY <1>1 DEF OtherPairs
    <3>2. bonds' \subseteq Addresses
      BY <1>1, <1>t, <1>i DEF OtherPairs
    <3>3. Flags'
      BY <1>t, <3>1
    <3>4. Devices'
      BY <1>t, <3>1
    <3>5. WorkerTypes'
      BY <1>t, <3>1, <2>o
    <3>6. HostTypes'
      BY <1>t, <3>1, <3>2
    <3>7. Given'
      BY <1>t, <3>1
    <3>8. QED
      BY <3>3, <3>4, <3>5, <3>6, <3>7
  <2>2. Balanced'
    BY <1>1, <1>i, <2>q, <1>none DEF OtherPairs
  <2>3. NoStrayLink'
    BY <1>1, <1>i, <2>q, <1>none DEF OtherPairs
  <2>4. QueueOrder'
    BY <1>1, <1>i, <2>q, <1>none DEF OtherPairs
  <2>5. ConnectingHolds'
    BY <1>1, <1>i, <2>q, <1>none DEF OtherPairs
  <2>6. ConnectionHolds'
    BY <1>1, <1>i, <2>q, <1>none DEF OtherPairs
  <2>7. EventAccounted'
    BY <1>1, <1>i, <2>q, <1>none DEF OtherPairs
  <2>8. LinksAccounted'
    BY <1>1, <1>i, <2>q, <1>none DEF OtherPairs
  <2>9. LinkSettled'
    BY <1>1, <1>i, <2>q, <1>none DEF OtherPairs
  <2>10. OneRequest'
    BY <1>1, <1>i, <2>q, <1>none DEF OtherPairs
  <2>11. QED
    BY <2>o, <2>1, <2>2, <2>3, <2>4, <2>5, <2>6, <2>7, <2>8, <2>9, <2>10 DEF Accounts
<1>2. QED
  BY <1>1

(* A step that changes nothing.                                              *)
LEMMA AccountsStutter ==
  ASSUME Accounts, UNCHANGED vars
  PROVE  Accounts'
<1> USE DEF vars, candidateVars, peerVars, userVars, eventVars, keptVars, workerVars, queueVars,
            linkVars, hostVars, clientVars
<1>0. TypeOK
  BY DEF Accounts
<1>1. TypeOK'
  <2>1. Flags' /\ Devices'
    BY <1>0 DEF TypeOK, Flags, Devices
  <2>2. WorkerTypes' /\ HostTypes'
    BY <1>0 DEF TypeOK, WorkerTypes, HostTypes
  <2>3. Given'
    BY <1>0 DEF TypeOK, Given, Profiles
  <2>4. QED
    BY <2>1, <2>2, <2>3 DEF TypeOK, Flags, Devices, WorkerTypes, HostTypes, Given
<1>2. Balanced' /\ NoStrayLink' /\ Once(work_queue')
  BY DEF Accounts, Balanced, Held, NoStrayLink
<1>3. QueueOrder' /\ ConnectingHolds' /\ ConnectionHolds'
  BY DEF Accounts, QueueOrder, Before, ConnectingHolds, ConnectionHolds, Connecting, Finishing,
     TearingDown, Forgetting, Queued, Holds
<1>4. EventAccounted' /\ LinksAccounted' /\ LinkSettled'
  BY DEF Accounts, EventAccounted, LinksAccounted, LinkSettled, EventOnWay, Connecting,
     TearingDown, Finishing, Queued, Holds
<1>5. OneRequest'
  BY DEF Accounts, OneRequest, Finishing, Queued, Holds
<1>6. QED
  BY <1>1, <1>2, <1>3, <1>4, <1>5 DEF Accounts

LEMMA AccountsStep == Accounts /\ [Next]_vars => Accounts'
<1> SUFFICES ASSUME Accounts, [Next]_vars
             PROVE  Accounts'
  OBVIOUS
<1>0. TypeOK
  BY DEF Accounts
<1>m. /\ scenario.mice \subseteq Mice /\ scenario.others \subseteq Others
      /\ Profiles = scenario.profiles /\ Profiles # {}
  BY <1>0, ClientAssumption DEF TypeOK, Profiles
<1>1. CASE Worker
  BY <1>1, AccountsTimers, AccountsEnding, AccountsConnecting, AccountsSecuring,
     AccountsDiscovery DEF Worker
<1>2. CASE Radio
  <2>1. ASSUME NEW m \in scenario.mice,
               \/ LinkUp(m) \/ LinkRefused(m) \/ LinkLost(m)
               \/ Encrypted(m) \/ PairingStarts(m) \/ PairingEncrypts(m) \/ PairingCompletes(m)
               \/ SecurityFails(m) \/ NotifyEnds(m) \/ Advertises(m)
        PROVE  Accounts'
    BY <1>m, <2>1, AccountsRadio
  <2>2. ASSUME GattAnswers
        PROVE  Accounts'
    <3>1. ASSUME NEW found \in BOOLEAN, NEW profile \in Profiles, DiscoverCb(found, profile)
          PROVE  Accounts'
      BY <3>1, AccountsAnswers
    <3>2. ASSUME NEW ok \in BOOLEAN, ReadCb(ok) \/ WrittenCb(ok) \/ SubscribedCb(ok)
          PROVE  Accounts'
      BY <1>m, <3>2, AccountsAnswers
    <3>3. QED
      BY <2>2, <3>1, <3>2 DEF GattAnswers
  <2>3. QED
    BY <1>2, <2>1, <2>2 DEF Radio
<1>3. CASE User
  <2>1. PairPressed \/ ClearHold(TRUE) \/ ClearHold(FALSE)
    BY <1>3 DEF User, Pressed, Released
  <2>2. "retry" \in Timers
    BY DEF Timers
  <2>3. QED
    BY <2>1, <2>2, AccountsKeys
<1>4. ASSUME NEW timer \in Timers, Expire(timer)
      PROVE  Accounts'
  BY <1>4, AccountsKeys
<1>5. CASE Start
  <2>1. "retry" \in Timers
    BY DEF Timers
  <2>2. QED
    BY <1>5, <2>1, AccountsKeys
<1>6. CASE PowerLoss
  BY <1>0, <1>6, AccountsPowerLoss
<1>7. ASSUME NEW d \in scenario.others, OtherPairs(d)
      PROVE  Accounts'
  BY <1>m, <1>7, AccountsOthers
<1>8. CASE UNCHANGED vars
  BY <1>8, AccountsStutter
<1>9. QED
  BY <1>1, <1>2, <1>3, <1>4, <1>5, <1>6, <1>7, <1>8 DEF Next

(* ClientInv: the client's connections, the host's links and the references  *)
(* between them always account for each other, whatever fails and whatever   *)
(* the mouse, the user and other devices do (connect_mouse, connected_cb,    *)
(* connected_work_cb, disconnected_cb, disconnected_work_cb).                *)
THEOREM ConnectionsAccounted == SafeSpec => []ClientInv
<1>1. Accounts => ClientInv
  BY BalancedReferences DEF Accounts, ClientInv
<1>2. QED
  BY <1>1, AccountsInit, AccountsStep, PTL DEF SafeSpec

--------------------------------------------------------------------------------
(* The registration: what the client holds about its candidate, the pairing  *)
(* window, a pending Clear, and the mouse it has registered.                 *)

(* Before the boot is over nothing runs.                                     *)
Started ==
    ~started =>
        /\ peer = None /\ mouse_conn = None /\ pc = "idle" /\ stage = "IDLE"
        /\ ~pairing /\ ~forget_requested
        /\ timers = {} /\ \A x \in Handlers : ~Queued(x)
        /\ connected_event_conn = None /\ pending_address = None /\ auto_connect = {}

(* A candidate is new exactly when no mouse is registered; the bond its      *)
(* attempt made is there until disconnected_work_cb has removed it.          *)
CandidateHolds ==
    /\ Attempt => (new_candidate <=> peer = None)
    /\ Connecting => ~candidate_bonded
    /\ (candidate_bonded /\ new_candidate /\ mouse_conn # None) =>
        /\ attempt_bond = mouse_conn
        /\ mouse_conn \in bonds \/ pc = "release"
        /\ link[mouse_conn] \in {"up", "closing"} \/ Queued("disconnected") \/ TearingDown
    /\ \A m \in Mice : security[m] \in {"pairing", "keys"} => m \notin bonds /\ peer = None
    /\ \A m \in Mice : security[m] = "done" /\ peer # None => m \in bonds
    /\ pc \in {"save", "ready"} /\ new_candidate => candidate_bonded
    /\ pc = "save" => new_candidate

(* A pending Clear has failed the connection or is being carried out; a new  *)
(* candidate whose attempt goes on has its pairing window open.              *)
WindowHolds ==
    /\ forget_requested => mouse_conn # None \/ Forgetting
    /\ Forgetting => forget_requested
    /\ forget_requested /\ mouse_conn # None => failure
    /\ mouse_conn # None /\ ~failure /\ peer = None => pairing
    /\ Connecting /\ peer = None => pairing
    /\ Finishing => ~forget_requested /\ (peer = None => pairing)
    /\ pc = "delete" => ~pairing /\ peer # None /\ peer \notin bonds

(* A registered mouse is the only one connected to, and is the one in flash; *)
(* from discovery on it is bonded.                                           *)
RegistrationHolds ==
    /\ peer # None /\ mouse_conn # None => mouse_conn = peer
    /\ peer # None /\ Connecting => pending_address = peer
    /\ peer # None => saved_peer = peer
    /\ pc = "ready" /\ new_candidate => saved_peer = mouse_conn
    /\ peer # None /\ mouse_conn # None /\ (stage \in LateStages \/ Finishing) => peer \in bonds
    /\ pc \in {"save", "ready"} \/ stage = "READY" => session.covered = Needs
    /\ stage = "READY" => mouse_conn # None /\ peer # None

(* Inductive together with Accounts.                                         *)
Registered == Started /\ CandidateHolds /\ WindowHolds /\ RegistrationHolds

(* After a reset.                                                            *)
LEMMA RegisteredReset == RamCleared => Registered
<1> SUFFICES ASSUME RamCleared
             PROVE  Registered
  OBVIOUS
<1>1. \A x : ~Queued(x)
  BY EmptySeq DEF RamCleared, Queued, Holds
<1>2. Started /\ CandidateHolds
  BY <1>1 DEF RamCleared, Started, CandidateHolds, Attempt, Connecting
<1>3. WindowHolds /\ RegistrationHolds
  BY DEF RamCleared, WindowHolds, RegistrationHolds, Connecting, Forgetting, Finishing, LateStages
<1>4. QED
  BY <1>2, <1>3 DEF Registered

LEMMA RegisteredPowerLoss ==
  ASSUME PowerLoss
  PROVE  Registered'
<1>1. RamCleared'
  BY DEF PowerLoss, RamCleared
<1>2. QED
  BY <1>1, RegisteredReset, PTL

(* The timers' and the keys' handlers.                                       *)
LEMMA RegisteredTimers ==
  ASSUME Accounts, Registered,
         RetryHandler \/ TimeoutHandler \/ PairTimeoutHandler \/ PairHandler \/ ClearHandler
  PROVE  Registered'
<1>0. Once(work_queue)
  BY DEF Accounts
<1>i. /\ TypeOK /\ NoStrayLink /\ ConnectingHolds /\ ConnectionHolds /\ EventAccounted
      /\ LinksAccounted /\ LinkSettled /\ OneRequest
      /\ Started /\ CandidateHolds /\ WindowHolds /\ RegistrationHolds
  BY DEF Accounts, Registered
<1>none. None \notin Mice /\ Mice \cap Others = {}
  BY ClientAssumption
<1> USE DEF candidateVars, peerVars, userVars, eventVars, keptVars, workerVars, queueVars,
            stepVars, linkVars, hostVars, clientVars,
            Stages, Links, Securities, Handlers, Timers, Profiles, Faults, Addresses, QueueIs
<1> USE DEF TypeOK, NoStrayLink, ConnectingHolds, ConnectionHolds, EventAccounted, LinksAccounted,
            LinkSettled, OneRequest, Connecting, Finishing, TearingDown, Forgetting, EarlyStages,
            LateStages, EventOnWay
<1> USE DEF Started, CandidateHolds, WindowHolds, RegistrationHolds, Attempt
<1> USE DEF owns, valid_callback, Fail, next_stage, Submit, RequestRetry, RetryWork, RetryWanted,
            AutoOff, Unpair, LetGo, ForgetDone, ConnectFailed, SecurityChanged, Connected,
            Refused, Answer, Ignored, Failed, Advance, Request, DiscoverStep
<1>1. CASE RetryHandler
  <2>q. /\ work_queue' = Rest => QueueIs({}, {"retry"})
        /\ work_queue' = Enqueue(Rest, "connect") => QueueIs({"connect"}, {"retry"})
    BY <1>0, <1>1, QueueTake, QueueTakeAdd DEF Handlers, Timers, RetryHandler
  <2>h. /\ pc = "idle" /\ Queued("retry")
        /\ \A a \in Handlers : Before(work_queue, a, "retry") => ~Queued(a)
    BY <1>0, <1>1, QueueHead DEF RetryHandler
  <2>1. Started'
    BY <1>1, <1>i, <2>q, <2>h, <1>none DEF RetryHandler
  <2>2. CandidateHolds'
    BY <1>1, <1>i, <2>q, <2>h, <1>none DEF RetryHandler
  <2>3. WindowHolds'
    BY <1>1, <1>i, <2>h, <1>none DEF RetryHandler
  <2>4. RegistrationHolds'
    BY <1>1, <1>i, <2>h, <1>none DEF RetryHandler
  <2>5. QED
    BY <2>1, <2>2, <2>3, <2>4 DEF Registered
<1>2. CASE TimeoutHandler
  <2>q. /\ work_queue' = Rest => QueueIs({}, {"timeout"})
        /\ work_queue' = Enqueue(Rest, "failure") => QueueIs({"failure"}, {"timeout"})
    BY <1>0, <1>2, QueueTake, QueueTakeAdd DEF Handlers, Timers, TimeoutHandler
  <2>h. /\ pc = "idle" /\ Queued("timeout")
        /\ \A a \in Handlers : Before(work_queue, a, "timeout") => ~Queued(a)
    BY <1>0, <1>2, QueueHead DEF TimeoutHandler
  <2>1. Started'
    BY <1>2, <1>i, <2>q, <2>h, <1>none DEF TimeoutHandler
  <2>2. CandidateHolds'
    BY <1>2, <1>i, <2>q, <2>h, <1>none DEF TimeoutHandler
  <2>3. WindowHolds'
    BY <1>2, <1>i, <2>h, <1>none DEF TimeoutHandler
  <2>4. RegistrationHolds'
    BY <1>2, <1>i, <2>h, <1>none DEF TimeoutHandler
  <2>5. QED
    BY <2>1, <2>2, <2>3, <2>4 DEF Registered
<1>3. CASE PairTimeoutHandler
  <2>q. /\ work_queue' = Rest => QueueIs({}, {"pair_timeout"})
        /\ work_queue' = Enqueue(Rest, "failure") => QueueIs({"failure"}, {"pair_timeout"})
        /\ work_queue' = Enqueue(Rest, "connect") => QueueIs({"connect"}, {"pair_timeout"})
    BY <1>0, <1>3, QueueTake, QueueTakeAdd DEF Handlers, Timers, PairTimeoutHandler
  <2>h. /\ pc = "idle" /\ Queued("pair_timeout")
        /\ \A a \in Handlers : Before(work_queue, a, "pair_timeout") => ~Queued(a)
    BY <1>0, <1>3, QueueHead DEF PairTimeoutHandler
  <2>1. Started'
    BY <1>3, <1>i, <2>q, <2>h, <1>none DEF PairTimeoutHandler, AbandonsCandidate
  <2>2. CandidateHolds'
    BY <1>3, <1>i, <2>q, <2>h, <1>none DEF PairTimeoutHandler, AbandonsCandidate
  <2>3. WindowHolds'
    BY <1>3, <1>i, <2>h, <1>none DEF PairTimeoutHandler, AbandonsCandidate
  <2>4. RegistrationHolds'
    BY <1>3, <1>i, <2>h, <1>none DEF PairTimeoutHandler, AbandonsCandidate
  <2>5. QED
    BY <2>1, <2>2, <2>3, <2>4 DEF Registered
<1>4. CASE PairHandler
  <2>q. /\ work_queue' = Rest => QueueIs({}, {"pair"})
        /\ work_queue' = Enqueue(Rest, "connect") => QueueIs({"connect"}, {"pair"})
    BY <1>0, <1>4, QueueTake, QueueTakeAdd DEF Handlers, Timers, PairHandler
  <2>h. /\ pc = "idle" /\ Queued("pair")
        /\ \A a \in Handlers : Before(work_queue, a, "pair") => ~Queued(a)
    BY <1>0, <1>4, QueueHead DEF PairHandler
  <2>1. Started'
    BY <1>4, <1>i, <2>q, <2>h, <1>none DEF PairHandler
  <2>2. CandidateHolds'
    BY <1>4, <1>i, <2>q, <2>h, <1>none DEF PairHandler
  <2>3. WindowHolds'
    BY <1>4, <1>i, <2>h, <1>none DEF PairHandler
  <2>4. RegistrationHolds'
    BY <1>4, <1>i, <2>h, <1>none DEF PairHandler
  <2>5. QED
    BY <2>1, <2>2, <2>3, <2>4 DEF Registered
<1>5. CASE ClearHandler
  <2>q. /\ work_queue' = Rest => QueueIs({}, {"clear"})
        /\ work_queue' = Enqueue(Rest, "failure") => QueueIs({"failure"}, {"clear"})
    BY <1>0, <1>5, QueueTake, QueueTakeAdd DEF Handlers, Timers, ClearHandler
  <2>h. /\ pc = "idle" /\ Queued("clear")
        /\ \A a \in Handlers : Before(work_queue, a, "clear") => ~Queued(a)
    BY <1>0, <1>5, QueueHead DEF ClearHandler
  <2>1. Started'
    BY <1>5, <1>i, <2>q, <2>h, <1>none DEF ClearHandler
  <2>2. CandidateHolds'
    BY <1>5, <1>i, <2>q, <2>h, <1>none DEF ClearHandler
  <2>3. WindowHolds'
    BY <1>5, <1>i, <2>h, <1>none DEF ClearHandler
  <2>4. RegistrationHolds'
    BY <1>5, <1>i, <2>h, <1>none DEF ClearHandler
  <2>5. QED
    BY <2>1, <2>2, <2>3, <2>4 DEF Registered
<1>6. QED
  BY <1>1, <1>2, <1>3, <1>4, <1>5

(* A connection is ended, let go and forgotten.                              *)
LEMMA RegisteredEnding ==
  ASSUME Accounts, Registered,
         FailureHandler \/ DisconnectedHandler \/ Teardown \/ Release \/ Forget \/ Delete
  PROVE  Registered'
<1>0. Once(work_queue)
  BY DEF Accounts
<1>i. /\ TypeOK /\ NoStrayLink /\ ConnectingHolds /\ ConnectionHolds /\ EventAccounted
      /\ LinksAccounted /\ LinkSettled /\ OneRequest
      /\ Started /\ CandidateHolds /\ WindowHolds /\ RegistrationHolds
  BY DEF Accounts, Registered
<1>none. None \notin Mice /\ Mice \cap Others = {}
  BY ClientAssumption
<1> USE DEF candidateVars, peerVars, userVars, eventVars, keptVars, workerVars, queueVars,
            stepVars, linkVars, hostVars, clientVars,
            Stages, Links, Securities, Handlers, Timers, Profiles, Faults, Addresses, QueueIs
<1> USE DEF TypeOK, NoStrayLink, ConnectingHolds, ConnectionHolds, EventAccounted, LinksAccounted,
            LinkSettled, OneRequest, Connecting, Finishing, TearingDown, Forgetting, EarlyStages,
            LateStages, EventOnWay
<1> USE DEF Started, CandidateHolds, WindowHolds, RegistrationHolds, Attempt
<1> USE DEF owns, valid_callback, Fail, next_stage, Submit, RequestRetry, RetryWork, RetryWanted,
            AutoOff, Unpair, LetGo, ForgetDone, ConnectFailed, SecurityChanged, Connected,
            Refused, Answer, Ignored, Failed, Advance, Request, DiscoverStep
<1>1. CASE FailureHandler
  <2>q. work_queue' = Rest => QueueIs({}, {"failure"})
    BY <1>0, <1>1, QueueTake DEF Handlers, Timers, FailureHandler
  <2>h. /\ pc = "idle" /\ Queued("failure")
        /\ \A a \in Handlers : Before(work_queue, a, "failure") => ~Queued(a)
    BY <1>0, <1>1, QueueHead DEF FailureHandler
  <2>1. Started'
    BY <1>1, <1>i, <2>q, <2>h, <1>none DEF FailureHandler, NotConnected, KeepsUp
  <2>2. CandidateHolds'
    BY <1>1, <1>i, <2>q, <2>h, <1>none DEF FailureHandler, NotConnected, KeepsUp
  <2>3. WindowHolds'
    BY <1>1, <1>i, <2>h, <1>none DEF FailureHandler, NotConnected, KeepsUp
  <2>4. RegistrationHolds'
    BY <1>1, <1>i, <2>h, <1>none DEF FailureHandler, NotConnected, KeepsUp
  <2>5. QED
    BY <2>1, <2>2, <2>3, <2>4 DEF Registered
<1>2. CASE DisconnectedHandler
  <2>q. work_queue' = Rest => QueueIs({}, {"disconnected"})
    BY <1>0, <1>2, QueueTake DEF Handlers, Timers, DisconnectedHandler
  <2>h. /\ pc = "idle" /\ Queued("disconnected")
        /\ \A a \in Handlers : Before(work_queue, a, "disconnected") => ~Queued(a)
    BY <1>0, <1>2, QueueHead DEF DisconnectedHandler
  <2>1. Started'
    BY <1>2, <1>i, <2>q, <2>h, <1>none DEF DisconnectedHandler
  <2>2. CandidateHolds'
    BY <1>2, <1>i, <2>q, <2>h, <1>none DEF DisconnectedHandler
  <2>3. WindowHolds'
    BY <1>2, <1>i, <2>h, <1>none DEF DisconnectedHandler
  <2>4. RegistrationHolds'
    BY <1>2, <1>i, <2>h, <1>none DEF DisconnectedHandler
  <2>5. QED
    BY <2>1, <2>2, <2>3, <2>4 DEF Registered
<1>3. CASE Teardown
  <2>q. work_queue' = work_queue => QueueIs({}, {})
    BY <1>0, <1>3, QueueKept DEF Handlers, Timers
  <2>1. Started'
    BY <1>3, <1>i, <2>q, <1>none DEF Teardown, RemovesCandidateBond
  <2>2. CandidateHolds'
    BY <1>3, <1>i, <2>q, <1>none DEF Teardown, RemovesCandidateBond
  <2>3. WindowHolds'
    BY <1>3, <1>i, <1>none DEF Teardown, RemovesCandidateBond
  <2>4. RegistrationHolds'
    BY <1>3, <1>i, <1>none DEF Teardown, RemovesCandidateBond
  <2>5. QED
    BY <2>1, <2>2, <2>3, <2>4 DEF Registered
<1>4. CASE Release
  <2>q. /\ work_queue' = work_queue => QueueIs({}, {})
        /\ work_queue' = Dequeue(work_queue, "timeout") => QueueIs({}, {"timeout"})
    BY <1>0, <1>4, QueueKept, QueueDrop DEF Handlers, Timers
  <2>1. Started'
    BY <1>4, <1>i, <2>q, <1>none DEF Release
  <2>2. CandidateHolds'
    BY <1>4, <1>i, <2>q, <1>none DEF Release
  <2>3. WindowHolds'
    BY <1>4, <1>i, <1>none DEF Release
  <2>4. RegistrationHolds'
    BY <1>4, <1>i, <1>none DEF Release
  <2>5. QED
    BY <2>1, <2>2, <2>3, <2>4 DEF Registered
<1>5. CASE Forget
  <2>q. /\ work_queue' = work_queue => QueueIs({}, {})
        /\ work_queue' = Dequeue(work_queue, "pair_timeout") => QueueIs({}, {"pair_timeout"})
    BY <1>0, <1>5, QueueKept, QueueDrop DEF Handlers, Timers
  <2>e. /\ pc = "forget" /\ mouse_conn = None /\ forget_requested = TRUE /\ pairing' = FALSE
        /\ UNCHANGED <<mouse_conn, new_candidate, candidate_bonded, attempt_bond, peer, security,
                       failure>>
        /\ \/ pc' = "idle" /\ forget_requested' = FALSE /\ bonds' = bonds
           \/ /\ pc' = "delete" /\ peer # None
              /\ forget_requested' = TRUE /\ bonds' = bonds \ {peer}
    BY <1>5, <1>i DEF Forget, have_peer
  <2>d. \A c \in Mice : security[c] = "none"
    <3>1. \A c \in Mice : link[c] = "down"
      BY <1>i, <1>none, <2>e
    <3>2. QED
      BY <1>i, <3>1
  <2>1. Started'
    BY <1>5, <1>i, <2>q, <1>none, <2>e, <2>d DEF Forget, have_peer
  <2>2. CandidateHolds'
    BY <1>i, <1>none, <2>e, <2>d
  <2>3. WindowHolds'
    BY <1>i, <1>none, <2>e
  <2>4. RegistrationHolds'
    BY <1>5, <1>i, <1>none, <2>e, <2>d DEF Forget, have_peer
  <2>5. QED
    BY <2>1, <2>2, <2>3, <2>4 DEF Registered
<1>6. CASE Delete
  <2>q. /\ work_queue' = work_queue => QueueIs({}, {})
        /\ work_queue' = Dequeue(work_queue, "pair_timeout") => QueueIs({}, {"pair_timeout"})
    BY <1>0, <1>6, QueueKept, QueueDrop DEF Handlers, Timers
  <2>1. Started'
    BY <1>6, <1>i, <2>q, <1>none DEF Delete
  <2>2. CandidateHolds'
    BY <1>6, <1>i, <2>q, <1>none DEF Delete
  <2>3. WindowHolds'
    BY <1>6, <1>i, <1>none DEF Delete
  <2>4. RegistrationHolds'
    BY <1>6, <1>i, <1>none DEF Delete
  <2>5. QED
    BY <2>1, <2>2, <2>3, <2>4 DEF Registered
<1>7. QED
  BY <1>1, <1>2, <1>3, <1>4, <1>5, <1>6

(* connect_work_cb and connect_mouse.                                        *)
LEMMA RegisteredConnecting ==
  ASSUME Accounts, Registered,
         ConnectHandler \/ AutoConnect \/ Lookup
  PROVE  Registered'
<1>0. Once(work_queue)
  BY DEF Accounts
<1>i. /\ TypeOK /\ NoStrayLink /\ ConnectingHolds /\ ConnectionHolds /\ EventAccounted
      /\ LinksAccounted /\ LinkSettled /\ OneRequest
      /\ Started /\ CandidateHolds /\ WindowHolds /\ RegistrationHolds
  BY DEF Accounts, Registered
<1>none. None \notin Mice /\ Mice \cap Others = {}
  BY ClientAssumption
<1> USE DEF candidateVars, peerVars, userVars, eventVars, keptVars, workerVars, queueVars,
            stepVars, linkVars, hostVars, clientVars,
            Stages, Links, Securities, Handlers, Timers, Profiles, Faults, Addresses, QueueIs
<1> USE DEF TypeOK, NoStrayLink, ConnectingHolds, ConnectionHolds, EventAccounted, LinksAccounted,
            LinkSettled, OneRequest, Connecting, Finishing, TearingDown, Forgetting, EarlyStages,
            LateStages, EventOnWay
<1> USE DEF Started, CandidateHolds, WindowHolds, RegistrationHolds, Attempt
<1> USE DEF owns, valid_callback, Fail, next_stage, Submit, RequestRetry, RetryWork, RetryWanted,
            AutoOff, Unpair, LetGo, ForgetDone, ConnectFailed, SecurityChanged, Connected,
            Refused, Answer, Ignored, Failed, Advance, Request, DiscoverStep
<1>1. CASE ConnectHandler
  <2>q. work_queue' = Rest => QueueIs({}, {"connect"})
    BY <1>0, <1>1, QueueTake DEF Handlers, Timers, ConnectHandler
  <2>h. /\ pc = "idle" /\ Queued("connect")
        /\ \A a \in Handlers : Before(work_queue, a, "connect") => ~Queued(a)
    BY <1>0, <1>1, QueueHead DEF ConnectHandler
  <2>1. Started'
    BY <1>1, <1>i, <2>q, <2>h, <1>none
       DEF ConnectHandler, MayConnect, NoFreeBond, NoSession, NoProfile
  <2>2. CandidateHolds'
    BY <1>1, <1>i, <2>q, <2>h, <1>none
       DEF ConnectHandler, MayConnect, NoFreeBond, NoSession, NoProfile
  <2>3. WindowHolds'
    BY <1>1, <1>i, <2>h, <1>none
       DEF ConnectHandler, MayConnect, NoFreeBond, NoSession, NoProfile
  <2>4. RegistrationHolds'
    BY <1>1, <1>i, <2>h, <1>none
       DEF ConnectHandler, MayConnect, NoFreeBond, NoSession, NoProfile
  <2>5. QED
    BY <2>1, <2>2, <2>3, <2>4 DEF Registered
<1>2. CASE AutoConnect
  <2>q. work_queue' = work_queue => QueueIs({}, {})
    BY <1>0, <1>2, QueueKept DEF Handlers, Timers
  <2>1. Started'
    BY <1>2, <1>i, <2>q, <1>none DEF AutoConnect
  <2>2. CandidateHolds'
    BY <1>2, <1>i, <2>q, <1>none DEF AutoConnect
  <2>3. WindowHolds'
    BY <1>2, <1>i, <1>none DEF AutoConnect
  <2>4. RegistrationHolds'
    BY <1>2, <1>i, <1>none DEF AutoConnect
  <2>5. QED
    BY <2>1, <2>2, <2>3, <2>4 DEF Registered
<1>3. CASE Lookup
  <2>q. work_queue' = work_queue => QueueIs({}, {})
    BY <1>0, <1>3, QueueKept DEF Handlers, Timers
  <2>1. Started'
    BY <1>3, <1>i, <2>q, <1>none DEF Lookup
  <2>2. CandidateHolds'
    BY <1>3, <1>i, <2>q, <1>none DEF Lookup
  <2>3. WindowHolds'
    BY <1>3, <1>i, <1>none DEF Lookup
  <2>4. RegistrationHolds'
    BY <1>3, <1>i, <1>none DEF Lookup
  <2>5. QED
    BY <2>1, <2>2, <2>3, <2>4 DEF Registered
<1>4. QED
  BY <1>1, <1>2, <1>3

(* connected_work_cb.                                                        *)
LEMMA RegisteredSecuring ==
  ASSUME Accounts, Registered,
         ConnectedHandler \/ EventTaken \/ Completed \/ Secure \/ RequestSecurity \/ Secured
  PROVE  Registered'
<1>0. Once(work_queue)
  BY DEF Accounts
<1>i. /\ TypeOK /\ NoStrayLink /\ ConnectingHolds /\ ConnectionHolds /\ EventAccounted
      /\ LinksAccounted /\ LinkSettled /\ OneRequest
      /\ Started /\ CandidateHolds /\ WindowHolds /\ RegistrationHolds
  BY DEF Accounts, Registered
<1>none. None \notin Mice /\ Mice \cap Others = {}
  BY ClientAssumption
<1> USE DEF candidateVars, peerVars, userVars, eventVars, keptVars, workerVars, queueVars,
            stepVars, linkVars, hostVars, clientVars,
            Stages, Links, Securities, Handlers, Timers, Profiles, Faults, Addresses, QueueIs
<1> USE DEF TypeOK, NoStrayLink, ConnectingHolds, ConnectionHolds, EventAccounted, LinksAccounted,
            LinkSettled, OneRequest, Connecting, Finishing, TearingDown, Forgetting, EarlyStages,
            LateStages, EventOnWay
<1> USE DEF Started, CandidateHolds, WindowHolds, RegistrationHolds, Attempt
<1> USE DEF owns, valid_callback, Fail, next_stage, Submit, RequestRetry, RetryWork, RetryWanted,
            AutoOff, Unpair, LetGo, ForgetDone, ConnectFailed, SecurityChanged, Connected,
            Refused, Answer, Ignored, Failed, Advance, Request, DiscoverStep
<1>1. CASE ConnectedHandler
  <2>q. work_queue' = Rest => QueueIs({}, {"connected"})
    BY <1>0, <1>1, QueueTake DEF Handlers, Timers, ConnectedHandler
  <2>h. /\ pc = "idle" /\ Queued("connected")
        /\ \A a \in Handlers : Before(work_queue, a, "connected") => ~Queued(a)
    BY <1>0, <1>1, QueueHead DEF ConnectedHandler
  <2>1. Started'
    BY <1>1, <1>i, <2>q, <2>h, <1>none DEF ConnectedHandler
  <2>2. CandidateHolds'
    BY <1>1, <1>i, <2>q, <2>h, <1>none DEF ConnectedHandler
  <2>3. WindowHolds'
    BY <1>1, <1>i, <2>h, <1>none DEF ConnectedHandler
  <2>4. RegistrationHolds'
    BY <1>1, <1>i, <2>h, <1>none DEF ConnectedHandler
  <2>5. QED
    BY <2>1, <2>2, <2>3, <2>4 DEF Registered
<1>2. CASE EventTaken
  <2>q. work_queue' = work_queue => QueueIs({}, {})
    BY <1>0, <1>2, QueueKept DEF Handlers, Timers
  <2>1. Started'
    BY <1>2, <1>i, <2>q, <1>none DEF EventTaken
  <2>2. CandidateHolds'
    BY <1>2, <1>i, <2>q, <1>none DEF EventTaken
  <2>3. WindowHolds'
    BY <1>2, <1>i, <1>none DEF EventTaken
  <2>4. RegistrationHolds'
    BY <1>2, <1>i, <1>none DEF EventTaken
  <2>5. QED
    BY <2>1, <2>2, <2>3, <2>4 DEF Registered
<1>3. CASE Completed
  <2>q. /\ work_queue' = work_queue => QueueIs({}, {})
        /\ work_queue' = Enqueue(work_queue, "failure") => QueueIs({"failure"}, {})
        /\ work_queue' = Dequeue(work_queue, "timeout") => QueueIs({}, {"timeout"})
    BY <1>0, <1>3, QueueKept, QueueAdd, QueueDrop DEF Handlers, Timers
  <2>1. Started'
    BY <1>3, <1>i, <2>q, <1>none DEF Completed
  <2>2. CandidateHolds'
    BY <1>3, <1>i, <2>q, <1>none DEF Completed
  <2>3. WindowHolds'
    BY <1>3, <1>i, <1>none DEF Completed
  <2>4. RegistrationHolds'
    BY <1>3, <1>i, <1>none DEF Completed
  <2>5. QED
    BY <2>1, <2>2, <2>3, <2>4 DEF Registered
<1>4. CASE Secure
  <2>q. work_queue' = work_queue => QueueIs({}, {})
    BY <1>0, <1>4, QueueKept DEF Handlers, Timers
  <2>1. Started'
    BY <1>4, <1>i, <2>q, <1>none DEF Secure
  <2>2. CandidateHolds'
    BY <1>4, <1>i, <2>q, <1>none DEF Secure
  <2>3. WindowHolds'
    BY <1>4, <1>i, <1>none DEF Secure
  <2>4. RegistrationHolds'
    BY <1>4, <1>i, <1>none DEF Secure
  <2>5. QED
    BY <2>1, <2>2, <2>3, <2>4 DEF Registered
<1>5. CASE RequestSecurity
  <2>q. /\ work_queue' = work_queue => QueueIs({}, {})
        /\ work_queue' = Enqueue(work_queue, "failure") => QueueIs({"failure"}, {})
    BY <1>0, <1>5, QueueKept, QueueAdd DEF Handlers, Timers
  <2>1. Started'
    BY <1>5, <1>i, <2>q, <1>none DEF RequestSecurity
  <2>2. CandidateHolds'
    BY <1>5, <1>i, <2>q, <1>none DEF RequestSecurity
  <2>3. WindowHolds'
    BY <1>5, <1>i, <1>none DEF RequestSecurity
  <2>4. RegistrationHolds'
    BY <1>5, <1>i, <1>none DEF RequestSecurity
  <2>5. QED
    BY <2>1, <2>2, <2>3, <2>4 DEF Registered
<1>6. CASE Secured
  <2>q. /\ work_queue' = work_queue => QueueIs({}, {})
        /\ work_queue' = Enqueue(work_queue, "discovery") => QueueIs({"discovery"}, {})
    BY <1>0, <1>6, QueueKept, QueueAdd DEF Handlers, Timers
  <2>1. Started'
    BY <1>6, <1>i, <2>q, <1>none DEF Secured
  <2>2. CandidateHolds'
    BY <1>6, <1>i, <2>q, <1>none DEF Secured
  <2>3. WindowHolds'
    BY <1>6, <1>i, <1>none DEF Secured
  <2>4. RegistrationHolds'
    BY <1>6, <1>i, <1>none DEF Secured
  <2>5. QED
    BY <2>1, <2>2, <2>3, <2>4 DEF Registered
<1>7. QED
  BY <1>1, <1>2, <1>3, <1>4, <1>5, <1>6

(* discovery_work_cb and finish_ready.                                       *)
LEMMA RegisteredDiscovery ==
  ASSUME Accounts, Registered,
         DiscoveryHandler \/ DiscoverList \/ DiscoverReferences \/ DiscoverProtocol
         \/ DiscoverSubscriptions \/ FinishReady \/ SavePeer \/ BecomeReady
  PROVE  Registered'
<1>0. Once(work_queue)
  BY DEF Accounts
<1>i. /\ TypeOK /\ NoStrayLink /\ ConnectingHolds /\ ConnectionHolds /\ EventAccounted
      /\ LinksAccounted /\ LinkSettled /\ OneRequest
      /\ Started /\ CandidateHolds /\ WindowHolds /\ RegistrationHolds
  BY DEF Accounts, Registered
<1>none. None \notin Mice /\ Mice \cap Others = {}
  BY ClientAssumption
<1> USE DEF candidateVars, peerVars, userVars, eventVars, keptVars, workerVars, queueVars,
            stepVars, linkVars, hostVars, clientVars,
            Stages, Links, Securities, Handlers, Timers, Profiles, Faults, Addresses, QueueIs
<1> USE DEF TypeOK, NoStrayLink, ConnectingHolds, ConnectionHolds, EventAccounted, LinksAccounted,
            LinkSettled, OneRequest, Connecting, Finishing, TearingDown, Forgetting, EarlyStages,
            LateStages, EventOnWay
<1> USE DEF Started, CandidateHolds, WindowHolds, RegistrationHolds, Attempt
<1> USE DEF owns, valid_callback, Fail, next_stage, Submit, RequestRetry, RetryWork, RetryWanted,
            AutoOff, Unpair, LetGo, ForgetDone, ConnectFailed, SecurityChanged, Connected,
            Refused, Answer, Ignored, Failed, Advance, Request, DiscoverStep
<1>1. CASE DiscoveryHandler
  <2>q. work_queue' = Rest => QueueIs({}, {"discovery"})
    BY <1>0, <1>1, QueueTake DEF Handlers, Timers, DiscoveryHandler
  <2>h. /\ pc = "idle" /\ Queued("discovery")
        /\ \A a \in Handlers : Before(work_queue, a, "discovery") => ~Queued(a)
    BY <1>0, <1>1, QueueHead DEF DiscoveryHandler
  <2>1. Started'
    BY <1>1, <1>i, <2>q, <2>h, <1>none DEF DiscoveryHandler
  <2>2. CandidateHolds'
    BY <1>1, <1>i, <2>q, <2>h, <1>none DEF DiscoveryHandler
  <2>3. WindowHolds'
    BY <1>1, <1>i, <2>h, <1>none DEF DiscoveryHandler
  <2>4. RegistrationHolds'
    BY <1>1, <1>i, <2>h, <1>none DEF DiscoveryHandler
  <2>5. QED
    BY <2>1, <2>2, <2>3, <2>4 DEF Registered
<1>2. CASE DiscoverList
  <2>q. /\ work_queue' = work_queue => QueueIs({}, {})
        /\ work_queue' = Enqueue(work_queue, "failure") => QueueIs({"failure"}, {})
    BY <1>0, <1>2, QueueKept, QueueAdd DEF Handlers, Timers
  <2>1. Started'
    BY <1>2, <1>i, <2>q, <1>none DEF DiscoverList
  <2>2. CandidateHolds'
    BY <1>2, <1>i, <2>q, <1>none DEF DiscoverList
  <2>3. WindowHolds'
    BY <1>2, <1>i, <1>none DEF DiscoverList
  <2>4. RegistrationHolds'
    BY <1>2, <1>i, <1>none DEF DiscoverList
  <2>5. QED
    BY <2>1, <2>2, <2>3, <2>4 DEF Registered
<1>3. CASE DiscoverReferences
  <2>q. /\ work_queue' = work_queue => QueueIs({}, {})
        /\ work_queue' = Enqueue(work_queue, "failure") => QueueIs({"failure"}, {})
        /\ work_queue' = Enqueue(work_queue, "discovery") => QueueIs({"discovery"}, {})
    BY <1>0, <1>3, QueueKept, QueueAdd DEF Handlers, Timers
  <2>1. Started'
    BY <1>3, <1>i, <2>q, <1>none DEF DiscoverReferences
  <2>2. CandidateHolds'
    BY <1>3, <1>i, <2>q, <1>none DEF DiscoverReferences
  <2>3. WindowHolds'
    BY <1>3, <1>i, <1>none DEF DiscoverReferences
  <2>4. RegistrationHolds'
    BY <1>3, <1>i, <1>none DEF DiscoverReferences
  <2>5. QED
    BY <2>1, <2>2, <2>3, <2>4 DEF Registered
<1>4. CASE DiscoverProtocol
  <2>q. /\ work_queue' = work_queue => QueueIs({}, {})
        /\ work_queue' = Enqueue(work_queue, "failure") => QueueIs({"failure"}, {})
        /\ work_queue' = Enqueue(work_queue, "discovery") => QueueIs({"discovery"}, {})
    BY <1>0, <1>4, QueueKept, QueueAdd DEF Handlers, Timers
  <2>1. Started'
    BY <1>4, <1>i, <2>q, <1>none DEF DiscoverProtocol
  <2>2. CandidateHolds'
    BY <1>4, <1>i, <2>q, <1>none DEF DiscoverProtocol
  <2>3. WindowHolds'
    BY <1>4, <1>i, <1>none DEF DiscoverProtocol
  <2>4. RegistrationHolds'
    BY <1>4, <1>i, <1>none DEF DiscoverProtocol
  <2>5. QED
    BY <2>1, <2>2, <2>3, <2>4 DEF Registered
<1>5. CASE DiscoverSubscriptions
  <2>q. /\ work_queue' = work_queue => QueueIs({}, {})
        /\ work_queue' = Enqueue(work_queue, "failure") => QueueIs({"failure"}, {})
    BY <1>0, <1>5, QueueKept, QueueAdd DEF Handlers, Timers
  <2>1. Started'
    BY <1>5, <1>i, <2>q, <1>none DEF DiscoverSubscriptions
  <2>2. CandidateHolds'
    BY <1>5, <1>i, <2>q, <1>none DEF DiscoverSubscriptions
  <2>3. WindowHolds'
    BY <1>5, <1>i, <1>none DEF DiscoverSubscriptions
  <2>4. RegistrationHolds'
    BY <1>5, <1>i, <1>none DEF DiscoverSubscriptions
  <2>5. QED
    BY <2>1, <2>2, <2>3, <2>4 DEF Registered
<1>6. CASE FinishReady
  <2>q. /\ work_queue' = work_queue => QueueIs({}, {})
        /\ work_queue' = Enqueue(work_queue, "failure") => QueueIs({"failure"}, {})
    BY <1>0, <1>6, QueueKept, QueueAdd DEF Handlers, Timers
  <2>1. Started'
    BY <1>6, <1>i, <2>q, <1>none DEF FinishReady, CandidateNotBonded
  <2>2. CandidateHolds'
    BY <1>6, <1>i, <2>q, <1>none DEF FinishReady, CandidateNotBonded
  <2>3. WindowHolds'
    BY <1>6, <1>i, <1>none DEF FinishReady, CandidateNotBonded
  <2>4. RegistrationHolds'
    BY <1>6, <1>i, <1>none DEF FinishReady, CandidateNotBonded
  <2>5. QED
    BY <2>1, <2>2, <2>3, <2>4 DEF Registered
<1>7. CASE SavePeer
  <2>q. /\ work_queue' = work_queue => QueueIs({}, {})
        /\ work_queue' = Enqueue(work_queue, "failure") => QueueIs({"failure"}, {})
    BY <1>0, <1>7, QueueKept, QueueAdd DEF Handlers, Timers
  <2>1. Started'
    BY <1>7, <1>i, <2>q, <1>none DEF SavePeer
  <2>2. CandidateHolds'
    BY <1>7, <1>i, <2>q, <1>none DEF SavePeer
  <2>3. WindowHolds'
    BY <1>7, <1>i, <1>none DEF SavePeer
  <2>4. RegistrationHolds'
    BY <1>7, <1>i, <1>none DEF SavePeer
  <2>5. QED
    BY <2>1, <2>2, <2>3, <2>4 DEF Registered
<1>8. CASE BecomeReady
  <2>q. /\ work_queue' = work_queue => QueueIs({}, {})
        /\ work_queue' = Dequeue(Dequeue(work_queue, "pair_timeout"), "timeout")
               => QueueIs({}, {"pair_timeout", "timeout"})
    BY <1>0, <1>8, QueueKept, QueueDropTwo DEF Handlers, Timers
  <2>e. /\ pc = "ready" /\ pc' = "idle" /\ mouse_conn \in Mice
        /\ peer' = mouse_conn /\ new_candidate' = FALSE
        /\ UNCHANGED <<mouse_conn, candidate_bonded, security, bonds>>
    BY <1>i, <1>none, <1>8 DEF BecomeReady
  <2>d. \A c \in Mice : c # mouse_conn => security[c] = "none"
    BY <1>i, <1>none, <2>e
  <2>b. /\ security[mouse_conn] \notin {"pairing", "keys"}
        /\ (security[mouse_conn] = "done" => mouse_conn \in bonds)
    BY <1>i, <1>none, <2>e
  <2>1. Started'
    BY <1>8, <1>i, <2>q, <1>none, <2>e, <2>d, <2>b DEF BecomeReady
  <2>2. CandidateHolds'
    BY <1>none, <2>e, <2>d, <2>b
  <2>3. WindowHolds'
    BY <1>8, <1>i, <1>none, <2>e, <2>d, <2>b DEF BecomeReady
  <2>4. RegistrationHolds'
    BY <1>8, <1>i, <1>none, <2>e, <2>d, <2>b DEF BecomeReady
  <2>5. QED
    BY <2>1, <2>2, <2>3, <2>4 DEF Registered
<1>9. QED
  BY <1>1, <1>2, <1>3, <1>4, <1>5, <1>6, <1>7, <1>8

(* What the host reports of a device.                                        *)
LEMMA RegisteredRadio ==
  ASSUME Accounts, Registered, NEW m \in Mice,
         LinkUp(m) \/ LinkRefused(m) \/ LinkLost(m) \/ Encrypted(m) \/ PairingStarts(m)
         \/ PairingEncrypts(m) \/ PairingCompletes(m) \/ SecurityFails(m) \/ NotifyEnds(m)
         \/ Advertises(m)
  PROVE  Registered'
<1>0. Once(work_queue)
  BY DEF Accounts
<1>i. /\ TypeOK /\ NoStrayLink /\ ConnectingHolds /\ ConnectionHolds /\ EventAccounted
      /\ LinksAccounted /\ LinkSettled /\ OneRequest
      /\ Started /\ CandidateHolds /\ WindowHolds /\ RegistrationHolds
  BY DEF Accounts, Registered
<1>none. None \notin Mice /\ Mice \cap Others = {}
  BY ClientAssumption
<1> USE DEF candidateVars, peerVars, userVars, eventVars, keptVars, workerVars, queueVars,
            stepVars, linkVars, hostVars, clientVars,
            Stages, Links, Securities, Handlers, Timers, Profiles, Faults, Addresses, QueueIs
<1> USE DEF TypeOK, NoStrayLink, ConnectingHolds, ConnectionHolds, EventAccounted, LinksAccounted,
            LinkSettled, OneRequest, Connecting, Finishing, TearingDown, Forgetting, EarlyStages,
            LateStages, EventOnWay
<1> USE DEF Started, CandidateHolds, WindowHolds, RegistrationHolds, Attempt
<1> USE DEF owns, valid_callback, Fail, next_stage, Submit, RequestRetry, RetryWork, RetryWanted,
            AutoOff, Unpair, LetGo, ForgetDone, ConnectFailed, SecurityChanged, Connected,
            Refused, Answer, Ignored, Failed, Advance, Request, DiscoverStep
<1>1. CASE LinkUp(m)
  <2>q. /\ work_queue' = work_queue => QueueIs({}, {})
        /\ work_queue' = Enqueue(work_queue, "connected") => QueueIs({"connected"}, {})
    BY <1>0, <1>1, QueueKept, QueueAdd DEF Handlers, Timers
  <2>1. Started'
    BY <1>1, <1>i, <2>q, <1>none DEF LinkUp, KeepsUp
  <2>2. CandidateHolds'
    BY <1>1, <1>i, <2>q, <1>none DEF LinkUp, KeepsUp
  <2>3. WindowHolds'
    BY <1>1, <1>i, <1>none DEF LinkUp, KeepsUp
  <2>4. RegistrationHolds'
    BY <1>1, <1>i, <1>none DEF LinkUp, KeepsUp
  <2>5. QED
    BY <2>1, <2>2, <2>3, <2>4 DEF Registered
<1>2. CASE LinkRefused(m)
  <2>q. /\ work_queue' = work_queue => QueueIs({}, {})
        /\ work_queue' = Enqueue(work_queue, "connected") => QueueIs({"connected"}, {})
    BY <1>0, <1>2, QueueKept, QueueAdd DEF Handlers, Timers
  <2>1. Started'
    BY <1>2, <1>i, <2>q, <1>none DEF LinkRefused, KeepsUp
  <2>2. CandidateHolds'
    BY <1>2, <1>i, <2>q, <1>none DEF LinkRefused, KeepsUp
  <2>3. WindowHolds'
    BY <1>2, <1>i, <1>none DEF LinkRefused, KeepsUp
  <2>4. RegistrationHolds'
    BY <1>2, <1>i, <1>none DEF LinkRefused, KeepsUp
  <2>5. QED
    BY <2>1, <2>2, <2>3, <2>4 DEF Registered
<1>3. CASE LinkLost(m)
  <2>q. /\ work_queue' = work_queue => QueueIs({}, {})
        /\ work_queue' = Enqueue(work_queue, "disconnected") => QueueIs({"disconnected"}, {})
        /\ work_queue' = Enqueue(Enqueue(work_queue, "failure"), "disconnected")
               => QueueIs({"failure", "disconnected"}, {})
        /\ work_queue' = Enqueue(Enqueue(work_queue, "discovery"), "disconnected")
               => QueueIs({"discovery", "disconnected"}, {})
    BY <1>0, <1>3, QueueKept, QueueAdd, QueueAddTwo DEF Handlers, Timers
  <2>1. Started'
    BY <1>3, <1>i, <2>q, <1>none DEF LinkLost, NoRequest, LastAnswers
  <2>2. CandidateHolds'
    BY <1>3, <1>i, <2>q, <1>none DEF LinkLost, NoRequest, LastAnswers
  <2>3. WindowHolds'
    BY <1>3, <1>i, <1>none DEF LinkLost, NoRequest, LastAnswers
  <2>4. RegistrationHolds'
    BY <1>3, <1>i, <1>none DEF LinkLost, NoRequest, LastAnswers
  <2>5. QED
    BY <2>1, <2>2, <2>3, <2>4 DEF Registered
<1>4. CASE Encrypted(m)
  <2>q. /\ work_queue' = work_queue => QueueIs({}, {})
        /\ work_queue' = Enqueue(work_queue, "discovery") => QueueIs({"discovery"}, {})
    BY <1>0, <1>4, QueueKept, QueueAdd DEF Handlers, Timers
  <2>1. Started'
    BY <1>4, <1>i, <2>q, <1>none DEF Encrypted
  <2>2. CandidateHolds'
    BY <1>4, <1>i, <2>q, <1>none DEF Encrypted
  <2>3. WindowHolds'
    BY <1>4, <1>i, <1>none DEF Encrypted
  <2>4. RegistrationHolds'
    BY <1>4, <1>i, <1>none DEF Encrypted
  <2>5. QED
    BY <2>1, <2>2, <2>3, <2>4 DEF Registered
<1>5. CASE PairingStarts(m)
  <2>q. work_queue' = work_queue => QueueIs({}, {})
    BY <1>0, <1>5, QueueKept DEF Handlers, Timers
  <2>1. Started'
    BY <1>5, <1>i, <2>q, <1>none DEF PairingStarts, legacy_pairing_allowed
  <2>2. CandidateHolds'
    BY <1>5, <1>i, <2>q, <1>none DEF PairingStarts, legacy_pairing_allowed
  <2>3. WindowHolds'
    BY <1>5, <1>i, <1>none DEF PairingStarts, legacy_pairing_allowed
  <2>4. RegistrationHolds'
    BY <1>5, <1>i, <1>none DEF PairingStarts, legacy_pairing_allowed
  <2>5. QED
    BY <2>1, <2>2, <2>3, <2>4 DEF Registered
<1>6. CASE PairingEncrypts(m)
  <2>q. /\ work_queue' = work_queue => QueueIs({}, {})
        /\ work_queue' = Enqueue(work_queue, "discovery") => QueueIs({"discovery"}, {})
    BY <1>0, <1>6, QueueKept, QueueAdd DEF Handlers, Timers
  <2>1. Started'
    BY <1>6, <1>i, <2>q, <1>none DEF PairingEncrypts
  <2>2. CandidateHolds'
    BY <1>6, <1>i, <2>q, <1>none DEF PairingEncrypts
  <2>3. WindowHolds'
    BY <1>6, <1>i, <1>none DEF PairingEncrypts
  <2>4. RegistrationHolds'
    BY <1>6, <1>i, <1>none DEF PairingEncrypts
  <2>5. QED
    BY <2>1, <2>2, <2>3, <2>4 DEF Registered
<1>7. CASE PairingCompletes(m)
  <2>q. /\ work_queue' = work_queue => QueueIs({}, {})
        /\ work_queue' = Enqueue(work_queue, "failure") => QueueIs({"failure"}, {})
    BY <1>0, <1>7, QueueKept, QueueAdd DEF Handlers, Timers
  <2>1. Started'
    BY <1>7, <1>i, <2>q, <1>none DEF PairingCompletes
  <2>2. CandidateHolds'
    BY <1>7, <1>i, <2>q, <1>none DEF PairingCompletes
  <2>3. WindowHolds'
    BY <1>7, <1>i, <1>none DEF PairingCompletes
  <2>4. RegistrationHolds'
    BY <1>7, <1>i, <1>none DEF PairingCompletes
  <2>5. QED
    BY <2>1, <2>2, <2>3, <2>4 DEF Registered
<1>8. CASE SecurityFails(m)
  <2>q. /\ work_queue' = work_queue => QueueIs({}, {})
        /\ work_queue' = Enqueue(work_queue, "failure") => QueueIs({"failure"}, {})
    BY <1>0, <1>8, QueueKept, QueueAdd DEF Handlers, Timers
  <2>1. Started'
    BY <1>8, <1>i, <2>q, <1>none DEF SecurityFails, legacy_pairing_allowed
  <2>2. CandidateHolds'
    BY <1>8, <1>i, <2>q, <1>none DEF SecurityFails, legacy_pairing_allowed
  <2>3. WindowHolds'
    BY <1>8, <1>i, <1>none DEF SecurityFails, legacy_pairing_allowed
  <2>4. RegistrationHolds'
    BY <1>8, <1>i, <1>none DEF SecurityFails, legacy_pairing_allowed
  <2>5. QED
    BY <2>1, <2>2, <2>3, <2>4 DEF Registered
<1>9. CASE NotifyEnds(m)
  <2>q. /\ work_queue' = work_queue => QueueIs({}, {})
        /\ work_queue' = Enqueue(work_queue, "failure") => QueueIs({"failure"}, {})
    BY <1>0, <1>9, QueueKept, QueueAdd DEF Handlers, Timers
  <2>1. Started'
    BY <1>9, <1>i, <2>q, <1>none DEF NotifyEnds
  <2>2. CandidateHolds'
    BY <1>9, <1>i, <2>q, <1>none DEF NotifyEnds
  <2>3. WindowHolds'
    BY <1>9, <1>i, <1>none DEF NotifyEnds
  <2>4. RegistrationHolds'
    BY <1>9, <1>i, <1>none DEF NotifyEnds
  <2>5. QED
    BY <2>1, <2>2, <2>3, <2>4 DEF Registered
<1>10. CASE Advertises(m)
  <2>q. /\ work_queue' = work_queue => QueueIs({}, {})
        /\ work_queue' = Enqueue(work_queue, "connect") => QueueIs({"connect"}, {})
    BY <1>0, <1>10, QueueKept, QueueAdd DEF Handlers, Timers
  <2>1. Started'
    BY <1>10, <1>i, <2>q, <1>none DEF Advertises
  <2>2. CandidateHolds'
    BY <1>10, <1>i, <2>q, <1>none DEF Advertises
  <2>3. WindowHolds'
    BY <1>10, <1>i, <1>none DEF Advertises
  <2>4. RegistrationHolds'
    BY <1>10, <1>i, <1>none DEF Advertises
  <2>5. QED
    BY <2>1, <2>2, <2>3, <2>4 DEF Registered
<1>11. QED
  BY <1>1, <1>2, <1>3, <1>4, <1>5, <1>6, <1>7, <1>8, <1>9, <1>10

(* GATT answers.                                                             *)
LEMMA RegisteredAnswers ==
  ASSUME Accounts, Registered, NEW found \in BOOLEAN, NEW profile \in Profiles, NEW ok \in BOOLEAN,
         DiscoverCb(found, profile) \/ ReadCb(ok) \/ WrittenCb(ok) \/ SubscribedCb(ok)
  PROVE  Registered'
<1>0. Once(work_queue)
  BY DEF Accounts
<1>i. /\ TypeOK /\ NoStrayLink /\ ConnectingHolds /\ ConnectionHolds /\ EventAccounted
      /\ LinksAccounted /\ LinkSettled /\ OneRequest
      /\ Started /\ CandidateHolds /\ WindowHolds /\ RegistrationHolds
  BY DEF Accounts, Registered
<1>none. None \notin Mice /\ Mice \cap Others = {}
  BY ClientAssumption
<1> USE DEF candidateVars, peerVars, userVars, eventVars, keptVars, workerVars, queueVars,
            stepVars, linkVars, hostVars, clientVars,
            Stages, Links, Securities, Handlers, Timers, Profiles, Faults, Addresses, QueueIs
<1> USE DEF TypeOK, NoStrayLink, ConnectingHolds, ConnectionHolds, EventAccounted, LinksAccounted,
            LinkSettled, OneRequest, Connecting, Finishing, TearingDown, Forgetting, EarlyStages,
            LateStages, EventOnWay
<1> USE DEF Started, CandidateHolds, WindowHolds, RegistrationHolds, Attempt
<1> USE DEF owns, valid_callback, Fail, next_stage, Submit, RequestRetry, RetryWork, RetryWanted,
            AutoOff, Unpair, LetGo, ForgetDone, ConnectFailed, SecurityChanged, Connected,
            Refused, Answer, Ignored, Failed, Advance, Request, DiscoverStep
<1>1. CASE DiscoverCb(found, profile)
  <2>q. /\ work_queue' = work_queue => QueueIs({}, {})
        /\ work_queue' = Enqueue(work_queue, "failure") => QueueIs({"failure"}, {})
        /\ work_queue' = Enqueue(work_queue, "discovery") => QueueIs({"discovery"}, {})
    BY <1>0, <1>1, QueueKept, QueueAdd DEF Handlers, Timers
  <2>1. Started'
    BY <1>1, <1>i, <2>q, <1>none DEF DiscoverCb, NoRequest, Usable
  <2>2. CandidateHolds'
    BY <1>1, <1>i, <2>q, <1>none DEF DiscoverCb, NoRequest, Usable
  <2>3. WindowHolds'
    BY <1>1, <1>i, <1>none DEF DiscoverCb, NoRequest, Usable
  <2>4. RegistrationHolds'
    BY <1>1, <1>i, <1>none DEF DiscoverCb, NoRequest, Usable
  <2>5. QED
    BY <2>1, <2>2, <2>3, <2>4 DEF Registered
<1>2. CASE ReadCb(ok)
  <2>q. /\ work_queue' = work_queue => QueueIs({}, {})
        /\ work_queue' = Enqueue(work_queue, "failure") => QueueIs({"failure"}, {})
        /\ work_queue' = Enqueue(work_queue, "discovery") => QueueIs({"discovery"}, {})
    BY <1>0, <1>2, QueueKept, QueueAdd DEF Handlers, Timers
  <2>1. Started'
    BY <1>2, <1>i, <2>q, <1>none DEF ReadCb, NoRequest
  <2>2. CandidateHolds'
    BY <1>2, <1>i, <2>q, <1>none DEF ReadCb, NoRequest
  <2>3. WindowHolds'
    BY <1>2, <1>i, <1>none DEF ReadCb, NoRequest
  <2>4. RegistrationHolds'
    BY <1>2, <1>i, <1>none DEF ReadCb, NoRequest
  <2>5. QED
    BY <2>1, <2>2, <2>3, <2>4 DEF Registered
<1>3. CASE WrittenCb(ok)
  <2>q. /\ work_queue' = work_queue => QueueIs({}, {})
        /\ work_queue' = Enqueue(work_queue, "failure") => QueueIs({"failure"}, {})
        /\ work_queue' = Enqueue(work_queue, "discovery") => QueueIs({"discovery"}, {})
    BY <1>0, <1>3, QueueKept, QueueAdd DEF Handlers, Timers
  <2>1. Started'
    BY <1>3, <1>i, <2>q, <1>none DEF WrittenCb, NoRequest
  <2>2. CandidateHolds'
    BY <1>3, <1>i, <2>q, <1>none DEF WrittenCb, NoRequest
  <2>3. WindowHolds'
    BY <1>3, <1>i, <1>none DEF WrittenCb, NoRequest
  <2>4. RegistrationHolds'
    BY <1>3, <1>i, <1>none DEF WrittenCb, NoRequest
  <2>5. QED
    BY <2>1, <2>2, <2>3, <2>4 DEF Registered
<1>4. CASE SubscribedCb(ok)
  <2>q. /\ work_queue' = work_queue => QueueIs({}, {})
        /\ work_queue' = Enqueue(work_queue, "failure") => QueueIs({"failure"}, {})
        /\ work_queue' = Enqueue(work_queue, "discovery") => QueueIs({"discovery"}, {})
    BY <1>0, <1>4, QueueKept, QueueAdd DEF Handlers, Timers
  <2>1. Started'
    BY <1>4, <1>i, <2>q, <1>none DEF SubscribedCb, NoRequest
  <2>2. CandidateHolds'
    BY <1>4, <1>i, <2>q, <1>none DEF SubscribedCb, NoRequest
  <2>3. WindowHolds'
    BY <1>4, <1>i, <1>none DEF SubscribedCb, NoRequest
  <2>4. RegistrationHolds'
    BY <1>4, <1>i, <1>none DEF SubscribedCb, NoRequest
  <2>5. QED
    BY <2>1, <2>2, <2>3, <2>4 DEF Registered
<1>5. QED
  BY <1>1, <1>2, <1>3, <1>4

(* Keys, timers, and the boot.                                               *)
LEMMA RegisteredKeys ==
  ASSUME Accounts, Registered, NEW pressed \in BOOLEAN, NEW timer \in Timers,
         PairPressed \/ ClearHold(pressed) \/ Expire(timer) \/ Start
  PROVE  Registered'
<1>0. Once(work_queue)
  BY DEF Accounts
<1>i. /\ TypeOK /\ NoStrayLink /\ ConnectingHolds /\ ConnectionHolds /\ EventAccounted
      /\ LinksAccounted /\ LinkSettled /\ OneRequest
      /\ Started /\ CandidateHolds /\ WindowHolds /\ RegistrationHolds
  BY DEF Accounts, Registered
<1>none. None \notin Mice /\ Mice \cap Others = {}
  BY ClientAssumption
<1> USE DEF candidateVars, peerVars, userVars, eventVars, keptVars, workerVars, queueVars,
            stepVars, linkVars, hostVars, clientVars,
            Stages, Links, Securities, Handlers, Timers, Profiles, Faults, Addresses, QueueIs
<1> USE DEF TypeOK, NoStrayLink, ConnectingHolds, ConnectionHolds, EventAccounted, LinksAccounted,
            LinkSettled, OneRequest, Connecting, Finishing, TearingDown, Forgetting, EarlyStages,
            LateStages, EventOnWay
<1> USE DEF Started, CandidateHolds, WindowHolds, RegistrationHolds, Attempt
<1> USE DEF owns, valid_callback, Fail, next_stage, Submit, RequestRetry, RetryWork, RetryWanted,
            AutoOff, Unpair, LetGo, ForgetDone, ConnectFailed, SecurityChanged, Connected,
            Refused, Answer, Ignored, Failed, Advance, Request, DiscoverStep
<1>1. CASE PairPressed
  <2>q. /\ work_queue' = work_queue => QueueIs({}, {})
        /\ work_queue' = Enqueue(work_queue, "pair") => QueueIs({"pair"}, {})
    BY <1>0, <1>1, QueueKept, QueueAdd DEF Handlers, Timers
  <2>1. Started'
    BY <1>1, <1>i, <2>q, <1>none DEF PairPressed
  <2>2. CandidateHolds'
    BY <1>1, <1>i, <2>q, <1>none DEF PairPressed
  <2>3. WindowHolds'
    BY <1>1, <1>i, <1>none DEF PairPressed
  <2>4. RegistrationHolds'
    BY <1>1, <1>i, <1>none DEF PairPressed
  <2>5. QED
    BY <2>1, <2>2, <2>3, <2>4 DEF Registered
<1>2. CASE ClearHold(pressed)
  <2>q. /\ work_queue' = work_queue => QueueIs({}, {})
        /\ work_queue' = Dequeue(work_queue, "clear") => QueueIs({}, {"clear"})
    BY <1>0, <1>2, QueueKept, QueueDrop DEF Handlers, Timers
  <2>1. Started'
    BY <1>2, <1>i, <2>q, <1>none DEF ClearHold
  <2>2. CandidateHolds'
    BY <1>2, <1>i, <2>q, <1>none DEF ClearHold
  <2>3. WindowHolds'
    BY <1>2, <1>i, <1>none DEF ClearHold
  <2>4. RegistrationHolds'
    BY <1>2, <1>i, <1>none DEF ClearHold
  <2>5. QED
    BY <2>1, <2>2, <2>3, <2>4 DEF Registered
<1>3. CASE Expire(timer)
  <2>q. /\ work_queue' = work_queue => QueueIs({}, {})
        /\ work_queue' = Enqueue(work_queue, timer) => QueueIs({timer}, {})
    BY <1>0, <1>3, QueueKept, QueueAdd DEF Handlers, Timers
  <2>1. Started'
    BY <1>3, <1>i, <2>q, <1>none DEF Expire
  <2>2. CandidateHolds'
    BY <1>3, <1>i, <2>q, <1>none DEF Expire
  <2>3. WindowHolds'
    BY <1>3, <1>i, <1>none DEF Expire
  <2>4. RegistrationHolds'
    BY <1>3, <1>i, <1>none DEF Expire
  <2>5. QED
    BY <2>1, <2>2, <2>3, <2>4 DEF Registered
<1>4. CASE Start
  <2>q. work_queue' = work_queue => QueueIs({}, {})
    BY <1>0, <1>4, QueueKept DEF Handlers, Timers
  <2>d. \A c \in Mice : security[c] = "none"
    <3>1. \A c \in Mice : link[c] = "down"
      BY <1>i, <1>none, <1>4 DEF Start
    <3>2. QED
      BY <1>i, <3>1
  <2>1. Started'
    BY <1>4, <1>i, <2>q, <1>none, <2>d DEF Start
  <2>2. CandidateHolds'
    BY <1>i, <1>none, <2>d, <1>4 DEF Start
  <2>3. WindowHolds'
    BY <1>4, <1>i, <1>none, <2>d DEF Start
  <2>4. RegistrationHolds'
    BY <1>4, <1>i, <1>none, <2>d DEF Start
  <2>5. QED
    BY <2>1, <2>2, <2>3, <2>4 DEF Registered
<1>5. QED
  BY <1>1, <1>2, <1>3, <1>4

(* Other devices.                                                            *)
LEMMA RegisteredOthers ==
  ASSUME Accounts, Registered, NEW d \in Others,
         OtherPairs(d)
  PROVE  Registered'
<1>0. Once(work_queue)
  BY DEF Accounts
<1>i. /\ TypeOK /\ NoStrayLink /\ ConnectingHolds /\ ConnectionHolds /\ EventAccounted
      /\ LinksAccounted /\ LinkSettled /\ OneRequest
      /\ Started /\ CandidateHolds /\ WindowHolds /\ RegistrationHolds
  BY DEF Accounts, Registered
<1>none. None \notin Mice /\ Mice \cap Others = {}
  BY ClientAssumption
<1> USE DEF candidateVars, peerVars, userVars, eventVars, keptVars, workerVars, queueVars,
            stepVars, linkVars, hostVars, clientVars,
            Stages, Links, Securities, Handlers, Timers, Profiles, Faults, Addresses, QueueIs
<1> USE DEF TypeOK, NoStrayLink, ConnectingHolds, ConnectionHolds, EventAccounted, LinksAccounted,
            LinkSettled, OneRequest, Connecting, Finishing, TearingDown, Forgetting, EarlyStages,
            LateStages, EventOnWay
<1> USE DEF Started, CandidateHolds, WindowHolds, RegistrationHolds, Attempt
<1> USE DEF owns, valid_callback, Fail, next_stage, Submit, RequestRetry, RetryWork, RetryWanted,
            AutoOff, Unpair, LetGo, ForgetDone, ConnectFailed, SecurityChanged, Connected,
            Refused, Answer, Ignored, Failed, Advance, Request, DiscoverStep
<1>1. CASE OtherPairs(d)
  <2>q. work_queue' = work_queue => QueueIs({}, {})
    BY <1>0, <1>1, QueueKept DEF Handlers, Timers
  <2>1. Started'
    BY <1>1, <1>i, <2>q, <1>none DEF OtherPairs
  <2>2. CandidateHolds'
    BY <1>1, <1>i, <2>q, <1>none DEF OtherPairs
  <2>3. WindowHolds'
    BY <1>1, <1>i, <1>none DEF OtherPairs
  <2>4. RegistrationHolds'
    BY <1>1, <1>i, <1>none DEF OtherPairs
  <2>5. QED
    BY <2>1, <2>2, <2>3, <2>4 DEF Registered
<1>2. QED
  BY <1>1

(* A step that changes nothing.                                              *)
LEMMA RegisteredStutter ==
  ASSUME Registered, UNCHANGED vars
  PROVE  Registered'
<1> USE DEF vars, candidateVars, peerVars, userVars, eventVars, keptVars, workerVars, queueVars,
            linkVars, hostVars, clientVars
<1>1. Started' /\ CandidateHolds'
  BY DEF Registered, Started, CandidateHolds, Attempt, Connecting, TearingDown, Queued, Holds
<1>2. WindowHolds' /\ RegistrationHolds'
  BY DEF Registered, WindowHolds, RegistrationHolds, Connecting, Forgetting, Finishing
<1>3. QED
  BY <1>1, <1>2 DEF Registered

LEMMA RegisteredStep == Accounts /\ Registered /\ [Next]_vars => Registered'
<1> SUFFICES ASSUME Accounts, Registered, [Next]_vars
             PROVE  Registered'
  OBVIOUS
<1>0. TypeOK
  BY DEF Accounts
<1>m. /\ scenario.mice \subseteq Mice /\ scenario.others \subseteq Others
      /\ Profiles = scenario.profiles /\ Profiles # {}
  BY <1>0, ClientAssumption DEF TypeOK, Profiles
<1>1. CASE Worker
  BY <1>1, RegisteredTimers, RegisteredEnding, RegisteredConnecting, RegisteredSecuring,
     RegisteredDiscovery DEF Worker
<1>2. CASE Radio
  <2>1. ASSUME NEW m \in scenario.mice,
               \/ LinkUp(m) \/ LinkRefused(m) \/ LinkLost(m)
               \/ Encrypted(m) \/ PairingStarts(m) \/ PairingEncrypts(m) \/ PairingCompletes(m)
               \/ SecurityFails(m) \/ NotifyEnds(m) \/ Advertises(m)
        PROVE  Registered'
    BY <1>m, <2>1, RegisteredRadio
  <2>2. ASSUME GattAnswers
        PROVE  Registered'
    <3>1. ASSUME NEW found \in BOOLEAN, NEW profile \in Profiles, DiscoverCb(found, profile)
          PROVE  Registered'
      BY <3>1, RegisteredAnswers
    <3>2. ASSUME NEW ok \in BOOLEAN, ReadCb(ok) \/ WrittenCb(ok) \/ SubscribedCb(ok)
          PROVE  Registered'
      BY <1>m, <3>2, RegisteredAnswers
    <3>3. QED
      BY <2>2, <3>1, <3>2 DEF GattAnswers
  <2>3. QED
    BY <1>2, <2>1, <2>2 DEF Radio
<1>3. CASE User
  <2>1. PairPressed \/ ClearHold(TRUE) \/ ClearHold(FALSE)
    BY <1>3 DEF User, Pressed, Released
  <2>2. "retry" \in Timers
    BY DEF Timers
  <2>3. QED
    BY <2>1, <2>2, RegisteredKeys
<1>4. ASSUME NEW timer \in Timers, Expire(timer)
      PROVE  Registered'
  BY <1>4, RegisteredKeys
<1>5. CASE Start
  <2>1. "retry" \in Timers
    BY DEF Timers
  <2>2. QED
    BY <1>5, <2>1, RegisteredKeys
<1>6. CASE PowerLoss
  BY <1>6, RegisteredPowerLoss
<1>7. ASSUME NEW d \in scenario.others, OtherPairs(d)
      PROVE  Registered'
  BY <1>m, <1>7, RegisteredOthers
<1>8. CASE UNCHANGED vars
  BY <1>8, RegisteredStutter
<1>9. QED
  BY <1>1, <1>2, <1>3, <1>4, <1>5, <1>6, <1>7, <1>8 DEF Next

(* Accounts and Registered hold in every state.                              *)
LEMMA AlwaysRegistered == SafeSpec => [](Accounts /\ Registered)
<1>1. Init => Accounts /\ Registered
  BY AccountsInit, RegisteredReset DEF Init
<1>2. QED
  BY <1>1, AccountsStep, RegisteredStep, PTL DEF SafeSpec

(* A client that is ready is connected to the mouse it has registered, in    *)
(* flash too, bonded with it, and receives every input it needs              *)
(* (finish_ready).                                                           *)
THEOREM ReadyIsUsable == SafeSpec => []ReadyMeansUsable
<1>1. Accounts /\ Registered => ReadyMeansUsable
  BY DEF Accounts, TypeOK, Registered, RegistrationHolds, ReadyMeansUsable, LateStages
<1>2. QED
  BY <1>1, AlwaysRegistered, PTL

--------------------------------------------------------------------------------
(* The steps that can register or unregister a mouse, in RAM or in flash,    *)
(* end a Clear, or remove a bond.                                            *)
Lasting ==
    /\ peer' = peer \/ Start \/ PowerLoss \/ Delete \/ BecomeReady
    /\ forget_requested' = forget_requested \/ forget_requested' = TRUE
       \/ PowerLoss \/ Forget \/ Delete
    /\ bonds \subseteq bonds' \/ Teardown \/ Forget
    /\ saved_peer' = saved_peer \/ SavePeer \/ Delete
    /\ started' = started \/ Start \/ PowerLoss
    /\ pc = "ready" => pc' = "ready" \/ BecomeReady \/ PowerLoss
    /\ scenario' = scenario

LEMMA LastingSteps == Accounts /\ [Next]_vars => Lasting
<1> SUFFICES ASSUME Accounts, [Next]_vars
             PROVE  Lasting
  OBVIOUS
<1> USE DEF candidateVars, peerVars, userVars, eventVars, keptVars, workerVars, queueVars, stepVars,
            linkVars, hostVars, clientVars, Runs
<1>1. CASE Worker
  <2>1. CASE RetryHandler \/ TimeoutHandler \/ PairTimeoutHandler \/ PairHandler \/ ClearHandler
    BY <2>1 DEF Lasting, RetryHandler, TimeoutHandler, PairTimeoutHandler, PairHandler, ClearHandler
  <2>2. CASE FailureHandler \/ DisconnectedHandler \/ Teardown \/ Release \/ Forget \/ Delete
    BY <2>2 DEF Lasting, FailureHandler, DisconnectedHandler, Teardown, Release, Forget, have_peer,
       Delete
  <2>3. CASE ConnectHandler \/ AutoConnect \/ Lookup
    BY <2>3 DEF Lasting, ConnectHandler, AutoConnect, Lookup
  <2>4. CASE ConnectedHandler \/ EventTaken \/ Completed \/ Secure \/ RequestSecurity \/ Secured
    BY <2>4 DEF Lasting, ConnectedHandler, EventTaken, Completed, Secure, RequestSecurity, Secured
  <2>5. CASE \/ DiscoveryHandler \/ DiscoverList \/ DiscoverReferences \/ DiscoverProtocol
             \/ DiscoverSubscriptions \/ FinishReady \/ SavePeer \/ BecomeReady
    BY <2>5 DEF Lasting, DiscoveryHandler, DiscoverList, DiscoverReferences, DiscoverProtocol,
       DiscoverSubscriptions, DiscoverStep, FinishReady, SavePeer, BecomeReady
  <2>6. QED
    BY <1>1, <2>1, <2>2, <2>3, <2>4, <2>5 DEF Worker
<1>2. CASE Radio
  <2>1. ASSUME NEW m \in scenario.mice, LinkUp(m) \/ LinkRefused(m) \/ LinkLost(m)
        PROVE  Lasting
    BY <2>1 DEF Lasting, LinkUp, LinkRefused, LinkLost
  <2>2. ASSUME NEW m \in scenario.mice,
               \/ Encrypted(m) \/ PairingStarts(m) \/ PairingEncrypts(m) \/ PairingCompletes(m)
               \/ SecurityFails(m) \/ NotifyEnds(m) \/ Advertises(m)
        PROVE  Lasting
    BY <2>2 DEF Lasting, Encrypted, PairingStarts, PairingEncrypts, PairingCompletes, SecurityFails,
       NotifyEnds, Advertises
  <2>3. CASE GattAnswers
    BY <2>3 DEF Lasting, GattAnswers, DiscoverCb, ReadCb, WrittenCb, SubscribedCb, Answer
  <2>4. QED
    BY <1>2, <2>1, <2>2, <2>3 DEF Radio
<1>3. CASE User
  BY <1>3 DEF Lasting, User, Pressed, Released, PairPressed, ClearHold
<1>4. ASSUME NEW timer \in Timers, Expire(timer)
      PROVE  Lasting
  BY <1>4 DEF Lasting, Expire
<1>5. CASE Start \/ PowerLoss
  BY <1>5 DEF Lasting, Start, PowerLoss
<1>6. ASSUME NEW d \in scenario.others, OtherPairs(d)
      PROVE  Lasting
  BY <1>6 DEF Lasting, OtherPairs
<1>7. CASE UNCHANGED vars
  BY <1>7 DEF Lasting, vars
<1>8. QED
  BY <1>1, <1>2, <1>3, <1>4, <1>5, <1>6, <1>7 DEF Next

(* A mouse is registered only by its own connection, bonded in the attempt   *)
(* under way, inside the pairing window and with no Clear pending            *)
(* (finish_ready, pair_timeout_work_cb, clear_work_cb).                      *)
THEOREM RegisteredInWindow == SafeSpec => RegistrationInWindow
<1> DEFINE Step == (started /\ peer = None /\ peer' # None) =>
                      /\ pairing /\ ~forget_requested
                      /\ peer' = mouse_conn
                      /\ peer' = attempt_bond /\ peer' \in bonds
<1>1. ASSUME Accounts, Registered, [Next]_vars
      PROVE  Step
  <2> SUFFICES ASSUME started, peer = None, peer' # None
               PROVE  Step
    OBVIOUS
  <2>1. pc = "ready" /\ peer' = mouse_conn /\ mouse_conn # None
    BY <1>1, LastingSteps DEF Lasting, Start, PowerLoss, Delete, BecomeReady
  <2>2. pairing /\ ~forget_requested
    BY <1>1, <2>1 DEF Registered, WindowHolds, Finishing
  <2>3. attempt_bond = mouse_conn /\ mouse_conn \in bonds
    BY <1>1, <2>1 DEF Registered, CandidateHolds, Attempt
  <2>4. QED
    BY <2>1, <2>2, <2>3
<1>2. QED
  BY <1>1, AlwaysRegistered, PTL DEF SafeSpec, RegistrationInWindow

(* A bond is removed only by a Clear of the registered mouse, or with the    *)
(* attempt of a new candidate that made it: no other device's bond is ever   *)
(* touched (disconnected_work_cb, forget_peer).                              *)
THEOREM BondsAreSafe == SafeSpec => OnlyOwnBondsRemoved
<1> DEFINE Step == \A a \in bonds \ bonds' :
                      \/ forget_requested /\ a = peer
                      \/ new_candidate /\ a = attempt_bond
<1>1. ASSUME Accounts, Registered, [Next]_vars
      PROVE  Step
  <2> SUFFICES ASSUME NEW a \in bonds, a \notin bonds'
               PROVE  \/ forget_requested /\ a = peer
                      \/ new_candidate /\ a = attempt_bond
    OBVIOUS
  <2>1. Teardown \/ Forget
    BY <1>1, LastingSteps DEF Lasting
  <2>2. CASE Teardown
    <3>1. RemovesCandidateBond /\ a = mouse_conn /\ pc = "teardown"
      BY <2>2 DEF Teardown, Unpair
    <3>2. mouse_conn # None
      BY <1>1, <3>1 DEF Accounts, ConnectionHolds, TearingDown
    <3>3. QED
      BY <1>1, <3>1, <3>2 DEF Registered, CandidateHolds, RemovesCandidateBond
  <2>3. CASE Forget
    BY <1>1, <2>3 DEF Forget, have_peer, Unpair, Registered, WindowHolds, Forgetting
  <2>4. QED
    BY <2>1, <2>2, <2>3
<1>2. QED
  BY <1>1, AlwaysRegistered, PTL DEF SafeSpec, OnlyOwnBondsRemoved

(* Where flash does not fail, it holds the registered mouse, once settings   *)
(* are loaded and but for the moment between settings_save_one and the end   *)
(* of finish_ready.                                                          *)
FlashAgrees == started /\ "settings" \notin Faults => saved_peer = peer \/ pc = "ready"

(* Every step keeps flash and registration together.                         *)
LEMMA FlashSteps == Accounts /\ Registered /\ FlashAgrees /\ [Next]_vars => FlashAgrees'
<1> SUFFICES ASSUME Accounts, Registered, FlashAgrees, [Next]_vars,
                    started', "settings" \notin Faults'
             PROVE  saved_peer' = peer' \/ pc' = "ready"
  BY DEF FlashAgrees
<1>1. Lasting
  BY LastingSteps
<1>2. "settings" \notin Faults /\ ~PowerLoss
  BY <1>1 DEF Lasting, Faults, PowerLoss
<1>3. CASE Start
  BY <1>3 DEF Start
<1>4. CASE Delete
  BY <1>2, <1>4 DEF Delete
<1>5. CASE SavePeer
  <2>1. peer' = peer /\ started /\ (pc' = "ready" \/ saved_peer' = saved_peer) /\ pc = "save"
    BY <1>1, <1>2, <1>5 DEF SavePeer, Lasting, Start, userVars
  <2> QED
    BY <1>2, <2>1 DEF FlashAgrees
<1>6. CASE BecomeReady
  <2>1. pc = "ready" /\ saved_peer' = saved_peer /\ peer' = mouse_conn
    BY <1>6 DEF BecomeReady
  <2>2. saved_peer = mouse_conn
    BY <2>1 DEF Accounts, ConnectionHolds, Finishing, Registered, CandidateHolds, Attempt,
                RegistrationHolds
  <2> QED
    BY <2>1, <2>2
<1>7. CASE ~(Start \/ Delete \/ SavePeer \/ BecomeReady)
  BY <1>1, <1>2, <1>7 DEF Lasting, FlashAgrees
<1> QED
  BY <1>3, <1>4, <1>5, <1>6, <1>7

(* A Clear that ends has removed the bond and the registration, from flash   *)
(* too unless settings_delete fails, and unless bt_unpair failed or power    *)
(* was lost (forget_peer).                                                   *)
THEOREM ClearIsDone == SafeSpec => ClearForgets
<1> DEFINE Step == (forget_requested /\ ~forget_requested' /\ started' /\ "unpair" \notin Faults)
                      => /\ peer' = None /\ peer \notin bonds'
                         /\ "settings" \notin Faults => saved_peer' = None
<1>1. ASSUME Accounts, Registered, FlashAgrees, [Next]_vars
      PROVE  Step
  <2> SUFFICES ASSUME forget_requested, ~forget_requested', started', "unpair" \notin Faults
               PROVE  /\ peer' = None /\ peer \notin bonds'
                      /\ "settings" \notin Faults => saved_peer' = None
    OBVIOUS
  <2>1. Forget \/ Delete
    BY <1>1, LastingSteps DEF Lasting, PowerLoss
  <2>2. CASE Forget
    <3>1. /\ peer = None /\ peer' = peer /\ bonds' = bonds /\ saved_peer' = saved_peer
          /\ pc = "forget" /\ started
      BY <2>2 DEF Forget, have_peer, userVars
    <3>2. None \notin bonds
      BY <1>1, ClientAssumption DEF Accounts, TypeOK, Addresses
    <3>3. "settings" \notin Faults => saved_peer = peer
      BY <1>1, <3>1 DEF FlashAgrees
    <3>4. QED
      BY <3>1, <3>2, <3>3
  <2>3. CASE Delete
    <3>1. /\ pc = "delete" /\ peer' = None /\ bonds' = bonds
          /\ "settings" \notin Faults => saved_peer' = None
      BY <2>3 DEF Delete, hostVars
    <3>2. QED
      BY <1>1, <3>1 DEF Registered, WindowHolds
  <2>4. QED
    BY <2>1, <2>2, <2>3
<1>2. Init => FlashAgrees
  BY DEF Init, RamCleared, FlashAgrees
<1>3. QED
  BY <1>1, <1>2, FlashSteps, AlwaysRegistered, PTL DEF SafeSpec, ClearForgets

--------------------------------------------------------------------------------
(* What is attended to: a bond that an attempt made, the attempt itself, and *)
(* a mouse that is to be found.                                              *)

(* While bt_unpair works and power is there, a mouse's bond is the           *)
(* registered one's or the attempt's; disconnected_work_cb removes that one  *)
(* before it lets the connection go.                                         *)
BondsAccounted ==
    /\ budget.power <= scenario.budget.power
    /\ ("unpair" \notin Faults /\ NoPowerLost) =>
        /\ started => \A m \in bonds \cap Mice :
                        m = peer \/ (m = mouse_conn /\ RemovesCandidateBond)
        /\ ~started => bonds \cap Mice \subseteq {saved_peer}
        /\ pc = "release" /\ RemovesCandidateBond => mouse_conn \notin bonds

(* A failure or an end of the connection is in the worker's hands.           *)
Handled ==
    \/ Queued("disconnected") \/ Queued("connected") \/ TearingDown \/ pc \in {"taken", "completed"}
    \/ Ending(mouse_conn)

(* An attempt has its timeout until it is ready, connected_work_cb and       *)
(* discovery_work_cb set a stage that a callback changed meanwhile included. *)
Watched ==
    mouse_conn # None /\ "disconnect" \notin Faults =>
        /\ (\/ stage \notin {"CLOSING", "READY"} \/ pc = "secure"
            \/ pc = "discover" /\ local # "READY") /\ ~failure =>
              "timeout" \in timers \/ Queued("timeout")
        /\ failure \/ stage = "CLOSING" => Queued("failure") \/ Handled
        /\ stage \in LateStages \/ Finishing \/ pc = "secured" =>
              link[mouse_conn] \in {"up", "closing"} \/ Queued("disconnected") \/ TearingDown

(* A mouse to find is scanned for, connected to, or will be after a retry.   *)
Looking ==
    /\ (/\ started /\ mouse_conn = None /\ "unpair" \notin Faults
        /\ IF peer # None THEN peer \in bonds ELSE pairing)
       => scan_wanted \/ "retry" \in timers \/ Queued("retry") \/ Connecting \/ Forgetting
    /\ pairing => "pair_timeout" \in timers \/ Queued("pair_timeout")

(* Inductive together with Accounts and Registered.                          *)
Attended == BondsAccounted /\ Watched /\ Looking

LEMMA AttendedInit == Init => Attended
<1> SUFFICES ASSUME Init
             PROVE  Attended
  OBVIOUS
<1>1. \A x : ~Queued(x)
  BY EmptySeq DEF Init, RamCleared, Queued, Holds
<1>2. scenario \in Scenarios /\ budget = scenario.budget
  BY DEF Init
<1>3. scenario.others \subseteq Others /\ budget.power \in Nat
  BY <1>2, ClientAssumption
<1>4. bonds \cap Mice \subseteq {saved_peer}
  BY <1>3, ClientAssumption DEF Init
<1>5. BondsAccounted
  BY <1>2, <1>3, <1>4 DEF Init, RamCleared, BondsAccounted
<1>6. Watched /\ Looking
  BY DEF Init, RamCleared, Watched, Looking
<1>7. QED
  BY <1>5, <1>6 DEF Attended

LEMMA AttendedPowerLoss ==
  ASSUME TypeOK, Attended, PowerLoss
  PROVE  Attended'
<1>1. budget.power \in Nat /\ scenario.budget.power \in Nat
  BY ClientAssumption DEF TypeOK
<1>2. budget'.power = budget.power - 1 /\ scenario' = scenario
  BY DEF PowerLoss, TypeOK
<1>3. budget.power <= scenario.budget.power
  BY DEF Attended, BondsAccounted
<1>4. BondsAccounted'
  BY <1>1, <1>2, <1>3 DEF BondsAccounted, NoPowerLost
<1>5. Watched' /\ Looking'
  BY DEF PowerLoss, Watched, Looking
<1>6. QED
  BY <1>4, <1>5 DEF Attended

(* The timers' and the keys' handlers.                                       *)
LEMMA AttendedTimers ==
  ASSUME Accounts, Registered, Attended,
         RetryHandler \/ TimeoutHandler \/ PairTimeoutHandler \/ PairHandler \/ ClearHandler
  PROVE  Attended'
<1>0. Once(work_queue)
  BY DEF Accounts
<1>i. /\ TypeOK /\ NoStrayLink /\ ConnectingHolds /\ ConnectionHolds /\ EventAccounted
      /\ LinksAccounted /\ LinkSettled /\ OneRequest
      /\ Started /\ CandidateHolds /\ WindowHolds /\ RegistrationHolds
  BY DEF Accounts, Registered
<1>b. BondsAccounted
  BY DEF Attended
<1>w. Watched
  BY DEF Attended
<1>l. Looking
  BY DEF Attended
<1>none. None \notin Mice /\ Mice \cap Others = {}
  BY ClientAssumption
<1> USE DEF candidateVars, peerVars, userVars, eventVars, keptVars, workerVars, queueVars,
            stepVars, linkVars, hostVars, clientVars,
            Stages, Links, Securities, Handlers, Timers, Profiles, Faults, Addresses, QueueIs
<1> USE DEF TypeOK, NoStrayLink, ConnectingHolds, ConnectionHolds, EventAccounted, LinksAccounted,
            LinkSettled, OneRequest, Connecting, Finishing, TearingDown, Forgetting, EarlyStages,
            LateStages, EventOnWay
<1> USE DEF Started, CandidateHolds, WindowHolds, RegistrationHolds, Attempt,
            BondsAccounted, NoPowerLost, RemovesCandidateBond, Watched, Handled, Ending, Looking
<1> USE DEF owns, valid_callback, Fail, next_stage, Submit, RequestRetry, RetryWork, RetryWanted,
            AutoOff, Unpair, LetGo, ForgetDone, ConnectFailed, SecurityChanged, Connected,
            Refused, Answer, Ignored, Failed, Advance, Request, DiscoverStep
<1>1. CASE RetryHandler
  <2>q. /\ work_queue' = Rest => QueueIs({}, {"retry"})
        /\ work_queue' = Enqueue(Rest, "connect") => QueueIs({"connect"}, {"retry"})
    BY <1>0, <1>1, QueueTake, QueueTakeAdd DEF Handlers, Timers, RetryHandler
  <2>h. /\ pc = "idle" /\ Queued("retry")
        /\ \A a \in Handlers : Before(work_queue, a, "retry") => ~Queued(a)
    BY <1>0, <1>1, QueueHead DEF RetryHandler
  <2>1. BondsAccounted'
    BY <1>1, <1>i, <1>b, <2>h, <1>none DEF RetryHandler
  <2>2. Watched'
    BY <1>1, <1>i, <1>w, <2>q, <2>h, <1>none DEF RetryHandler
  <2>3. Looking'
    BY <1>1, <1>i, <1>l, <2>q, <2>h, <1>none DEF RetryHandler
  <2>4. QED
    BY <2>1, <2>2, <2>3 DEF Attended
<1>2. CASE TimeoutHandler
  <2>q. /\ work_queue' = Rest => QueueIs({}, {"timeout"})
        /\ work_queue' = Enqueue(Rest, "failure") => QueueIs({"failure"}, {"timeout"})
    BY <1>0, <1>2, QueueTake, QueueTakeAdd DEF Handlers, Timers, TimeoutHandler
  <2>h. /\ pc = "idle" /\ Queued("timeout")
        /\ \A a \in Handlers : Before(work_queue, a, "timeout") => ~Queued(a)
    BY <1>0, <1>2, QueueHead DEF TimeoutHandler
  <2>1. BondsAccounted'
    BY <1>2, <1>i, <1>b, <2>h, <1>none DEF TimeoutHandler
  <2>2. Watched'
    BY <1>2, <1>i, <1>w, <2>q, <2>h, <1>none DEF TimeoutHandler
  <2>3. Looking'
    BY <1>2, <1>i, <1>l, <2>q, <2>h, <1>none DEF TimeoutHandler
  <2>4. QED
    BY <2>1, <2>2, <2>3 DEF Attended
<1>3. CASE PairTimeoutHandler
  <2>q. /\ work_queue' = Rest => QueueIs({}, {"pair_timeout"})
        /\ work_queue' = Enqueue(Rest, "failure") => QueueIs({"failure"}, {"pair_timeout"})
        /\ work_queue' = Enqueue(Rest, "connect") => QueueIs({"connect"}, {"pair_timeout"})
    BY <1>0, <1>3, QueueTake, QueueTakeAdd DEF Handlers, Timers, PairTimeoutHandler
  <2>h. /\ pc = "idle" /\ Queued("pair_timeout")
        /\ \A a \in Handlers : Before(work_queue, a, "pair_timeout") => ~Queued(a)
    BY <1>0, <1>3, QueueHead DEF PairTimeoutHandler
  <2>1. BondsAccounted'
    BY <1>3, <1>i, <1>b, <2>h, <1>none DEF PairTimeoutHandler, AbandonsCandidate
  <2>2. Watched'
    BY <1>3, <1>i, <1>w, <2>q, <2>h, <1>none DEF PairTimeoutHandler, AbandonsCandidate
  <2>3. Looking'
    BY <1>3, <1>i, <1>l, <2>q, <2>h, <1>none DEF PairTimeoutHandler, AbandonsCandidate
  <2>4. QED
    BY <2>1, <2>2, <2>3 DEF Attended
<1>4. CASE PairHandler
  <2>q. /\ work_queue' = Rest => QueueIs({}, {"pair"})
        /\ work_queue' = Enqueue(Rest, "connect") => QueueIs({"connect"}, {"pair"})
    BY <1>0, <1>4, QueueTake, QueueTakeAdd DEF Handlers, Timers, PairHandler
  <2>h. /\ pc = "idle" /\ Queued("pair")
        /\ \A a \in Handlers : Before(work_queue, a, "pair") => ~Queued(a)
    BY <1>0, <1>4, QueueHead DEF PairHandler
  <2>f. /\ pc' = "idle" /\ UNCHANGED <<mouse_conn, peer, started, bonds, scenario>>
        /\ timers \subseteq timers'
    BY <1>4, <2>h DEF PairHandler
  <2>k. /\ Queued("retry") => Queued("retry")'
        /\ Queued("pair_timeout") => Queued("pair_timeout")'
    <3>1. work_queue' = Rest \/ work_queue' = Enqueue(Rest, "connect")
      BY <1>4 DEF PairHandler
    <3>2. QED
      BY <2>q, <3>1
  <2>1. BondsAccounted'
    BY <1>4, <1>i, <1>b, <2>h, <1>none, <2>f, <2>k DEF PairHandler
  <2>2. Watched'
    BY <1>4, <1>i, <1>w, <2>q, <2>h, <1>none, <2>f, <2>k DEF PairHandler
  <2>3. Looking'
    <3>s. CASE UNCHANGED <<pairing, scan_wanted>>
      BY <1>l, <2>h, <2>f, <2>k, <3>s
    <3>t. CASE /\ mouse_conn = None
               /\ pairing' = (pairing \/ peer = None) /\ scan_wanted' = RetryWanted(pairing')
               /\ timers' = IF peer = None THEN timers \cup {"pair_timeout"} ELSE timers
      <4>1. CASE peer = None
        <5>1. pairing' /\ "pair_timeout" \in timers'
          BY <3>t, <4>1
        <5>2. scan_wanted'
          BY <3>t, <4>1, <5>1
        <5>3. QED
          BY <2>f, <4>1, <5>1, <5>2
      <4>2. CASE peer # None
        <5>1. pairing' = pairing
          BY <1>i, <3>t, <4>2
        <5>2. peer \in bonds => scan_wanted'
          BY <3>t, <4>2
        <5>3. QED
          BY <1>l, <2>f, <2>k, <4>2, <5>1, <5>2
      <4>3. QED
        BY <4>1, <4>2
    <3>u. QED
      BY <1>4, <3>s, <3>t DEF PairHandler
  <2>4. QED
    BY <2>1, <2>2, <2>3 DEF Attended
<1>5. CASE ClearHandler
  <2>q. /\ work_queue' = Rest => QueueIs({}, {"clear"})
        /\ work_queue' = Enqueue(Rest, "failure") => QueueIs({"failure"}, {"clear"})
    BY <1>0, <1>5, QueueTake, QueueTakeAdd DEF Handlers, Timers, ClearHandler
  <2>h. /\ pc = "idle" /\ Queued("clear")
        /\ \A a \in Handlers : Before(work_queue, a, "clear") => ~Queued(a)
    BY <1>0, <1>5, QueueHead DEF ClearHandler
  <2>1. BondsAccounted'
    BY <1>5, <1>i, <1>b, <2>h, <1>none DEF ClearHandler
  <2>2. Watched'
    BY <1>5, <1>i, <1>w, <2>q, <2>h, <1>none DEF ClearHandler
  <2>3. Looking'
    BY <1>5, <1>i, <1>l, <2>q, <2>h, <1>none DEF ClearHandler
  <2>4. QED
    BY <2>1, <2>2, <2>3 DEF Attended
<1>6. QED
  BY <1>1, <1>2, <1>3, <1>4, <1>5

(* A connection is ended, let go and forgotten.                              *)
LEMMA AttendedEnding ==
  ASSUME Accounts, Registered, Attended,
         FailureHandler \/ DisconnectedHandler \/ Teardown \/ Release \/ Forget \/ Delete
  PROVE  Attended'
<1>0. Once(work_queue)
  BY DEF Accounts
<1>i. /\ TypeOK /\ NoStrayLink /\ ConnectingHolds /\ ConnectionHolds /\ EventAccounted
      /\ LinksAccounted /\ LinkSettled /\ OneRequest
      /\ Started /\ CandidateHolds /\ WindowHolds /\ RegistrationHolds
  BY DEF Accounts, Registered
<1>b. BondsAccounted
  BY DEF Attended
<1>w. Watched
  BY DEF Attended
<1>l. Looking
  BY DEF Attended
<1>none. None \notin Mice /\ Mice \cap Others = {}
  BY ClientAssumption
<1> USE DEF candidateVars, peerVars, userVars, eventVars, keptVars, workerVars, queueVars,
            stepVars, linkVars, hostVars, clientVars,
            Stages, Links, Securities, Handlers, Timers, Profiles, Faults, Addresses, QueueIs
<1> USE DEF TypeOK, NoStrayLink, ConnectingHolds, ConnectionHolds, EventAccounted, LinksAccounted,
            LinkSettled, OneRequest, Connecting, Finishing, TearingDown, Forgetting, EarlyStages,
            LateStages, EventOnWay
<1> USE DEF Started, CandidateHolds, WindowHolds, RegistrationHolds, Attempt,
            BondsAccounted, NoPowerLost, RemovesCandidateBond, Watched, Handled, Ending, Looking
<1> USE DEF owns, valid_callback, Fail, next_stage, Submit, RequestRetry, RetryWork, RetryWanted,
            AutoOff, Unpair, LetGo, ForgetDone, ConnectFailed, SecurityChanged, Connected,
            Refused, Answer, Ignored, Failed, Advance, Request, DiscoverStep
<1>1. CASE FailureHandler
  <2>q. work_queue' = Rest => QueueIs({}, {"failure"})
    BY <1>0, <1>1, QueueTake DEF Handlers, Timers, FailureHandler
  <2>h. /\ pc = "idle" /\ Queued("failure")
        /\ \A a \in Handlers : Before(work_queue, a, "failure") => ~Queued(a)
    BY <1>0, <1>1, QueueHead DEF FailureHandler
  <2>1. BondsAccounted'
    BY <1>1, <1>i, <1>b, <2>h, <1>none DEF FailureHandler, NotConnected, KeepsUp
  <2>2. Watched'
    BY <1>1, <1>i, <1>w, <2>q, <2>h, <1>none DEF FailureHandler, NotConnected, KeepsUp
  <2>3. Looking'
    BY <1>1, <1>i, <1>l, <2>q, <2>h, <1>none DEF FailureHandler, NotConnected, KeepsUp
  <2>4. QED
    BY <2>1, <2>2, <2>3 DEF Attended
<1>2. CASE DisconnectedHandler
  <2>q. work_queue' = Rest => QueueIs({}, {"disconnected"})
    BY <1>0, <1>2, QueueTake DEF Handlers, Timers, DisconnectedHandler
  <2>h. /\ pc = "idle" /\ Queued("disconnected")
        /\ \A a \in Handlers : Before(work_queue, a, "disconnected") => ~Queued(a)
    BY <1>0, <1>2, QueueHead DEF DisconnectedHandler
  <2>1. BondsAccounted'
    BY <1>2, <1>i, <1>b, <2>h, <1>none DEF DisconnectedHandler
  <2>2. Watched'
    BY <1>2, <1>i, <1>w, <2>q, <2>h, <1>none DEF DisconnectedHandler
  <2>3. Looking'
    BY <1>2, <1>i, <1>l, <2>q, <2>h, <1>none DEF DisconnectedHandler
  <2>4. QED
    BY <2>1, <2>2, <2>3 DEF Attended
<1>3. CASE Teardown
  <2>q. work_queue' = work_queue => QueueIs({}, {})
    BY <1>0, <1>3, QueueKept DEF Handlers, Timers
  <2>1. BondsAccounted'
    BY <1>3, <1>i, <1>b, <1>none DEF Teardown, RemovesCandidateBond
  <2>2. Watched'
    BY <1>3, <1>i, <1>w, <2>q, <1>none DEF Teardown, RemovesCandidateBond
  <2>3. Looking'
    BY <1>3, <1>i, <1>l, <2>q, <1>none DEF Teardown, RemovesCandidateBond
  <2>4. QED
    BY <2>1, <2>2, <2>3 DEF Attended
<1>4. CASE Release
  <2>q. /\ work_queue' = work_queue => QueueIs({}, {})
        /\ work_queue' = Dequeue(work_queue, "timeout") => QueueIs({}, {"timeout"})
    BY <1>0, <1>4, QueueKept, QueueDrop DEF Handlers, Timers
  <2>1. BondsAccounted'
    BY <1>4, <1>i, <1>b, <1>none DEF Release
  <2>2. Watched'
    BY <1>4, <1>i, <1>w, <2>q, <1>none DEF Release
  <2>3. Looking'
    BY <1>4, <1>i, <1>l, <2>q, <1>none DEF Release
  <2>4. QED
    BY <2>1, <2>2, <2>3 DEF Attended
<1>5. CASE Forget
  <2>q. /\ work_queue' = work_queue => QueueIs({}, {})
        /\ work_queue' = Dequeue(work_queue, "pair_timeout") => QueueIs({}, {"pair_timeout"})
    BY <1>0, <1>5, QueueKept, QueueDrop DEF Handlers, Timers
  <2>e. /\ pc = "forget" /\ pc' # "release" /\ bonds' \subseteq bonds
        /\ UNCHANGED <<mouse_conn, new_candidate, candidate_bonded, peer, saved_peer, started>>
        /\ UNCHANGED <<scenario, budget>>
    <3>1. bonds' \subseteq bonds
      BY <1>5 DEF Forget, have_peer
    <3>2. pc = "forget" /\ pc' # "release"
      BY <1>5 DEF Forget, have_peer
    <3>3. QED
      BY <1>5, <3>1, <3>2 DEF Forget, have_peer
  <2>1. BondsAccounted'
    BY <1>b, <2>e
  <2>2. Watched'
    BY <1>5, <1>i, <1>w, <2>q, <1>none, <2>e DEF Forget, have_peer
  <2>3. Looking'
    BY <1>5, <1>i, <1>l, <2>q, <1>none, <2>e DEF Forget, have_peer
  <2>4. QED
    BY <2>1, <2>2, <2>3 DEF Attended
<1>6. CASE Delete
  <2>q. /\ work_queue' = work_queue => QueueIs({}, {})
        /\ work_queue' = Dequeue(work_queue, "pair_timeout") => QueueIs({}, {"pair_timeout"})
    BY <1>0, <1>6, QueueKept, QueueDrop DEF Handlers, Timers
  <2>1. BondsAccounted'
    BY <1>6, <1>i, <1>b, <1>none DEF Delete
  <2>2. Watched'
    BY <1>6, <1>i, <1>w, <2>q, <1>none DEF Delete
  <2>3. Looking'
    BY <1>6, <1>i, <1>l, <2>q, <1>none DEF Delete
  <2>4. QED
    BY <2>1, <2>2, <2>3 DEF Attended
<1>7. QED
  BY <1>1, <1>2, <1>3, <1>4, <1>5, <1>6

(* connect_work_cb and connect_mouse.                                        *)
LEMMA AttendedConnecting ==
  ASSUME Accounts, Registered, Attended,
         ConnectHandler \/ AutoConnect \/ Lookup
  PROVE  Attended'
<1>0. Once(work_queue)
  BY DEF Accounts
<1>i. /\ TypeOK /\ NoStrayLink /\ ConnectingHolds /\ ConnectionHolds /\ EventAccounted
      /\ LinksAccounted /\ LinkSettled /\ OneRequest
      /\ Started /\ CandidateHolds /\ WindowHolds /\ RegistrationHolds
  BY DEF Accounts, Registered
<1>b. BondsAccounted
  BY DEF Attended
<1>w. Watched
  BY DEF Attended
<1>l. Looking
  BY DEF Attended
<1>none. None \notin Mice /\ Mice \cap Others = {}
  BY ClientAssumption
<1> USE DEF candidateVars, peerVars, userVars, eventVars, keptVars, workerVars, queueVars,
            stepVars, linkVars, hostVars, clientVars,
            Stages, Links, Securities, Handlers, Timers, Profiles, Faults, Addresses, QueueIs
<1> USE DEF TypeOK, NoStrayLink, ConnectingHolds, ConnectionHolds, EventAccounted, LinksAccounted,
            LinkSettled, OneRequest, Connecting, Finishing, TearingDown, Forgetting, EarlyStages,
            LateStages, EventOnWay
<1> USE DEF Started, CandidateHolds, WindowHolds, RegistrationHolds, Attempt,
            BondsAccounted, NoPowerLost, RemovesCandidateBond, Watched, Handled, Ending, Looking
<1> USE DEF owns, valid_callback, Fail, next_stage, Submit, RequestRetry, RetryWork, RetryWanted,
            AutoOff, Unpair, LetGo, ForgetDone, ConnectFailed, SecurityChanged, Connected,
            Refused, Answer, Ignored, Failed, Advance, Request, DiscoverStep
<1>1. CASE ConnectHandler
  <2>q. work_queue' = Rest => QueueIs({}, {"connect"})
    BY <1>0, <1>1, QueueTake DEF Handlers, Timers, ConnectHandler
  <2>h. /\ pc = "idle" /\ Queued("connect")
        /\ \A a \in Handlers : Before(work_queue, a, "connect") => ~Queued(a)
    BY <1>0, <1>1, QueueHead DEF ConnectHandler
  <2>1. BondsAccounted'
    BY <1>1, <1>i, <1>b, <2>h, <1>none
       DEF ConnectHandler, MayConnect, NoFreeBond, NoSession, NoProfile
  <2>2. Watched'
    BY <1>1, <1>i, <1>w, <2>q, <2>h, <1>none
       DEF ConnectHandler, MayConnect, NoFreeBond, NoSession, NoProfile
  <2>3. Looking'
    BY <1>1, <1>i, <1>l, <2>q, <2>h, <1>none
       DEF ConnectHandler, MayConnect, NoFreeBond, NoSession, NoProfile
  <2>4. QED
    BY <2>1, <2>2, <2>3 DEF Attended
<1>2. CASE AutoConnect
  <2>q. work_queue' = work_queue => QueueIs({}, {})
    BY <1>0, <1>2, QueueKept DEF Handlers, Timers
  <2>1. BondsAccounted'
    BY <1>2, <1>i, <1>b, <1>none DEF AutoConnect
  <2>2. Watched'
    BY <1>2, <1>i, <1>w, <2>q, <1>none DEF AutoConnect
  <2>3. Looking'
    BY <1>2, <1>i, <1>l, <2>q, <1>none DEF AutoConnect
  <2>4. QED
    BY <2>1, <2>2, <2>3 DEF Attended
<1>3. CASE Lookup
  <2>q. work_queue' = work_queue => QueueIs({}, {})
    BY <1>0, <1>3, QueueKept DEF Handlers, Timers
  <2>1. BondsAccounted'
    BY <1>3, <1>i, <1>b, <1>none DEF Lookup
  <2>2. Watched'
    BY <1>3, <1>i, <1>w, <2>q, <1>none DEF Lookup
  <2>3. Looking'
    BY <1>3, <1>i, <1>l, <2>q, <1>none DEF Lookup
  <2>4. QED
    BY <2>1, <2>2, <2>3 DEF Attended
<1>4. QED
  BY <1>1, <1>2, <1>3

(* connected_work_cb.                                                        *)
LEMMA AttendedSecuring ==
  ASSUME Accounts, Registered, Attended,
         ConnectedHandler \/ EventTaken \/ Completed \/ Secure \/ RequestSecurity \/ Secured
  PROVE  Attended'
<1>0. Once(work_queue)
  BY DEF Accounts
<1>i. /\ TypeOK /\ NoStrayLink /\ ConnectingHolds /\ ConnectionHolds /\ EventAccounted
      /\ LinksAccounted /\ LinkSettled /\ OneRequest
      /\ Started /\ CandidateHolds /\ WindowHolds /\ RegistrationHolds
  BY DEF Accounts, Registered
<1>b. BondsAccounted
  BY DEF Attended
<1>w. Watched
  BY DEF Attended
<1>l. Looking
  BY DEF Attended
<1>none. None \notin Mice /\ Mice \cap Others = {}
  BY ClientAssumption
<1> USE DEF candidateVars, peerVars, userVars, eventVars, keptVars, workerVars, queueVars,
            stepVars, linkVars, hostVars, clientVars,
            Stages, Links, Securities, Handlers, Timers, Profiles, Faults, Addresses, QueueIs
<1> USE DEF TypeOK, NoStrayLink, ConnectingHolds, ConnectionHolds, EventAccounted, LinksAccounted,
            LinkSettled, OneRequest, Connecting, Finishing, TearingDown, Forgetting, EarlyStages,
            LateStages, EventOnWay
<1> USE DEF Started, CandidateHolds, WindowHolds, RegistrationHolds, Attempt,
            BondsAccounted, NoPowerLost, RemovesCandidateBond, Watched, Handled, Ending, Looking
<1> USE DEF owns, valid_callback, Fail, next_stage, Submit, RequestRetry, RetryWork, RetryWanted,
            AutoOff, Unpair, LetGo, ForgetDone, ConnectFailed, SecurityChanged, Connected,
            Refused, Answer, Ignored, Failed, Advance, Request, DiscoverStep
<1>1. CASE ConnectedHandler
  <2>q. work_queue' = Rest => QueueIs({}, {"connected"})
    BY <1>0, <1>1, QueueTake DEF Handlers, Timers, ConnectedHandler
  <2>h. /\ pc = "idle" /\ Queued("connected")
        /\ \A a \in Handlers : Before(work_queue, a, "connected") => ~Queued(a)
    BY <1>0, <1>1, QueueHead DEF ConnectedHandler
  <2>1. BondsAccounted'
    BY <1>1, <1>i, <1>b, <2>h, <1>none DEF ConnectedHandler
  <2>2. Watched'
    BY <1>1, <1>i, <1>w, <2>q, <2>h, <1>none DEF ConnectedHandler
  <2>3. Looking'
    BY <1>1, <1>i, <1>l, <2>q, <2>h, <1>none DEF ConnectedHandler
  <2>4. QED
    BY <2>1, <2>2, <2>3 DEF Attended
<1>2. CASE EventTaken
  <2>q. work_queue' = work_queue => QueueIs({}, {})
    BY <1>0, <1>2, QueueKept DEF Handlers, Timers
  <2>1. BondsAccounted'
    BY <1>2, <1>i, <1>b, <1>none DEF EventTaken
  <2>2. Watched'
    BY <1>2, <1>i, <1>w, <2>q, <1>none DEF EventTaken
  <2>3. Looking'
    BY <1>2, <1>i, <1>l, <2>q, <1>none DEF EventTaken
  <2>4. QED
    BY <2>1, <2>2, <2>3 DEF Attended
<1>3. CASE Completed
  <2>q. /\ work_queue' = work_queue => QueueIs({}, {})
        /\ work_queue' = Enqueue(work_queue, "failure") => QueueIs({"failure"}, {})
        /\ work_queue' = Dequeue(work_queue, "timeout") => QueueIs({}, {"timeout"})
    BY <1>0, <1>3, QueueKept, QueueAdd, QueueDrop DEF Handlers, Timers
  <2>1. BondsAccounted'
    BY <1>3, <1>i, <1>b, <1>none DEF Completed
  <2>2. Watched'
    BY <1>3, <1>i, <1>w, <2>q, <1>none DEF Completed
  <2>3. Looking'
    BY <1>3, <1>i, <1>l, <2>q, <1>none DEF Completed
  <2>4. QED
    BY <2>1, <2>2, <2>3 DEF Attended
<1>4. CASE Secure
  <2>q. work_queue' = work_queue => QueueIs({}, {})
    BY <1>0, <1>4, QueueKept DEF Handlers, Timers
  <2>1. BondsAccounted'
    BY <1>4, <1>i, <1>b, <1>none DEF Secure
  <2>2. Watched'
    BY <1>4, <1>i, <1>w, <2>q, <1>none DEF Secure
  <2>3. Looking'
    BY <1>4, <1>i, <1>l, <2>q, <1>none DEF Secure
  <2>4. QED
    BY <2>1, <2>2, <2>3 DEF Attended
<1>5. CASE RequestSecurity
  <2>q. /\ work_queue' = work_queue => QueueIs({}, {})
        /\ work_queue' = Enqueue(work_queue, "failure") => QueueIs({"failure"}, {})
    BY <1>0, <1>5, QueueKept, QueueAdd DEF Handlers, Timers
  <2>1. BondsAccounted'
    BY <1>5, <1>i, <1>b, <1>none DEF RequestSecurity
  <2>2. Watched'
    BY <1>5, <1>i, <1>w, <2>q, <1>none DEF RequestSecurity
  <2>3. Looking'
    BY <1>5, <1>i, <1>l, <2>q, <1>none DEF RequestSecurity
  <2>4. QED
    BY <2>1, <2>2, <2>3 DEF Attended
<1>6. CASE Secured
  <2>q. /\ work_queue' = work_queue => QueueIs({}, {})
        /\ work_queue' = Enqueue(work_queue, "discovery") => QueueIs({"discovery"}, {})
    BY <1>0, <1>6, QueueKept, QueueAdd DEF Handlers, Timers
  <2>1. BondsAccounted'
    BY <1>6, <1>i, <1>b, <1>none DEF Secured
  <2>2. Watched'
    BY <1>6, <1>i, <1>w, <2>q, <1>none DEF Secured
  <2>3. Looking'
    BY <1>6, <1>i, <1>l, <2>q, <1>none DEF Secured
  <2>4. QED
    BY <2>1, <2>2, <2>3 DEF Attended
<1>7. QED
  BY <1>1, <1>2, <1>3, <1>4, <1>5, <1>6

(* discovery_work_cb and finish_ready.                                       *)
LEMMA AttendedDiscovery ==
  ASSUME Accounts, Registered, Attended,
         DiscoveryHandler \/ DiscoverList \/ DiscoverReferences \/ DiscoverProtocol
         \/ DiscoverSubscriptions \/ FinishReady \/ SavePeer \/ BecomeReady
  PROVE  Attended'
<1>0. Once(work_queue)
  BY DEF Accounts
<1>i. /\ TypeOK /\ NoStrayLink /\ ConnectingHolds /\ ConnectionHolds /\ EventAccounted
      /\ LinksAccounted /\ LinkSettled /\ OneRequest
      /\ Started /\ CandidateHolds /\ WindowHolds /\ RegistrationHolds
  BY DEF Accounts, Registered
<1>b. BondsAccounted
  BY DEF Attended
<1>w. Watched
  BY DEF Attended
<1>l. Looking
  BY DEF Attended
<1>none. None \notin Mice /\ Mice \cap Others = {}
  BY ClientAssumption
<1> USE DEF candidateVars, peerVars, userVars, eventVars, keptVars, workerVars, queueVars,
            stepVars, linkVars, hostVars, clientVars,
            Stages, Links, Securities, Handlers, Timers, Profiles, Faults, Addresses, QueueIs
<1> USE DEF TypeOK, NoStrayLink, ConnectingHolds, ConnectionHolds, EventAccounted, LinksAccounted,
            LinkSettled, OneRequest, Connecting, Finishing, TearingDown, Forgetting, EarlyStages,
            LateStages, EventOnWay
<1> USE DEF Started, CandidateHolds, WindowHolds, RegistrationHolds, Attempt,
            BondsAccounted, NoPowerLost, RemovesCandidateBond, Watched, Handled, Ending, Looking
<1> USE DEF owns, valid_callback, Fail, next_stage, Submit, RequestRetry, RetryWork, RetryWanted,
            AutoOff, Unpair, LetGo, ForgetDone, ConnectFailed, SecurityChanged, Connected,
            Refused, Answer, Ignored, Failed, Advance, Request, DiscoverStep
<1>1. CASE DiscoveryHandler
  <2>q. work_queue' = Rest => QueueIs({}, {"discovery"})
    BY <1>0, <1>1, QueueTake DEF Handlers, Timers, DiscoveryHandler
  <2>h. /\ pc = "idle" /\ Queued("discovery")
        /\ \A a \in Handlers : Before(work_queue, a, "discovery") => ~Queued(a)
    BY <1>0, <1>1, QueueHead DEF DiscoveryHandler
  <2>1. BondsAccounted'
    BY <1>1, <1>i, <1>b, <2>h, <1>none DEF DiscoveryHandler
  <2>2. Watched'
    BY <1>1, <1>i, <1>w, <2>q, <2>h, <1>none DEF DiscoveryHandler
  <2>3. Looking'
    BY <1>1, <1>i, <1>l, <2>q, <2>h, <1>none DEF DiscoveryHandler
  <2>4. QED
    BY <2>1, <2>2, <2>3 DEF Attended
<1>2. CASE DiscoverList
  <2>q. /\ work_queue' = work_queue => QueueIs({}, {})
        /\ work_queue' = Enqueue(work_queue, "failure") => QueueIs({"failure"}, {})
    BY <1>0, <1>2, QueueKept, QueueAdd DEF Handlers, Timers
  <2>1. BondsAccounted'
    BY <1>2, <1>i, <1>b, <1>none DEF DiscoverList
  <2>2. Watched'
    BY <1>2, <1>i, <1>w, <2>q, <1>none DEF DiscoverList
  <2>3. Looking'
    BY <1>2, <1>i, <1>l, <2>q, <1>none DEF DiscoverList
  <2>4. QED
    BY <2>1, <2>2, <2>3 DEF Attended
<1>3. CASE DiscoverReferences
  <2>q. /\ work_queue' = work_queue => QueueIs({}, {})
        /\ work_queue' = Enqueue(work_queue, "failure") => QueueIs({"failure"}, {})
        /\ work_queue' = Enqueue(work_queue, "discovery") => QueueIs({"discovery"}, {})
    BY <1>0, <1>3, QueueKept, QueueAdd DEF Handlers, Timers
  <2>1. BondsAccounted'
    BY <1>3, <1>i, <1>b, <1>none DEF DiscoverReferences
  <2>2. Watched'
    BY <1>3, <1>i, <1>w, <2>q, <1>none DEF DiscoverReferences
  <2>3. Looking'
    BY <1>3, <1>i, <1>l, <2>q, <1>none DEF DiscoverReferences
  <2>4. QED
    BY <2>1, <2>2, <2>3 DEF Attended
<1>4. CASE DiscoverProtocol
  <2>q. /\ work_queue' = work_queue => QueueIs({}, {})
        /\ work_queue' = Enqueue(work_queue, "failure") => QueueIs({"failure"}, {})
        /\ work_queue' = Enqueue(work_queue, "discovery") => QueueIs({"discovery"}, {})
    BY <1>0, <1>4, QueueKept, QueueAdd DEF Handlers, Timers
  <2>1. BondsAccounted'
    BY <1>4, <1>i, <1>b, <1>none DEF DiscoverProtocol
  <2>2. Watched'
    BY <1>4, <1>i, <1>w, <2>q, <1>none DEF DiscoverProtocol
  <2>3. Looking'
    BY <1>4, <1>i, <1>l, <2>q, <1>none DEF DiscoverProtocol
  <2>4. QED
    BY <2>1, <2>2, <2>3 DEF Attended
<1>5. CASE DiscoverSubscriptions
  <2>q. /\ work_queue' = work_queue => QueueIs({}, {})
        /\ work_queue' = Enqueue(work_queue, "failure") => QueueIs({"failure"}, {})
    BY <1>0, <1>5, QueueKept, QueueAdd DEF Handlers, Timers
  <2>1. BondsAccounted'
    BY <1>5, <1>i, <1>b, <1>none DEF DiscoverSubscriptions
  <2>2. Watched'
    BY <1>5, <1>i, <1>w, <2>q, <1>none DEF DiscoverSubscriptions
  <2>3. Looking'
    BY <1>5, <1>i, <1>l, <2>q, <1>none DEF DiscoverSubscriptions
  <2>4. QED
    BY <2>1, <2>2, <2>3 DEF Attended
<1>6. CASE FinishReady
  <2>q. /\ work_queue' = work_queue => QueueIs({}, {})
        /\ work_queue' = Enqueue(work_queue, "failure") => QueueIs({"failure"}, {})
    BY <1>0, <1>6, QueueKept, QueueAdd DEF Handlers, Timers
  <2>1. BondsAccounted'
    BY <1>6, <1>i, <1>b, <1>none DEF FinishReady, CandidateNotBonded
  <2>2. Watched'
    BY <1>6, <1>i, <1>w, <2>q, <1>none DEF FinishReady, CandidateNotBonded
  <2>3. Looking'
    BY <1>6, <1>i, <1>l, <2>q, <1>none DEF FinishReady, CandidateNotBonded
  <2>4. QED
    BY <2>1, <2>2, <2>3 DEF Attended
<1>7. CASE SavePeer
  <2>q. /\ work_queue' = work_queue => QueueIs({}, {})
        /\ work_queue' = Enqueue(work_queue, "failure") => QueueIs({"failure"}, {})
    BY <1>0, <1>7, QueueKept, QueueAdd DEF Handlers, Timers
  <2>1. BondsAccounted'
    BY <1>7, <1>i, <1>b, <1>none DEF SavePeer
  <2>2. Watched'
    BY <1>7, <1>i, <1>w, <2>q, <1>none DEF SavePeer
  <2>3. Looking'
    BY <1>7, <1>i, <1>l, <2>q, <1>none DEF SavePeer
  <2>4. QED
    BY <2>1, <2>2, <2>3 DEF Attended
<1>8. CASE BecomeReady
  <2>q. /\ work_queue' = work_queue => QueueIs({}, {})
        /\ work_queue' = Dequeue(Dequeue(work_queue, "pair_timeout"), "timeout")
               => QueueIs({}, {"pair_timeout", "timeout"})
    BY <1>0, <1>8, QueueKept, QueueDropTwo DEF Handlers, Timers
  <2>1. BondsAccounted'
    BY <1>8, <1>i, <1>b, <1>none DEF BecomeReady
  <2>2. Watched'
    BY <1>8, <1>i, <1>w, <2>q, <1>none DEF BecomeReady
  <2>3. Looking'
    BY <1>8, <1>i, <1>l, <2>q, <1>none DEF BecomeReady
  <2>4. QED
    BY <2>1, <2>2, <2>3 DEF Attended
<1>9. QED
  BY <1>1, <1>2, <1>3, <1>4, <1>5, <1>6, <1>7, <1>8

(* What the host reports of a device.                                        *)
LEMMA AttendedRadio ==
  ASSUME Accounts, Registered, Attended,
         NEW m \in Mice,
         LinkUp(m) \/ LinkRefused(m) \/ LinkLost(m) \/ Encrypted(m) \/ PairingStarts(m)
         \/ PairingEncrypts(m) \/ PairingCompletes(m) \/ SecurityFails(m) \/ NotifyEnds(m)
         \/ Advertises(m)
  PROVE  Attended'
<1>0. Once(work_queue)
  BY DEF Accounts
<1>i. /\ TypeOK /\ NoStrayLink /\ ConnectingHolds /\ ConnectionHolds /\ EventAccounted
      /\ LinksAccounted /\ LinkSettled /\ OneRequest
      /\ Started /\ CandidateHolds /\ WindowHolds /\ RegistrationHolds
  BY DEF Accounts, Registered
<1>b. BondsAccounted
  BY DEF Attended
<1>w. Watched
  BY DEF Attended
<1>l. Looking
  BY DEF Attended
<1>none. None \notin Mice /\ Mice \cap Others = {}
  BY ClientAssumption
<1> USE DEF candidateVars, peerVars, userVars, eventVars, keptVars, workerVars, queueVars,
            stepVars, linkVars, hostVars, clientVars,
            Stages, Links, Securities, Handlers, Timers, Profiles, Faults, Addresses, QueueIs
<1> USE DEF TypeOK, NoStrayLink, ConnectingHolds, ConnectionHolds, EventAccounted, LinksAccounted,
            LinkSettled, OneRequest, Connecting, Finishing, TearingDown, Forgetting, EarlyStages,
            LateStages, EventOnWay
<1> USE DEF Started, CandidateHolds, WindowHolds, RegistrationHolds, Attempt,
            BondsAccounted, NoPowerLost, RemovesCandidateBond, Watched, Handled, Ending, Looking
<1> USE DEF owns, valid_callback, Fail, next_stage, Submit, RequestRetry, RetryWork, RetryWanted,
            AutoOff, Unpair, LetGo, ForgetDone, ConnectFailed, SecurityChanged, Connected,
            Refused, Answer, Ignored, Failed, Advance, Request, DiscoverStep
<1>1. CASE LinkUp(m)
  <2>q. /\ work_queue' = work_queue => QueueIs({}, {})
        /\ work_queue' = Enqueue(work_queue, "connected") => QueueIs({"connected"}, {})
    BY <1>0, <1>1, QueueKept, QueueAdd DEF Handlers, Timers
  <2>1. BondsAccounted'
    BY <1>1, <1>i, <1>b, <1>none DEF LinkUp, KeepsUp
  <2>2. Watched'
    BY <1>1, <1>i, <1>w, <2>q, <1>none DEF LinkUp, KeepsUp
  <2>3. Looking'
    BY <1>1, <1>i, <1>l, <2>q, <1>none DEF LinkUp, KeepsUp
  <2>4. QED
    BY <2>1, <2>2, <2>3 DEF Attended
<1>2. CASE LinkRefused(m)
  <2>q. /\ work_queue' = work_queue => QueueIs({}, {})
        /\ work_queue' = Enqueue(work_queue, "connected") => QueueIs({"connected"}, {})
    BY <1>0, <1>2, QueueKept, QueueAdd DEF Handlers, Timers
  <2>1. BondsAccounted'
    BY <1>2, <1>i, <1>b, <1>none DEF LinkRefused, KeepsUp
  <2>2. Watched'
    BY <1>2, <1>i, <1>w, <2>q, <1>none DEF LinkRefused, KeepsUp
  <2>3. Looking'
    BY <1>2, <1>i, <1>l, <2>q, <1>none DEF LinkRefused, KeepsUp
  <2>4. QED
    BY <2>1, <2>2, <2>3 DEF Attended
<1>3. CASE LinkLost(m)
  <2>q. /\ work_queue' = work_queue => QueueIs({}, {})
        /\ work_queue' = Enqueue(work_queue, "disconnected") => QueueIs({"disconnected"}, {})
        /\ work_queue' = Enqueue(Enqueue(work_queue, "failure"), "disconnected")
               => QueueIs({"failure", "disconnected"}, {})
        /\ work_queue' = Enqueue(Enqueue(work_queue, "discovery"), "disconnected")
               => QueueIs({"discovery", "disconnected"}, {})
    BY <1>0, <1>3, QueueKept, QueueAdd, QueueAddTwo DEF Handlers, Timers
  <2>1. BondsAccounted'
    BY <1>3, <1>i, <1>b, <1>none DEF LinkLost, NoRequest, LastAnswers
  <2>2. Watched'
    BY <1>3, <1>i, <1>w, <2>q, <1>none DEF LinkLost, NoRequest, LastAnswers
  <2>3. Looking'
    BY <1>3, <1>i, <1>l, <2>q, <1>none DEF LinkLost, NoRequest, LastAnswers
  <2>4. QED
    BY <2>1, <2>2, <2>3 DEF Attended
<1>4. CASE Encrypted(m)
  <2>q. /\ work_queue' = work_queue => QueueIs({}, {})
        /\ work_queue' = Enqueue(work_queue, "discovery") => QueueIs({"discovery"}, {})
    BY <1>0, <1>4, QueueKept, QueueAdd DEF Handlers, Timers
  <2>1. BondsAccounted'
    BY <1>4, <1>i, <1>b, <1>none DEF Encrypted
  <2>2. Watched'
    BY <1>4, <1>i, <1>w, <2>q, <1>none DEF Encrypted
  <2>3. Looking'
    BY <1>4, <1>i, <1>l, <2>q, <1>none DEF Encrypted
  <2>4. QED
    BY <2>1, <2>2, <2>3 DEF Attended
<1>5. CASE PairingStarts(m)
  <2>q. work_queue' = work_queue => QueueIs({}, {})
    BY <1>0, <1>5, QueueKept DEF Handlers, Timers
  <2>1. BondsAccounted'
    BY <1>5, <1>i, <1>b, <1>none DEF PairingStarts, legacy_pairing_allowed
  <2>2. Watched'
    BY <1>5, <1>i, <1>w, <2>q, <1>none DEF PairingStarts, legacy_pairing_allowed
  <2>3. Looking'
    BY <1>5, <1>i, <1>l, <2>q, <1>none DEF PairingStarts, legacy_pairing_allowed
  <2>4. QED
    BY <2>1, <2>2, <2>3 DEF Attended
<1>6. CASE PairingEncrypts(m)
  <2>q. /\ work_queue' = work_queue => QueueIs({}, {})
        /\ work_queue' = Enqueue(work_queue, "discovery") => QueueIs({"discovery"}, {})
    BY <1>0, <1>6, QueueKept, QueueAdd DEF Handlers, Timers
  <2>1. BondsAccounted'
    BY <1>6, <1>i, <1>b, <1>none DEF PairingEncrypts
  <2>2. Watched'
    BY <1>6, <1>i, <1>w, <2>q, <1>none DEF PairingEncrypts
  <2>3. Looking'
    BY <1>6, <1>i, <1>l, <2>q, <1>none DEF PairingEncrypts
  <2>4. QED
    BY <2>1, <2>2, <2>3 DEF Attended
<1>7. CASE PairingCompletes(m)
  <2>q. /\ work_queue' = work_queue => QueueIs({}, {})
        /\ work_queue' = Enqueue(work_queue, "failure") => QueueIs({"failure"}, {})
    BY <1>0, <1>7, QueueKept, QueueAdd DEF Handlers, Timers
  <2>1. BondsAccounted'
    BY <1>7, <1>i, <1>b, <1>none DEF PairingCompletes
  <2>2. Watched'
    BY <1>7, <1>i, <1>w, <2>q, <1>none DEF PairingCompletes
  <2>3. Looking'
    BY <1>7, <1>i, <1>l, <2>q, <1>none DEF PairingCompletes
  <2>4. QED
    BY <2>1, <2>2, <2>3 DEF Attended
<1>8. CASE SecurityFails(m)
  <2>q. /\ work_queue' = work_queue => QueueIs({}, {})
        /\ work_queue' = Enqueue(work_queue, "failure") => QueueIs({"failure"}, {})
    BY <1>0, <1>8, QueueKept, QueueAdd DEF Handlers, Timers
  <2>1. BondsAccounted'
    BY <1>8, <1>i, <1>b, <1>none DEF SecurityFails, legacy_pairing_allowed
  <2>2. Watched'
    BY <1>8, <1>i, <1>w, <2>q, <1>none DEF SecurityFails, legacy_pairing_allowed
  <2>3. Looking'
    BY <1>8, <1>i, <1>l, <2>q, <1>none DEF SecurityFails, legacy_pairing_allowed
  <2>4. QED
    BY <2>1, <2>2, <2>3 DEF Attended
<1>9. CASE NotifyEnds(m)
  <2>q. /\ work_queue' = work_queue => QueueIs({}, {})
        /\ work_queue' = Enqueue(work_queue, "failure") => QueueIs({"failure"}, {})
    BY <1>0, <1>9, QueueKept, QueueAdd DEF Handlers, Timers
  <2>1. BondsAccounted'
    BY <1>9, <1>i, <1>b, <1>none DEF NotifyEnds
  <2>2. Watched'
    BY <1>9, <1>i, <1>w, <2>q, <1>none DEF NotifyEnds
  <2>3. Looking'
    BY <1>9, <1>i, <1>l, <2>q, <1>none DEF NotifyEnds
  <2>4. QED
    BY <2>1, <2>2, <2>3 DEF Attended
<1>10. CASE Advertises(m)
  <2>q. /\ work_queue' = work_queue => QueueIs({}, {})
        /\ work_queue' = Enqueue(work_queue, "connect") => QueueIs({"connect"}, {})
    BY <1>0, <1>10, QueueKept, QueueAdd DEF Handlers, Timers
  <2>1. BondsAccounted'
    BY <1>10, <1>i, <1>b, <1>none DEF Advertises
  <2>2. Watched'
    BY <1>10, <1>i, <1>w, <2>q, <1>none DEF Advertises
  <2>3. Looking'
    BY <1>10, <1>i, <1>l, <2>q, <1>none DEF Advertises
  <2>4. QED
    BY <2>1, <2>2, <2>3 DEF Attended
<1>11. QED
  BY <1>1, <1>2, <1>3, <1>4, <1>5, <1>6, <1>7, <1>8, <1>9, <1>10

(* GATT answers.                                                             *)
LEMMA AttendedAnswers ==
  ASSUME Accounts, Registered, Attended,
         NEW found \in BOOLEAN, NEW profile \in Profiles, NEW ok \in BOOLEAN,
         DiscoverCb(found, profile) \/ ReadCb(ok) \/ WrittenCb(ok) \/ SubscribedCb(ok)
  PROVE  Attended'
<1>0. Once(work_queue)
  BY DEF Accounts
<1>i. /\ TypeOK /\ NoStrayLink /\ ConnectingHolds /\ ConnectionHolds /\ EventAccounted
      /\ LinksAccounted /\ LinkSettled /\ OneRequest
      /\ Started /\ CandidateHolds /\ WindowHolds /\ RegistrationHolds
  BY DEF Accounts, Registered
<1>b. BondsAccounted
  BY DEF Attended
<1>w. Watched
  BY DEF Attended
<1>l. Looking
  BY DEF Attended
<1>none. None \notin Mice /\ Mice \cap Others = {}
  BY ClientAssumption
<1> USE DEF candidateVars, peerVars, userVars, eventVars, keptVars, workerVars, queueVars,
            stepVars, linkVars, hostVars, clientVars,
            Stages, Links, Securities, Handlers, Timers, Profiles, Faults, Addresses, QueueIs
<1> USE DEF TypeOK, NoStrayLink, ConnectingHolds, ConnectionHolds, EventAccounted, LinksAccounted,
            LinkSettled, OneRequest, Connecting, Finishing, TearingDown, Forgetting, EarlyStages,
            LateStages, EventOnWay
<1> USE DEF Started, CandidateHolds, WindowHolds, RegistrationHolds, Attempt,
            BondsAccounted, NoPowerLost, RemovesCandidateBond, Watched, Handled, Ending, Looking
<1> USE DEF owns, valid_callback, Fail, next_stage, Submit, RequestRetry, RetryWork, RetryWanted,
            AutoOff, Unpair, LetGo, ForgetDone, ConnectFailed, SecurityChanged, Connected,
            Refused, Answer, Ignored, Failed, Advance, Request, DiscoverStep
<1>1. CASE DiscoverCb(found, profile)
  <2>q. /\ work_queue' = work_queue => QueueIs({}, {})
        /\ work_queue' = Enqueue(work_queue, "failure") => QueueIs({"failure"}, {})
        /\ work_queue' = Enqueue(work_queue, "discovery") => QueueIs({"discovery"}, {})
    BY <1>0, <1>1, QueueKept, QueueAdd DEF Handlers, Timers
  <2>1. BondsAccounted'
    BY <1>1, <1>i, <1>b, <1>none DEF DiscoverCb, NoRequest, Usable
  <2>2. Watched'
    BY <1>1, <1>i, <1>w, <2>q, <1>none DEF DiscoverCb, NoRequest, Usable
  <2>3. Looking'
    BY <1>1, <1>i, <1>l, <2>q, <1>none DEF DiscoverCb, NoRequest, Usable
  <2>4. QED
    BY <2>1, <2>2, <2>3 DEF Attended
<1>2. CASE ReadCb(ok)
  <2>q. /\ work_queue' = work_queue => QueueIs({}, {})
        /\ work_queue' = Enqueue(work_queue, "failure") => QueueIs({"failure"}, {})
        /\ work_queue' = Enqueue(work_queue, "discovery") => QueueIs({"discovery"}, {})
    BY <1>0, <1>2, QueueKept, QueueAdd DEF Handlers, Timers
  <2>1. BondsAccounted'
    BY <1>2, <1>i, <1>b, <1>none DEF ReadCb, NoRequest
  <2>2. Watched'
    BY <1>2, <1>i, <1>w, <2>q, <1>none DEF ReadCb, NoRequest
  <2>3. Looking'
    BY <1>2, <1>i, <1>l, <2>q, <1>none DEF ReadCb, NoRequest
  <2>4. QED
    BY <2>1, <2>2, <2>3 DEF Attended
<1>3. CASE WrittenCb(ok)
  <2>q. /\ work_queue' = work_queue => QueueIs({}, {})
        /\ work_queue' = Enqueue(work_queue, "failure") => QueueIs({"failure"}, {})
        /\ work_queue' = Enqueue(work_queue, "discovery") => QueueIs({"discovery"}, {})
    BY <1>0, <1>3, QueueKept, QueueAdd DEF Handlers, Timers
  <2>1. BondsAccounted'
    BY <1>3, <1>i, <1>b, <1>none DEF WrittenCb, NoRequest
  <2>2. Watched'
    BY <1>3, <1>i, <1>w, <2>q, <1>none DEF WrittenCb, NoRequest
  <2>3. Looking'
    BY <1>3, <1>i, <1>l, <2>q, <1>none DEF WrittenCb, NoRequest
  <2>4. QED
    BY <2>1, <2>2, <2>3 DEF Attended
<1>4. CASE SubscribedCb(ok)
  <2>q. /\ work_queue' = work_queue => QueueIs({}, {})
        /\ work_queue' = Enqueue(work_queue, "failure") => QueueIs({"failure"}, {})
        /\ work_queue' = Enqueue(work_queue, "discovery") => QueueIs({"discovery"}, {})
    BY <1>0, <1>4, QueueKept, QueueAdd DEF Handlers, Timers
  <2>1. BondsAccounted'
    BY <1>4, <1>i, <1>b, <1>none DEF SubscribedCb, NoRequest
  <2>2. Watched'
    BY <1>4, <1>i, <1>w, <2>q, <1>none DEF SubscribedCb, NoRequest
  <2>3. Looking'
    BY <1>4, <1>i, <1>l, <2>q, <1>none DEF SubscribedCb, NoRequest
  <2>4. QED
    BY <2>1, <2>2, <2>3 DEF Attended
<1>5. QED
  BY <1>1, <1>2, <1>3, <1>4

(* Keys, timers, and the boot.                                               *)
LEMMA AttendedKeys ==
  ASSUME Accounts, Registered, Attended,
         NEW pressed \in BOOLEAN, NEW timer \in Timers,
         PairPressed \/ ClearHold(pressed) \/ Expire(timer) \/ Start
  PROVE  Attended'
<1>0. Once(work_queue)
  BY DEF Accounts
<1>i. /\ TypeOK /\ NoStrayLink /\ ConnectingHolds /\ ConnectionHolds /\ EventAccounted
      /\ LinksAccounted /\ LinkSettled /\ OneRequest
      /\ Started /\ CandidateHolds /\ WindowHolds /\ RegistrationHolds
  BY DEF Accounts, Registered
<1>b. BondsAccounted
  BY DEF Attended
<1>w. Watched
  BY DEF Attended
<1>l. Looking
  BY DEF Attended
<1>none. None \notin Mice /\ Mice \cap Others = {}
  BY ClientAssumption
<1> USE DEF candidateVars, peerVars, userVars, eventVars, keptVars, workerVars, queueVars,
            stepVars, linkVars, hostVars, clientVars,
            Stages, Links, Securities, Handlers, Timers, Profiles, Faults, Addresses, QueueIs
<1> USE DEF TypeOK, NoStrayLink, ConnectingHolds, ConnectionHolds, EventAccounted, LinksAccounted,
            LinkSettled, OneRequest, Connecting, Finishing, TearingDown, Forgetting, EarlyStages,
            LateStages, EventOnWay
<1> USE DEF Started, CandidateHolds, WindowHolds, RegistrationHolds, Attempt,
            BondsAccounted, NoPowerLost, RemovesCandidateBond, Watched, Handled, Ending, Looking
<1> USE DEF owns, valid_callback, Fail, next_stage, Submit, RequestRetry, RetryWork, RetryWanted,
            AutoOff, Unpair, LetGo, ForgetDone, ConnectFailed, SecurityChanged, Connected,
            Refused, Answer, Ignored, Failed, Advance, Request, DiscoverStep
<1>1. CASE PairPressed
  <2>q. /\ work_queue' = work_queue => QueueIs({}, {})
        /\ work_queue' = Enqueue(work_queue, "pair") => QueueIs({"pair"}, {})
    BY <1>0, <1>1, QueueKept, QueueAdd DEF Handlers, Timers
  <2>1. BondsAccounted'
    BY <1>1, <1>i, <1>b, <1>none DEF PairPressed
  <2>2. Watched'
    BY <1>1, <1>i, <1>w, <2>q, <1>none DEF PairPressed
  <2>3. Looking'
    BY <1>1, <1>i, <1>l, <2>q, <1>none DEF PairPressed
  <2>4. QED
    BY <2>1, <2>2, <2>3 DEF Attended
<1>2. CASE ClearHold(pressed)
  <2>q. /\ work_queue' = work_queue => QueueIs({}, {})
        /\ work_queue' = Dequeue(work_queue, "clear") => QueueIs({}, {"clear"})
    BY <1>0, <1>2, QueueKept, QueueDrop DEF Handlers, Timers
  <2>e. /\ budget'.power = budget.power
        /\ UNCHANGED <<bonds, mouse_conn, new_candidate, candidate_bonded, peer, saved_peer,
                       started, scenario, pc>>
    BY <1>2, <1>i DEF ClearHold
  <2>1. BondsAccounted'
    BY <1>b, <2>e
  <2>2. Watched'
    BY <1>2, <1>i, <1>w, <2>q, <1>none, <2>e DEF ClearHold
  <2>3. Looking'
    BY <1>2, <1>i, <1>l, <2>q, <1>none, <2>e DEF ClearHold
  <2>4. QED
    BY <2>1, <2>2, <2>3 DEF Attended
<1>3. CASE Expire(timer)
  <2>q. /\ work_queue' = work_queue => QueueIs({}, {})
        /\ work_queue' = Enqueue(work_queue, timer) => QueueIs({timer}, {})
    BY <1>0, <1>3, QueueKept, QueueAdd DEF Handlers, Timers
  <2>1. BondsAccounted'
    BY <1>3, <1>i, <1>b, <1>none DEF Expire
  <2>2. Watched'
    BY <1>3, <1>i, <1>w, <2>q, <1>none DEF Expire
  <2>3. Looking'
    BY <1>3, <1>i, <1>l, <2>q, <1>none DEF Expire
  <2>4. QED
    BY <2>1, <2>2, <2>3 DEF Attended
<1>4. CASE Start
  <2>q. work_queue' = work_queue => QueueIs({}, {})
    BY <1>0, <1>4, QueueKept DEF Handlers, Timers
  <2>1. BondsAccounted'
    BY <1>4, <1>i, <1>b, <1>none DEF Start
  <2>2. Watched'
    BY <1>4, <1>i, <1>w, <2>q, <1>none DEF Start
  <2>3. Looking'
    BY <1>4, <1>i, <1>l, <2>q, <1>none DEF Start
  <2>4. QED
    BY <2>1, <2>2, <2>3 DEF Attended
<1>5. QED
  BY <1>1, <1>2, <1>3, <1>4

(* Other devices.                                                            *)
LEMMA AttendedOthers ==
  ASSUME Accounts, Registered, Attended,
         NEW d \in Others,
         OtherPairs(d)
  PROVE  Attended'
<1>0. Once(work_queue)
  BY DEF Accounts
<1>i. /\ TypeOK /\ NoStrayLink /\ ConnectingHolds /\ ConnectionHolds /\ EventAccounted
      /\ LinksAccounted /\ LinkSettled /\ OneRequest
      /\ Started /\ CandidateHolds /\ WindowHolds /\ RegistrationHolds
  BY DEF Accounts, Registered
<1>b. BondsAccounted
  BY DEF Attended
<1>w. Watched
  BY DEF Attended
<1>l. Looking
  BY DEF Attended
<1>none. None \notin Mice /\ Mice \cap Others = {}
  BY ClientAssumption
<1> USE DEF candidateVars, peerVars, userVars, eventVars, keptVars, workerVars, queueVars,
            stepVars, linkVars, hostVars, clientVars,
            Stages, Links, Securities, Handlers, Timers, Profiles, Faults, Addresses, QueueIs
<1> USE DEF TypeOK, NoStrayLink, ConnectingHolds, ConnectionHolds, EventAccounted, LinksAccounted,
            LinkSettled, OneRequest, Connecting, Finishing, TearingDown, Forgetting, EarlyStages,
            LateStages, EventOnWay
<1> USE DEF Started, CandidateHolds, WindowHolds, RegistrationHolds, Attempt,
            BondsAccounted, NoPowerLost, RemovesCandidateBond, Watched, Handled, Ending, Looking
<1> USE DEF owns, valid_callback, Fail, next_stage, Submit, RequestRetry, RetryWork, RetryWanted,
            AutoOff, Unpair, LetGo, ForgetDone, ConnectFailed, SecurityChanged, Connected,
            Refused, Answer, Ignored, Failed, Advance, Request, DiscoverStep
<1>1. CASE OtherPairs(d)
  <2>q. work_queue' = work_queue => QueueIs({}, {})
    BY <1>0, <1>1, QueueKept DEF Handlers, Timers
  <2>1. BondsAccounted'
    BY <1>1, <1>i, <1>b, <1>none DEF OtherPairs
  <2>2. Watched'
    BY <1>1, <1>i, <1>w, <2>q, <1>none DEF OtherPairs
  <2>3. Looking'
    BY <1>1, <1>i, <1>l, <2>q, <1>none DEF OtherPairs
  <2>4. QED
    BY <2>1, <2>2, <2>3 DEF Attended
<1>2. QED
  BY <1>1

(* A step that changes nothing.                                              *)
LEMMA AttendedStutter ==
  ASSUME Attended, UNCHANGED vars
  PROVE  Attended'
<1> USE DEF vars, candidateVars, peerVars, userVars, eventVars, keptVars, workerVars, queueVars,
            linkVars, hostVars, clientVars
<1>1. BondsAccounted'
  BY DEF Attended, BondsAccounted, NoPowerLost, RemovesCandidateBond, Faults
<1>2. Watched'
  BY DEF Attended, Watched, Handled, Ending, TearingDown, Finishing, Faults, Queued, Holds
<1>3. Looking'
  BY DEF Attended, Looking, Connecting, Forgetting, Faults, Queued, Holds
<1>4. QED
  BY <1>1, <1>2, <1>3 DEF Attended

LEMMA AttendedStep == Accounts /\ Registered /\ Attended /\ [Next]_vars => Attended'
<1> SUFFICES ASSUME Accounts, Registered, Attended, [Next]_vars
             PROVE  Attended'
  OBVIOUS
<1>0. TypeOK
  BY DEF Accounts
<1>m. /\ scenario.mice \subseteq Mice /\ scenario.others \subseteq Others
      /\ Profiles = scenario.profiles /\ Profiles # {}
  BY <1>0, ClientAssumption DEF TypeOK, Profiles
<1>1. CASE Worker
  BY <1>1, AttendedTimers, AttendedEnding, AttendedConnecting, AttendedSecuring,
     AttendedDiscovery DEF Worker
<1>2. CASE Radio
  <2>1. ASSUME NEW m \in scenario.mice,
               \/ LinkUp(m) \/ LinkRefused(m) \/ LinkLost(m)
               \/ Encrypted(m) \/ PairingStarts(m) \/ PairingEncrypts(m) \/ PairingCompletes(m)
               \/ SecurityFails(m) \/ NotifyEnds(m) \/ Advertises(m)
        PROVE  Attended'
    BY <1>m, <2>1, AttendedRadio
  <2>2. ASSUME GattAnswers
        PROVE  Attended'
    <3>1. ASSUME NEW found \in BOOLEAN, NEW profile \in Profiles, DiscoverCb(found, profile)
          PROVE  Attended'
      BY <3>1, AttendedAnswers
    <3>2. ASSUME NEW ok \in BOOLEAN, ReadCb(ok) \/ WrittenCb(ok) \/ SubscribedCb(ok)
          PROVE  Attended'
      BY <1>m, <3>2, AttendedAnswers
    <3>3. QED
      BY <2>2, <3>1, <3>2 DEF GattAnswers
  <2>3. QED
    BY <1>2, <2>1, <2>2 DEF Radio
<1>3. CASE User
  <2>1. PairPressed \/ ClearHold(TRUE) \/ ClearHold(FALSE)
    BY <1>3 DEF User, Pressed, Released
  <2>2. "retry" \in Timers
    BY DEF Timers
  <2>3. QED
    BY <2>1, <2>2, AttendedKeys
<1>4. ASSUME NEW timer \in Timers, Expire(timer)
      PROVE  Attended'
  BY <1>4, AttendedKeys
<1>5. CASE Start
  <2>1. "retry" \in Timers
    BY DEF Timers
  <2>2. QED
    BY <1>5, <2>1, AttendedKeys
<1>6. CASE PowerLoss
  BY <1>0, <1>6, AttendedPowerLoss
<1>7. ASSUME NEW d \in scenario.others, OtherPairs(d)
      PROVE  Attended'
  BY <1>m, <1>7, AttendedOthers
<1>8. CASE UNCHANGED vars
  BY <1>8, AttendedStutter
<1>9. QED
  BY <1>1, <1>2, <1>3, <1>4, <1>5, <1>6, <1>7, <1>8 DEF Next

(* Accounts, Registered and Attended hold in every state.                    *)
LEMMA AlwaysAttended == SafeSpec => [](Accounts /\ Registered /\ Attended)
<1>1. Init => Accounts /\ Registered /\ Attended
  BY AccountsInit, RegisteredReset, AttendedInit DEF Init
<1>2. QED
  BY <1>1, AccountsStep, RegisteredStep, AttendedStep, PTL DEF SafeSpec

(* No failed pairing uses up a bond slot: every bond with a mouse is the     *)
(* registered one's, or goes with its attempt's connection, unless bt_unpair *)
(* fails or power is lost (disconnected_work_cb, forget_peer).               *)
THEOREM NoBondIsOrphaned == SafeSpec => []NoOrphanBond
<1>1. Attended => NoOrphanBond
  BY DEF Attended, BondsAccounted, NoOrphanBond
<1>2. QED
  BY <1>1, AlwaysAttended, PTL

(* An attempt is never left alone: its timeout is armed, the worker has work *)
(* to do, or the host is ending the connection; a ready client's link is up  *)
(* (connect_mouse, failure_work_cb, disconnected_cb, finish_ready).          *)
THEOREM AttemptsAreWatched == SafeSpec => []AttemptIsWatched
<1>1. Accounts /\ Attended => AttemptIsWatched
  <2> SUFFICES ASSUME Accounts, Attended, mouse_conn # None, "disconnect" \notin Faults,
                      ~WorkerBusy, ~Ending(mouse_conn)
               PROVE  \/ stage # "READY" /\ "timeout" \in timers
                      \/ stage = "READY" /\ link[mouse_conn] = "up" /\ ~failure
    BY DEF AttemptIsWatched
  <2>1. pc = "idle" /\ \A x : ~Queued(x)
    BY EmptySeq DEF WorkerBusy, Queued, Holds
  <2>2. ~Handled
    BY <2>1 DEF Handled, TearingDown
  <2>3. ~failure /\ stage # "CLOSING"
    BY <2>1, <2>2 DEF Attended, Watched
  <2>4. CASE stage = "READY"
    BY <2>1, <2>3, <2>4 DEF Attended, Watched, LateStages, TearingDown, Ending
  <2>5. CASE stage # "READY"
    BY <2>1, <2>3, <2>5 DEF Attended, Watched
  <2>6. QED
    BY <2>4, <2>5
<1>2. QED
  BY <1>1, AlwaysAttended, PTL

(* A client with a mouse to find, or a pairing window open, is looking for   *)
(* it or will try again, and the window has its end scheduled                *)
(* (request_retry, retry_work_cb, pair_work_cb).                             *)
THEOREM AlwaysLooking == SafeSpec => []KeepsLooking
<1>1. Attended => KeepsLooking
  <2> SUFFICES ASSUME Attended, ~WorkerBusy
               PROVE  KeepsLooking
    BY DEF KeepsLooking
  <2>1. pc = "idle" /\ \A x : ~Queued(x)
    BY EmptySeq DEF WorkerBusy, Queued, Holds
  <2>2. QED
    BY <2>1 DEF Attended, Looking, KeepsLooking, Connecting, Forgetting
<1>2. QED
  BY <1>1, AlwaysAttended, PTL

--------------------------------------------------------------------------------
(* The output's sessions (Receiver).  From READY on, and as long as a        *)
(* disconnect call is owed, the client keeps its connection and does nothing *)
(* that could make it ready again.                                           *)
Serving == stage = "READY" \/ delivered

Served ==
    Serving =>
        /\ mouse_conn # None /\ stage \in {"READY", "CLOSING"}
        /\ mouse_conn \notin auto_connect /\ link[mouse_conn] \in {"up", "closing", "down"}
        /\ connected_event_conn = None /\ gatt = NoRequest
        /\ pc \notin {"completed", "secure", "request", "secured", "count", "save", "ready"}
        /\ pc = "discover" => local = "READY"

(* What Record says, without the steps' names.                               *)
Recorded ==
    /\ delivered' \in BOOLEAN
    /\ delivered' => delivered \/ Accepting'
    /\ Release => ~delivered'

(* Served goes on, and a session that is lost is not resumed.                *)
SessionStep ==
    /\ Served'
    /\ delivered /\ delivered' /\ ~Accepting => ~Accepting'

(* The timers' and the keys' handlers.                                       *)
LEMMA SessionTimers ==
  ASSUME Accounts, Served, Recorded,
         RetryHandler \/ TimeoutHandler \/ PairTimeoutHandler \/ PairHandler \/ ClearHandler
  PROVE  SessionStep
<1>i. /\ TypeOK /\ ConnectingHolds /\ ConnectionHolds /\ EventAccounted /\ LinksAccounted
      /\ LinkSettled /\ OneRequest
  BY DEF Accounts
<1>none. None \notin Mice
  BY ClientAssumption
<1> USE DEF candidateVars, peerVars, userVars, eventVars, keptVars, workerVars, queueVars,
            stepVars, linkVars, hostVars, clientVars,
            Stages, Links, Securities, Handlers, Timers, Profiles, Faults
<1> USE DEF TypeOK, ConnectingHolds, ConnectionHolds, EventAccounted, LinksAccounted, LinkSettled,
            OneRequest, Connecting, Finishing, TearingDown, Forgetting, EarlyStages, LateStages,
            EventOnWay
<1> USE DEF SessionStep, Recorded, Served, Serving, Accepting, Accepts
<1> USE DEF owns, valid_callback, Fail, next_stage, Submit, RequestRetry, RetryWork, RetryWanted,
            AutoOff, Unpair, LetGo, ForgetDone, ConnectFailed, SecurityChanged, Connected,
            Refused, Answer, Ignored, Failed, Advance, Request, DiscoverStep
<1>1. CASE RetryHandler
  <2>1. pc = "idle" /\ Queued("retry")
    BY <1>1, QueueHead DEF Accounts, RetryHandler
  <2>2. QED
    BY <1>1, <1>i, <1>none, <2>1 DEF RetryHandler
<1>2. CASE TimeoutHandler
  <2>1. pc = "idle" /\ Queued("timeout")
    BY <1>2, QueueHead DEF Accounts, TimeoutHandler
  <2>2. QED
    BY <1>2, <1>i, <1>none, <2>1 DEF TimeoutHandler
<1>3. CASE PairTimeoutHandler
  <2>1. pc = "idle" /\ Queued("pair_timeout")
    BY <1>3, QueueHead DEF Accounts, PairTimeoutHandler
  <2>2. QED
    BY <1>3, <1>i, <1>none, <2>1 DEF PairTimeoutHandler, AbandonsCandidate
<1>4. CASE PairHandler
  <2>1. pc = "idle" /\ Queued("pair")
    BY <1>4, QueueHead DEF Accounts, PairHandler
  <2>2. QED
    BY <1>4, <1>i, <1>none, <2>1 DEF PairHandler
<1>5. CASE ClearHandler
  <2>1. pc = "idle" /\ Queued("clear")
    BY <1>5, QueueHead DEF Accounts, ClearHandler
  <2>2. QED
    BY <1>5, <1>i, <1>none, <2>1 DEF ClearHandler
<1>6. QED
  BY <1>1, <1>2, <1>3, <1>4, <1>5

(* A connection is ended, let go and forgotten.                              *)
LEMMA SessionEnding ==
  ASSUME Accounts, Served, Recorded,
         FailureHandler \/ DisconnectedHandler \/ Teardown \/ Release \/ Forget \/ Delete
  PROVE  SessionStep
<1>i. /\ TypeOK /\ ConnectingHolds /\ ConnectionHolds /\ EventAccounted /\ LinksAccounted
      /\ LinkSettled /\ OneRequest
  BY DEF Accounts
<1>none. None \notin Mice
  BY ClientAssumption
<1> USE DEF candidateVars, peerVars, userVars, eventVars, keptVars, workerVars, queueVars,
            stepVars, linkVars, hostVars, clientVars,
            Stages, Links, Securities, Handlers, Timers, Profiles, Faults
<1> USE DEF TypeOK, ConnectingHolds, ConnectionHolds, EventAccounted, LinksAccounted, LinkSettled,
            OneRequest, Connecting, Finishing, TearingDown, Forgetting, EarlyStages, LateStages,
            EventOnWay
<1> USE DEF SessionStep, Recorded, Served, Serving, Accepting, Accepts
<1> USE DEF owns, valid_callback, Fail, next_stage, Submit, RequestRetry, RetryWork, RetryWanted,
            AutoOff, Unpair, LetGo, ForgetDone, ConnectFailed, SecurityChanged, Connected,
            Refused, Answer, Ignored, Failed, Advance, Request, DiscoverStep
<1>1. CASE FailureHandler
  <2>1. pc = "idle" /\ Queued("failure")
    BY <1>1, QueueHead DEF Accounts, FailureHandler
  <2>2. QED
    BY <1>1, <1>i, <1>none, <2>1 DEF FailureHandler, NotConnected, KeepsUp
<1>2. CASE DisconnectedHandler
  <2>1. pc = "idle" /\ Queued("disconnected")
    BY <1>2, QueueHead DEF Accounts, DisconnectedHandler
  <2>2. QED
    BY <1>2, <1>i, <1>none, <2>1 DEF DisconnectedHandler
<1>3. CASE Teardown
  BY <1>3, <1>i, <1>none DEF Teardown, RemovesCandidateBond
<1>4. CASE Release
  BY <1>4, <1>i, <1>none DEF Release
<1>5. CASE Forget
  BY <1>5, <1>i, <1>none DEF Forget, have_peer
<1>6. CASE Delete
  BY <1>6, <1>i, <1>none DEF Delete
<1>7. QED
  BY <1>1, <1>2, <1>3, <1>4, <1>5, <1>6

(* connect_work_cb and connect_mouse.                                        *)
LEMMA SessionConnecting ==
  ASSUME Accounts, Served, Recorded,
         ConnectHandler \/ AutoConnect \/ Lookup
  PROVE  SessionStep
<1>i. /\ TypeOK /\ ConnectingHolds /\ ConnectionHolds /\ EventAccounted /\ LinksAccounted
      /\ LinkSettled /\ OneRequest
  BY DEF Accounts
<1>none. None \notin Mice
  BY ClientAssumption
<1> USE DEF candidateVars, peerVars, userVars, eventVars, keptVars, workerVars, queueVars,
            stepVars, linkVars, hostVars, clientVars,
            Stages, Links, Securities, Handlers, Timers, Profiles, Faults
<1> USE DEF TypeOK, ConnectingHolds, ConnectionHolds, EventAccounted, LinksAccounted, LinkSettled,
            OneRequest, Connecting, Finishing, TearingDown, Forgetting, EarlyStages, LateStages,
            EventOnWay
<1> USE DEF SessionStep, Recorded, Served, Serving, Accepting, Accepts
<1> USE DEF owns, valid_callback, Fail, next_stage, Submit, RequestRetry, RetryWork, RetryWanted,
            AutoOff, Unpair, LetGo, ForgetDone, ConnectFailed, SecurityChanged, Connected,
            Refused, Answer, Ignored, Failed, Advance, Request, DiscoverStep
<1>1. CASE ConnectHandler
  <2>1. pc = "idle" /\ Queued("connect")
    BY <1>1, QueueHead DEF Accounts, ConnectHandler
  <2>2. QED
    BY <1>1, <1>i, <1>none, <2>1
       DEF ConnectHandler, MayConnect, NoFreeBond, NoSession, NoProfile
<1>2. CASE AutoConnect
  BY <1>2, <1>i, <1>none DEF AutoConnect
<1>3. CASE Lookup
  BY <1>3, <1>i, <1>none DEF Lookup
<1>4. QED
  BY <1>1, <1>2, <1>3

(* connected_work_cb.                                                        *)
LEMMA SessionSecuring ==
  ASSUME Accounts, Served, Recorded,
         ConnectedHandler \/ EventTaken \/ Completed \/ Secure \/ RequestSecurity \/ Secured
  PROVE  SessionStep
<1>i. /\ TypeOK /\ ConnectingHolds /\ ConnectionHolds /\ EventAccounted /\ LinksAccounted
      /\ LinkSettled /\ OneRequest
  BY DEF Accounts
<1>none. None \notin Mice
  BY ClientAssumption
<1> USE DEF candidateVars, peerVars, userVars, eventVars, keptVars, workerVars, queueVars,
            stepVars, linkVars, hostVars, clientVars,
            Stages, Links, Securities, Handlers, Timers, Profiles, Faults
<1> USE DEF TypeOK, ConnectingHolds, ConnectionHolds, EventAccounted, LinksAccounted, LinkSettled,
            OneRequest, Connecting, Finishing, TearingDown, Forgetting, EarlyStages, LateStages,
            EventOnWay
<1> USE DEF SessionStep, Recorded, Served, Serving, Accepting, Accepts
<1> USE DEF owns, valid_callback, Fail, next_stage, Submit, RequestRetry, RetryWork, RetryWanted,
            AutoOff, Unpair, LetGo, ForgetDone, ConnectFailed, SecurityChanged, Connected,
            Refused, Answer, Ignored, Failed, Advance, Request, DiscoverStep
<1>1. CASE ConnectedHandler
  <2>1. pc = "idle" /\ Queued("connected")
    BY <1>1, QueueHead DEF Accounts, ConnectedHandler
  <2>2. QED
    BY <1>1, <1>i, <1>none, <2>1 DEF ConnectedHandler
<1>2. CASE EventTaken
  BY <1>2, <1>i, <1>none DEF EventTaken
<1>3. CASE Completed
  BY <1>3, <1>i, <1>none DEF Completed
<1>4. CASE Secure
  BY <1>4, <1>i, <1>none DEF Secure
<1>5. CASE RequestSecurity
  BY <1>5, <1>i, <1>none DEF RequestSecurity
<1>6. CASE Secured
  BY <1>6, <1>i, <1>none DEF Secured
<1>7. QED
  BY <1>1, <1>2, <1>3, <1>4, <1>5, <1>6

(* discovery_work_cb and finish_ready.                                       *)
LEMMA SessionDiscovery ==
  ASSUME Accounts, Served, Recorded,
         DiscoveryHandler \/ DiscoverList \/ DiscoverReferences \/ DiscoverProtocol
         \/ DiscoverSubscriptions \/ FinishReady \/ SavePeer \/ BecomeReady
  PROVE  SessionStep
<1>i. /\ TypeOK /\ ConnectingHolds /\ ConnectionHolds /\ EventAccounted /\ LinksAccounted
      /\ LinkSettled /\ OneRequest
  BY DEF Accounts
<1>none. None \notin Mice
  BY ClientAssumption
<1> USE DEF candidateVars, peerVars, userVars, eventVars, keptVars, workerVars, queueVars,
            stepVars, linkVars, hostVars, clientVars,
            Stages, Links, Securities, Handlers, Timers, Profiles, Faults
<1> USE DEF TypeOK, ConnectingHolds, ConnectionHolds, EventAccounted, LinksAccounted, LinkSettled,
            OneRequest, Connecting, Finishing, TearingDown, Forgetting, EarlyStages, LateStages,
            EventOnWay
<1> USE DEF SessionStep, Recorded, Served, Serving, Accepting, Accepts
<1> USE DEF owns, valid_callback, Fail, next_stage, Submit, RequestRetry, RetryWork, RetryWanted,
            AutoOff, Unpair, LetGo, ForgetDone, ConnectFailed, SecurityChanged, Connected,
            Refused, Answer, Ignored, Failed, Advance, Request, DiscoverStep
<1>1. CASE DiscoveryHandler
  <2>1. pc = "idle" /\ Queued("discovery")
    BY <1>1, QueueHead DEF Accounts, DiscoveryHandler
  <2>2. QED
    BY <1>1, <1>i, <1>none, <2>1 DEF DiscoveryHandler
<1>2. CASE DiscoverList
  BY <1>2, <1>i, <1>none DEF DiscoverList
<1>3. CASE DiscoverReferences
  BY <1>3, <1>i, <1>none DEF DiscoverReferences
<1>4. CASE DiscoverProtocol
  BY <1>4, <1>i, <1>none DEF DiscoverProtocol
<1>5. CASE DiscoverSubscriptions
  BY <1>5, <1>i, <1>none DEF DiscoverSubscriptions
<1>6. CASE FinishReady
  BY <1>6, <1>i, <1>none DEF FinishReady, CandidateNotBonded
<1>7. CASE SavePeer
  BY <1>7, <1>i, <1>none DEF SavePeer
<1>8. CASE BecomeReady
  BY <1>8, <1>i, <1>none DEF BecomeReady
<1>9. QED
  BY <1>1, <1>2, <1>3, <1>4, <1>5, <1>6, <1>7, <1>8

(* What the host reports of a device.                                        *)
LEMMA SessionRadio ==
  ASSUME Accounts, Served, Recorded,
         NEW m \in Mice,
         LinkUp(m) \/ LinkRefused(m) \/ LinkLost(m) \/ Encrypted(m) \/ PairingStarts(m)
         \/ PairingEncrypts(m) \/ PairingCompletes(m) \/ SecurityFails(m) \/ NotifyEnds(m)
         \/ Advertises(m)
  PROVE  SessionStep
<1>i. /\ TypeOK /\ ConnectingHolds /\ ConnectionHolds /\ EventAccounted /\ LinksAccounted
      /\ LinkSettled /\ OneRequest
  BY DEF Accounts
<1>none. None \notin Mice
  BY ClientAssumption
<1> USE DEF candidateVars, peerVars, userVars, eventVars, keptVars, workerVars, queueVars,
            stepVars, linkVars, hostVars, clientVars,
            Stages, Links, Securities, Handlers, Timers, Profiles, Faults
<1> USE DEF TypeOK, ConnectingHolds, ConnectionHolds, EventAccounted, LinksAccounted, LinkSettled,
            OneRequest, Connecting, Finishing, TearingDown, Forgetting, EarlyStages, LateStages,
            EventOnWay
<1> USE DEF SessionStep, Recorded, Served, Serving, Accepting, Accepts
<1> USE DEF owns, valid_callback, Fail, next_stage, Submit, RequestRetry, RetryWork, RetryWanted,
            AutoOff, Unpair, LetGo, ForgetDone, ConnectFailed, SecurityChanged, Connected,
            Refused, Answer, Ignored, Failed, Advance, Request, DiscoverStep
<1>1. CASE LinkUp(m)
  BY <1>1, <1>i, <1>none DEF LinkUp, KeepsUp
<1>2. CASE LinkRefused(m)
  BY <1>2, <1>i, <1>none DEF LinkRefused, KeepsUp
<1>3. CASE LinkLost(m)
  BY <1>3, <1>i, <1>none DEF LinkLost, NoRequest, LastAnswers
<1>4. CASE Encrypted(m)
  BY <1>4, <1>i, <1>none DEF Encrypted
<1>5. CASE PairingStarts(m)
  BY <1>5, <1>i, <1>none DEF PairingStarts, legacy_pairing_allowed
<1>6. CASE PairingEncrypts(m)
  BY <1>6, <1>i, <1>none DEF PairingEncrypts
<1>7. CASE PairingCompletes(m)
  BY <1>7, <1>i, <1>none DEF PairingCompletes
<1>8. CASE SecurityFails(m)
  BY <1>8, <1>i, <1>none DEF SecurityFails, legacy_pairing_allowed
<1>9. CASE NotifyEnds(m)
  BY <1>9, <1>i, <1>none DEF NotifyEnds
<1>10. CASE Advertises(m)
  BY <1>10, <1>i, <1>none DEF Advertises
<1>11. QED
  BY <1>1, <1>2, <1>3, <1>4, <1>5, <1>6, <1>7, <1>8, <1>9, <1>10

(* GATT answers.                                                             *)
LEMMA SessionAnswers ==
  ASSUME Accounts, Served, Recorded,
         NEW found \in BOOLEAN, NEW profile \in Profiles, NEW ok \in BOOLEAN,
         DiscoverCb(found, profile) \/ ReadCb(ok) \/ WrittenCb(ok) \/ SubscribedCb(ok)
  PROVE  SessionStep
<1>i. /\ TypeOK /\ ConnectingHolds /\ ConnectionHolds /\ EventAccounted /\ LinksAccounted
      /\ LinkSettled /\ OneRequest
  BY DEF Accounts
<1>none. None \notin Mice
  BY ClientAssumption
<1> USE DEF candidateVars, peerVars, userVars, eventVars, keptVars, workerVars, queueVars,
            stepVars, linkVars, hostVars, clientVars,
            Stages, Links, Securities, Handlers, Timers, Profiles, Faults
<1> USE DEF TypeOK, ConnectingHolds, ConnectionHolds, EventAccounted, LinksAccounted, LinkSettled,
            OneRequest, Connecting, Finishing, TearingDown, Forgetting, EarlyStages, LateStages,
            EventOnWay
<1> USE DEF SessionStep, Recorded, Served, Serving, Accepting, Accepts
<1> USE DEF owns, valid_callback, Fail, next_stage, Submit, RequestRetry, RetryWork, RetryWanted,
            AutoOff, Unpair, LetGo, ForgetDone, ConnectFailed, SecurityChanged, Connected,
            Refused, Answer, Ignored, Failed, Advance, Request, DiscoverStep
<1>1. CASE DiscoverCb(found, profile)
  BY <1>1, <1>i, <1>none DEF DiscoverCb, NoRequest, Usable
<1>2. CASE ReadCb(ok)
  BY <1>2, <1>i, <1>none DEF ReadCb, NoRequest
<1>3. CASE WrittenCb(ok)
  BY <1>3, <1>i, <1>none DEF WrittenCb, NoRequest
<1>4. CASE SubscribedCb(ok)
  BY <1>4, <1>i, <1>none DEF SubscribedCb, NoRequest
<1>5. QED
  BY <1>1, <1>2, <1>3, <1>4

(* Keys, timers, and the boot.                                               *)
LEMMA SessionKeys ==
  ASSUME Accounts, Served, Recorded,
         NEW pressed \in BOOLEAN, NEW timer \in Timers,
         PairPressed \/ ClearHold(pressed) \/ Expire(timer) \/ Start
  PROVE  SessionStep
<1>i. /\ TypeOK /\ ConnectingHolds /\ ConnectionHolds /\ EventAccounted /\ LinksAccounted
      /\ LinkSettled /\ OneRequest
  BY DEF Accounts
<1>none. None \notin Mice
  BY ClientAssumption
<1> USE DEF candidateVars, peerVars, userVars, eventVars, keptVars, workerVars, queueVars,
            stepVars, linkVars, hostVars, clientVars,
            Stages, Links, Securities, Handlers, Timers, Profiles, Faults
<1> USE DEF TypeOK, ConnectingHolds, ConnectionHolds, EventAccounted, LinksAccounted, LinkSettled,
            OneRequest, Connecting, Finishing, TearingDown, Forgetting, EarlyStages, LateStages,
            EventOnWay
<1> USE DEF SessionStep, Recorded, Served, Serving, Accepting, Accepts
<1> USE DEF owns, valid_callback, Fail, next_stage, Submit, RequestRetry, RetryWork, RetryWanted,
            AutoOff, Unpair, LetGo, ForgetDone, ConnectFailed, SecurityChanged, Connected,
            Refused, Answer, Ignored, Failed, Advance, Request, DiscoverStep
<1>1. CASE PairPressed
  BY <1>1, <1>i, <1>none DEF PairPressed
<1>2. CASE ClearHold(pressed)
  BY <1>2, <1>i, <1>none DEF ClearHold
<1>3. CASE Expire(timer)
  BY <1>3, <1>i, <1>none DEF Expire
<1>4. CASE Start
  BY <1>4, <1>i, <1>none DEF Start
<1>5. QED
  BY <1>1, <1>2, <1>3, <1>4

(* Other devices.                                                            *)
LEMMA SessionOthers ==
  ASSUME Accounts, Served, Recorded,
         NEW d \in Others,
         OtherPairs(d)
  PROVE  SessionStep
<1>i. /\ TypeOK /\ ConnectingHolds /\ ConnectionHolds /\ EventAccounted /\ LinksAccounted
      /\ LinkSettled /\ OneRequest
  BY DEF Accounts
<1>none. None \notin Mice
  BY ClientAssumption
<1> USE DEF candidateVars, peerVars, userVars, eventVars, keptVars, workerVars, queueVars,
            stepVars, linkVars, hostVars, clientVars,
            Stages, Links, Securities, Handlers, Timers, Profiles, Faults
<1> USE DEF TypeOK, ConnectingHolds, ConnectionHolds, EventAccounted, LinksAccounted, LinkSettled,
            OneRequest, Connecting, Finishing, TearingDown, Forgetting, EarlyStages, LateStages,
            EventOnWay
<1> USE DEF SessionStep, Recorded, Served, Serving, Accepting, Accepts
<1> USE DEF owns, valid_callback, Fail, next_stage, Submit, RequestRetry, RetryWork, RetryWanted,
            AutoOff, Unpair, LetGo, ForgetDone, ConnectFailed, SecurityChanged, Connected,
            Refused, Answer, Ignored, Failed, Advance, Request, DiscoverStep
<1>1. CASE OtherPairs(d)
  BY <1>1, <1>i, <1>none DEF OtherPairs
<1>2. QED
  BY <1>1

LEMMA SessionSteps ==
  ASSUME Accounts, Served, Recorded, Next, ~PowerLoss
  PROVE  SessionStep
<1>0. TypeOK
  BY DEF Accounts
<1>m. /\ scenario.mice \subseteq Mice /\ scenario.others \subseteq Others
      /\ Profiles = scenario.profiles /\ Profiles # {}
  BY <1>0, ClientAssumption DEF TypeOK, Profiles
<1>1. CASE Worker
  BY <1>1, SessionTimers, SessionEnding, SessionConnecting, SessionSecuring,
     SessionDiscovery DEF Worker
<1>2. CASE Radio
  <2>1. ASSUME NEW m \in scenario.mice,
               \/ LinkUp(m) \/ LinkRefused(m) \/ LinkLost(m)
               \/ Encrypted(m) \/ PairingStarts(m) \/ PairingEncrypts(m) \/ PairingCompletes(m)
               \/ SecurityFails(m) \/ NotifyEnds(m) \/ Advertises(m)
        PROVE  SessionStep
    BY <1>m, <2>1, SessionRadio
  <2>2. ASSUME GattAnswers
        PROVE  SessionStep
    <3>1. ASSUME NEW found \in BOOLEAN, NEW profile \in Profiles, DiscoverCb(found, profile)
          PROVE  SessionStep
      BY <3>1, SessionAnswers
    <3>2. ASSUME NEW ok \in BOOLEAN, ReadCb(ok) \/ WrittenCb(ok) \/ SubscribedCb(ok)
          PROVE  SessionStep
      BY <1>m, <3>2, SessionAnswers
    <3>3. QED
      BY <2>2, <3>1, <3>2 DEF GattAnswers
  <2>3. QED
    BY <1>2, <2>1, <2>2 DEF Radio
<1>3. CASE User
  <2>1. PairPressed \/ ClearHold(TRUE) \/ ClearHold(FALSE)
    BY <1>3 DEF User, Pressed, Released
  <2>2. "retry" \in Timers
    BY DEF Timers
  <2>3. QED
    BY <2>1, <2>2, SessionKeys
<1>4. ASSUME NEW timer \in Timers, Expire(timer)
      PROVE  SessionStep
  BY <1>4, SessionKeys
<1>5. CASE Start
  <2>1. "retry" \in Timers
    BY DEF Timers
  <2>2. QED
    BY <1>5, <2>1, SessionKeys
<1>6. ASSUME NEW d \in scenario.others, OtherPairs(d)
      PROVE  SessionStep
  BY <1>m, <1>6, SessionOthers
<1>7. QED
  BY <1>1, <1>2, <1>3, <1>4, <1>5, <1>6 DEF Next

SessionInv ==
    /\ delivered \in BOOLEAN
    /\ Served
    /\ Accepting => delivered

(* The disconnect call comes when no report is accepted.                     *)
LEMMA DisconnectApart ==
  ASSUME Accounts, DisconnectCalled
  PROVE  ~Accepting /\ ~Accepting'
<1>i. TypeOK /\ ConnectionHolds /\ LinksAccounted
  BY DEF Accounts
<1>1. CASE Release
  <2>1. mouse_conn' = None
    BY <1>1 DEF Release, LetGo
  <2>2. link[mouse_conn] = "down"
    BY <1>1, <1>i DEF Release, LinksAccounted, TearingDown
  <2>3. QED
    BY <2>1, <2>2, ClientAssumption DEF Accepting, Accepts, valid_callback, owns
<1>2. CASE Delete \/ Forget
  <2>1. mouse_conn = None
    BY <1>2, <1>i DEF Delete, Forget, have_peer, ConnectionHolds, Forgetting
  <2>2. mouse_conn' = None
    BY <1>2, <2>1 DEF Delete, Forget, have_peer
  <2>3. QED
    BY <2>1, <2>2, ClientAssumption DEF Accepting, Accepts, valid_callback, owns
<1>3. QED
  BY <1>1, <1>2 DEF DisconnectCalled

(* With the power the session is gone.                                       *)
LEMMA SessionPowerLoss ==
  ASSUME PowerLoss, delivered' = FALSE
  PROVE  SessionInv' /\ (OutputSession = "down")'
<1>1. stage' = "IDLE"
  BY DEF PowerLoss
<1>2. QED
  BY <1>1 DEF SessionInv, Served, Serving, Accepting, Accepts, OutputSession

(* One step of the client is a step of the contract, or none, while power    *)
(* stays on.                                                                 *)
LEMMA SessionKept ==
  ASSUME Accounts, SessionInv, [ReceiverNext]_allVars, ~PowerLoss
  PROVE  SessionInv' /\ [Contract!Next]_OutputSession
<1> USE DEF OutputSession, Contract!Next, Contract!Open, Contract!Lose, Contract!Disconnect
<1>1. CASE ReceiverNext
  <2>1. delivered' = IF DisconnectCalled THEN FALSE ELSE delivered \/ Accepting'
    BY <1>1 DEF ReceiverNext, Record
  <2>2. Recorded
    BY <2>1 DEF SessionInv, Recorded, DisconnectCalled
  <2>3. SessionStep
    BY <1>1, <2>2, SessionSteps DEF SessionInv, ReceiverNext
  <2>4. CASE DisconnectCalled
    BY <2>1, <2>3, <2>4, DisconnectApart DEF SessionInv, SessionStep
  <2>5. CASE ~DisconnectCalled
    <3>1. SessionInv'
      BY <2>1, <2>2, <2>3, <2>5 DEF SessionInv, SessionStep, Recorded
    <3>2. CASE ~delivered
      BY <2>1, <2>5, <3>1, <3>2 DEF SessionInv
    <3>3. CASE delivered
      BY <2>1, <2>3, <2>5, <3>1, <3>3 DEF SessionStep
    <3>4. QED
      BY <3>1, <3>2, <3>3
  <2>6. QED
    BY <2>4, <2>5
<1>2. CASE UNCHANGED allVars
  <2>1. UNCHANGED <<delivered, stage, failure, mouse_conn, link, auto_connect, gatt,
                    connected_event_conn, pc, local>>
    BY <1>2 DEF allVars, vars, clientVars, keptVars, candidateVars, peerVars, userVars, eventVars,
       workerVars, queueVars, linkVars, hostVars
  <2>2. Accepting' <=> Accepting
    BY <2>1 DEF Accepting, Accepts, valid_callback, owns
  <2>3. SessionInv'
    BY <2>1, <2>2 DEF SessionInv, Served, Serving
  <2>4. QED
    BY <2>1, <2>2, <2>3
<1>3. QED
  BY <1>1, <1>2

(* A step that is none changes no budget.                                    *)
LEMMA PowerLossIsAStep ==
  ASSUME Accounts, PowerLoss, [ReceiverNext]_allVars
  PROVE  delivered' = FALSE
<1>1. budget # budget'
  BY DEF PowerLoss, Accounts, TypeOK
<1>2. ReceiverNext
  BY <1>1 DEF allVars, vars, keptVars, userVars
<1>3. QED
  BY <1>2 DEF ReceiverNext, Record

(* Before the first step there is no session.                                *)
LEMMA SessionInit == ReceiverInit => Init /\ SessionInv /\ Contract!Init
<1> SUFFICES ASSUME ReceiverInit
             PROVE  Init /\ SessionInv /\ Contract!Init
  OBVIOUS
<1>1. stage = "IDLE" /\ ~delivered /\ delivered \in BOOLEAN
  BY DEF ReceiverInit, Init, RamCleared
<1>2. QED
  BY <1>1 DEF ReceiverInit, SessionInv, Served, Serving, Accepting, Accepts, OutputSession,
     Contract!Init

(* The client keeps to the contract that MouseOutput relies on, whatever     *)
(* fails: a session that was lost is not resumed, and the disconnect call    *)
(* comes between its last report and the first of the next (notify_cb,       *)
(* finish_ready, disconnected_work_cb, forget_peer).  A power loss ends the  *)
(* output with the client, and the contract begins anew.                     *)
THEOREM ClientKeepsContract ==
  ReceiverSpec =>
      /\ Contract!Init
      /\ [][Contract!Next \/ (PowerLoss /\ (OutputSession = "down")')]_OutputSession
<1>1. [ReceiverNext]_allVars => [Next]_vars
  BY DEF ReceiverNext, allVars
<1>2. Accounts /\ SessionInv /\ [ReceiverNext]_allVars
        => SessionInv' /\ [Contract!Next \/ (PowerLoss /\ (OutputSession = "down")')]_OutputSession
  BY SessionKept, SessionPowerLoss, PowerLossIsAStep
<1>3. QED
  BY <1>1, <1>2, SessionInit, AlwaysAttended, PTL DEF ReceiverSpec, SafeSpec

(* The safety half of ImplementsSession: while power stays on, every         *)
(* behaviour of the client is one of MouseSession (PowerLoss is the only     *)
(* step that the contract does not know).                                    *)
THEOREM ClientImplementsContract ==
  ASSUME \A s \in Scenarios : s.budget.power = 0
  PROVE  ReceiverSpec => Contract!SafeSpec
<1>1. [ReceiverNext]_allVars => [Next]_vars
  BY DEF ReceiverNext, allVars
<1>2. Accounts /\ Attended /\ [ReceiverNext]_allVars => ~PowerLoss
  <2>1. SUFFICES ASSUME Accounts, Attended, PowerLoss PROVE FALSE
    OBVIOUS
  <2>2. scenario.budget.power = 0 /\ budget.power \in Nat
    BY <2>1 DEF Accounts, TypeOK
  <2>3. ~(budget.power > 0)
    BY <2>1, <2>2 DEF Attended, BondsAccounted
  <2>4. QED
    BY <2>1, <2>3 DEF PowerLoss
<1>3. Accounts /\ SessionInv /\ [ReceiverNext]_allVars /\ ~PowerLoss
        => SessionInv' /\ [Contract!Next]_OutputSession
  BY SessionKept
<1>4. QED
  BY <1>1, <1>2, <1>3, SessionInit, AlwaysAttended, PTL
     DEF ReceiverSpec, SafeSpec, Contract!SafeSpec

================================================================================
