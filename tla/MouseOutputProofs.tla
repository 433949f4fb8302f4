--------------------------- MODULE MouseOutputProofs ---------------------------
(***************************************************************************)
(* Proofs about MouseOutput, for any set of buttons, queue size, motions   *)
(* and packet limits.                                                      *)
(***************************************************************************)
EXTENDS MouseOutput, TLAPS

USE DEF sharedVars, workerVars, workerFrame, At, NothingToReport, WorkerFree

(* The button state keeps its type, and its edges are sets of buttons.       *)
LEMMA ButtonsTyped ==
    ASSUME NEW state \in ButtonStates(Buttons), NEW held \in SUBSET Buttons
    PROVE  /\ MouseButtonsUpdate(state, held) \in ButtonStates(Buttons)
           /\ MouseButtonsReset(held) \in ButtonStates(Buttons)
           /\ PressEdges(state, held) \in SUBSET Buttons
           /\ ReleaseEdges(state, held) \in SUBSET Buttons
  BY DEF ButtonStates, MouseButtonsUpdate, MouseButtonsReset, PressEdges, ReleaseEdges,
         StillSuppressed

(* A packet's motion and what is left after it are motions.                  *)
LEMMA MotionTyped ==
    ASSUME NEW delta \in [Axes -> Int]
    PROVE  Clamped(delta) \in [Axes -> Int] /\ Remaining(delta) \in [Axes -> Int]
  BY OutputAssumption DEF Clamped, Remaining, Clamp

(* Splitting a motion loses nothing: the packet and the rest make the whole. *)
LEMMA SplitAddsUp ==
    ASSUME NEW delta \in [Axes -> Int], NEW a \in Axes
    PROVE  Clamped(delta)[a] + Remaining(delta)[a] = delta[a]
<1>1. Clamped(delta)[a] \in Int
  BY MotionTyped
<1> QED
  BY <1>1 DEF Remaining

(* No motion is a motion.                                                    *)
LEMMA StillTyped == Still \in [Axes -> Int]
  BY DEF Still

(* k_msgq_purge leaves a queue within its bound.                             *)
LEMMA PurgedTyped == << >> \in Seq(Inputs) /\ Len(<< >>) <= QueueSize
  BY OutputAssumption

(* apply_pending_reset keeps the types of what it writes.                    *)
LEMMA ApplyTyped ==
    ASSUME TypeOK, ApplyPendingReset
    PROVE  /\ reset_pending' \in BOOLEAN
           /\ buttons' \in ButtonStates(Buttons)
           /\ packet' \in [press : SUBSET Buttons, release : SUBSET Buttons,
                           move : [Axes -> Int]]
<1>1. CASE reset_pending
  BY <1>1, ButtonsTyped, StillTyped
  DEF TypeOK, ApplyPendingReset, NoPacket, ButtonStates
<1>2. CASE ~reset_pending
  BY <1>2 DEF TypeOK, ApplyPendingReset
<1> QED
  BY <1>1, <1>2

(* Everything is of its type before the queue is started.                    *)
LEMMA InitTyped == Init => TypeOK
<1> SUFFICES ASSUME Init
             PROVE  TypeOK
  OBVIOUS
<1>1. input \in Inputs
  BY StillTyped DEF Init, NoInput, Inputs
<1>2. packet \in [press : SUBSET Buttons, release : SUBSET Buttons, move : [Axes -> Int]]
  BY StillTyped DEF Init, NoPacket
<1>3. buttons \in ButtonStates(Buttons)
  BY DEF Init, NoButtons, ButtonStates
<1>4. rest \in [Axes -> Int] /\ moved \in [Axes -> Int]
  BY StillTyped DEF Init
<1>5. sent \in 0 .. MaxPackets
  BY OutputAssumption DEF Init
<1>6. listener \in [Buttons -> Int]
  BY DEF Init
<1>7. mouse_inputs \in Seq(Inputs) /\ Len(mouse_inputs) <= QueueSize
  BY PurgedTyped DEF Init
<1> QED
  BY <1>1, <1>2, <1>3, <1>4, <1>5, <1>6, <1>7 DEF Init, TypeOK

(* Every action keeps every variable in its type.                            *)
LEMMA NextTyped == TypeOK /\ [Next]_vars => TypeOK'
<1> SUFFICES ASSUME TypeOK, [Next]_vars
             PROVE  TypeOK'
  OBVIOUS
<1> USE OutputAssumption
<1>1. CASE StartQueue
  BY <1>1 DEF StartQueue, TypeOK
<1>2. CASE LinkReady
  BY <1>2 DEF LinkReady, Client!Open, TypeOK
<1>3. CASE LinkLost
  BY <1>3 DEF LinkLost, Client!Lose, TypeOK
<1>4. ASSUME NEW held \in SUBSET Buttons, NEW delta \in Motions, Receive(held, delta)
      PROVE  TypeOK'
  <2>1. CASE QueueFull
    <3>1. RequestReset(held)
      BY <1>4, <2>1 DEF Receive
    <3> QED
      BY <1>4, <3>1, PurgedTyped DEF Receive, RequestReset, SubmitOutput, TypeOK
  <2>2. CASE ~QueueFull
    <3>1. [buttons |-> held, delta |-> delta, epoch |-> stream_epoch] \in Inputs
      BY DEF TypeOK, Inputs
    <3>2. mouse_inputs' = Append(mouse_inputs,
                 [buttons |-> held, delta |-> delta, epoch |-> stream_epoch])
      BY <1>4, <2>2 DEF Receive
    <3>3. mouse_inputs' \in Seq(Inputs) /\ Len(mouse_inputs') = Len(mouse_inputs) + 1
      BY <3>1, <3>2 DEF TypeOK
    <3>4. Len(mouse_inputs') <= QueueSize
      BY <2>2, <3>3 DEF TypeOK, QueueFull
    <3> QED
      BY <1>4, <2>2, <3>3, <3>4 DEF Receive, SubmitOutput, TypeOK
  <2> QED
    BY <2>1, <2>2
<1>5. CASE EndpointChanged
  BY <1>5, PurgedTyped DEF EndpointChanged, RequestReset, SubmitOutput, TypeOK
<1>6. CASE Disconnect
  BY <1>6, PurgedTyped DEF Disconnect, Client!Disconnect, DisconnectStream, RequestReset,
     SubmitOutput, TypeOK
<1>7. CASE Begin
  BY <1>7 DEF Begin, TypeOK
<1>8. CASE ResetFirst
  BY <1>8, ApplyTyped DEF ResetFirst, TypeOK
<1>9. CASE Get
  <2>1. CASE mouse_inputs = << >>
    BY <1>9, <2>1, StillTyped DEF Get, TypeOK
  <2>2. CASE mouse_inputs # << >>
    <3>1. /\ Head(mouse_inputs) \in Inputs
          /\ Tail(mouse_inputs) \in Seq(Inputs)
          /\ Len(Tail(mouse_inputs)) <= QueueSize
      BY <2>2 DEF TypeOK
    <3>2. input' \in Inputs /\ rest' \in [Axes -> Int]
      BY <1>9, <2>2, <3>1 DEF Get, Inputs
    <3>3. mouse_inputs' \in Seq(Inputs) /\ Len(mouse_inputs') <= QueueSize
      BY <1>9, <2>2, <3>1 DEF Get
    <3> QED
      BY <1>9, <2>2, <3>2, <3>3, StillTyped DEF Get, TypeOK
  <2> QED
    BY <2>1, <2>2
<1>10. CASE ResetGot
  BY <1>10, ApplyTyped DEF ResetGot, ResetBeforeFrame, TypeOK
<1>11. CASE Check
  <2>1. CASE Current
    <3>1. input.buttons \in SUBSET Buttons
      BY DEF TypeOK, Inputs
    <3>2. sent' \in 0 .. MaxPackets
      BY <1>11, <2>1 DEF Check, MakePacket, TypeOK
    <3> QED
      BY <1>11, <2>1, <3>1, <3>2, ButtonsTyped, MotionTyped DEF Check, MakePacket, TypeOK
  <2>2. CASE ~Current
    BY <1>11, <2>2 DEF Check, TypeOK
  <2> QED
    BY <2>1, <2>2
<1>12. CASE Frame
  <2>1. CASE FrameDone
    BY <1>12, <2>1 DEF Frame, TypeOK
  <2>2. CASE ~FrameDone
    BY <1>12, <2>2, MotionTyped DEF Frame, FrameDone, MakePacket, TypeOK
  <2> QED
    BY <2>1, <2>2
<1>13. CASE ResetLast
  BY <1>13, ApplyTyped DEF ResetLast, TypeOK
<1>14. CASE ReportKey
  <2>1. PICK b \in packet.press \cup packet.release :
            /\ listener' = [listener EXCEPT ![b] = @ + IF b \in packet.press THEN 1 ELSE -1]
            /\ packet' = [packet EXCEPT !.press = @ \ {b}, !.release = @ \ {b}]
    BY <1>14 DEF ReportKey
  <2>2. b \in Buttons
    BY DEF TypeOK
  <2>3. listener' \in [Buttons -> Int]
    BY <2>1, <2>2 DEF TypeOK
  <2>4. packet' \in [press : SUBSET Buttons, release : SUBSET Buttons, move : [Axes -> Int]]
    BY <2>1 DEF TypeOK
  <2> QED
    BY <1>14, <2>3, <2>4 DEF ReportKey, TypeOK
<1>15. CASE ReportMotion
  <2>1. moved' \in [Axes -> Int]
    BY <1>15 DEF ReportMotion, TypeOK
  <2> QED
    BY <1>15, <2>1, StillTyped DEF ReportMotion, NoPacket, TypeOK
<1>16. CASE UNCHANGED vars
  BY <1>16 DEF vars, TypeOK
<1> QED
  BY <1>1, <1>2, <1>3, <1>4, <1>5, <1>6, <1>7, <1>8, <1>9, <1>10, <1>11, <1>12, <1>13,
     <1>14, <1>15, <1>16 DEF Next, Worker

--------------------------------------------------------------------------------
(* Packets: the listener and the motion.                                     *)

(* No packet is under way, and no button shown, at the start.                *)
LEMMA InitPacket == Init => PacketInv
  BY DEF Init, PacketInv, PacketMatches, ListenerMatches, Shown, MotionAccounted, NoButtons,
         NoPacket

(* The edges lead from the old forwarded set to the new one.                 *)
LEMMA EdgesLeadOver ==
    ASSUME NEW state, NEW held
    PROVE  LET next == MouseButtonsUpdate(state, held)
           IN  /\ PressEdges(state, held) \subseteq next.forwarded
               /\ ReleaseEdges(state, held) \cap next.forwarded = {}
               /\ (next.forwarded \ PressEdges(state, held)) \cup ReleaseEdges(state, held)
                    = state.forwarded
               /\ next.forwarded \cap next.suppressed = {}
  BY DEF MouseButtonsUpdate, PressEdges, ReleaseEdges, StillSuppressed

(* A reset's packet releases what was forwarded, and shows the same until    *)
(* it is reported.                                                           *)
LEMMA ApplyPacket ==
    ASSUME TypeOK, PacketInv, ApplyPendingReset, NothingToReport,
           UNCHANGED <<listener, input, rest, moved>>,
           pc # "frame", pc' # "frame",
           pc' \in {"got", "check"} => pc \in {"got", "check"}
    PROVE  PacketInv'
<1>1. CASE reset_pending
  <2>1. /\ buttons' = MouseButtonsReset(reset_buttons)
        /\ packet' = [press |-> {}, release |-> buttons.forwarded, move |-> Still]
    BY <1>1 DEF ApplyPendingReset, NoPacket
  <2>2. \A b \in Buttons : Shown(b)' <=> Shown(b)
    BY <2>1 DEF Shown, MouseButtonsReset, NoPacket
  <2>3. ListenerMatches'
    BY <2>2 DEF PacketInv, ListenerMatches
  <2> QED
    BY <2>1, <2>3 DEF PacketInv, PacketMatches, MotionAccounted, MouseButtonsReset
<1>2. CASE ~reset_pending
  BY <1>2 DEF ApplyPendingReset, PacketInv, PacketMatches, ListenerMatches, Shown,
              MotionAccounted
<1> QED
  BY <1>1, <1>2

(* Callers leave the worker, its packet and the listener alone.              *)
LEMMA CallerPacket ==
    ASSUME PacketInv, UNCHANGED <<workerVars, listener, moved>>
    PROVE  PacketInv'
  BY DEF PacketInv, PacketMatches, ListenerMatches, Shown, MotionAccounted,
         ResetPrecedesFrames

(* Every action keeps the listener in step with the packet under way, and    *)
(* the motion of its report accounted for.                                   *)
LEMMA NextPacket == TypeOK /\ PacketInv /\ [Next]_vars => PacketInv'
<1> SUFFICES ASSUME TypeOK, PacketInv, [Next]_vars
             PROVE  PacketInv'
  OBVIOUS
<1>1. CASE StartQueue \/ LinkReady \/ LinkLost \/ EndpointChanged \/ Disconnect
           \/ UNCHANGED vars
  BY <1>1, CallerPacket
  DEF StartQueue, LinkReady, LinkLost, EndpointChanged, Disconnect, vars
<1>2. ASSUME NEW held \in SUBSET Buttons, NEW delta \in Motions, Receive(held, delta)
      PROVE  PacketInv'
  BY <1>2, CallerPacket DEF Receive
<1>3. CASE Begin
  BY <1>3 DEF Begin, PacketInv, PacketMatches, ListenerMatches, Shown, MotionAccounted
<1>4. CASE ResetFirst
  BY <1>4, ApplyPacket DEF ResetFirst
<1>5. CASE Get
  <2>1. PacketMatches'
    BY <1>5 DEF Get, PacketInv, PacketMatches, NoPacket, TypeOK
  <2> QED
    BY <1>5, <2>1 DEF Get, PacketInv, ListenerMatches, Shown, MotionAccounted
<1>6. CASE ResetGot
  BY <1>6, ApplyPacket DEF ResetGot, ResetBeforeFrame
<1>7. CASE Check
  <2>1. CASE Current
    <3>1. /\ buttons' = MouseButtonsUpdate(buttons, input.buttons)
          /\ packet' = [press |-> PressEdges(buttons, input.buttons),
                        release |-> ReleaseEdges(buttons, input.buttons),
                        move |-> Clamped(rest)]
          /\ rest' = Remaining(rest)
          /\ pc' = "frame"
          /\ UNCHANGED <<listener, input, moved>>
      BY <1>7, <2>1 DEF Check, MakePacket
    <3>2. \A b \in Buttons : Shown(b)' <=> Shown(b)
      BY <1>7, <3>1, EdgesLeadOver DEF Check, Shown, NoPacket
    <3>3. ListenerMatches'
      BY <3>1, <3>2 DEF PacketInv, ListenerMatches
    <3>4. moved = Still /\ rest = input.delta
      BY <1>7 DEF Check, PacketInv, PacketMatches
    <3>5. \A a \in Axes : Clamped(rest)[a] + Remaining(rest)[a] = rest[a]
      BY SplitAddsUp DEF TypeOK
    <3>6. \A a \in Axes : Clamped(rest)[a] \in Int /\ Remaining(rest)[a] \in Int
      BY MotionTyped DEF TypeOK
    <3>7. MotionAccounted'
      BY <3>1, <3>4, <3>5, <3>6 DEF MotionAccounted, Still
    <3> QED
      BY <3>1, <3>3, <3>7, EdgesLeadOver DEF PacketInv, PacketMatches
  <2>2. CASE ~Current
    BY <1>7, <2>2 DEF Check, PacketInv, PacketMatches, ListenerMatches, Shown, MotionAccounted,
                      NoPacket
  <2> QED
    BY <2>1, <2>2
<1>8. CASE Frame
  <2>1. CASE FrameDone
    BY <1>8, <2>1 DEF Frame, PacketInv, PacketMatches, ListenerMatches, Shown, MotionAccounted,
                      NoPacket
  <2>2. CASE ~FrameDone
    <3>1. /\ packet = [press |-> {}, release |-> {}, move |-> Still]
          /\ packet' = [press |-> {}, release |-> {}, move |-> Clamped(rest)]
          /\ rest' = Remaining(rest)
          /\ pc = "frame" /\ pc' = "frame"
          /\ UNCHANGED <<buttons, listener, input, moved>>
      BY <1>8, <2>2 DEF Frame, MakePacket, NoPacket
    <3>2. ListenerMatches'
      BY <3>1 DEF PacketInv, ListenerMatches, Shown
    <3>3. \A a \in Axes : moved[a] + Still[a] + rest[a] = input.delta[a]
      BY <3>1 DEF PacketInv, MotionAccounted
    <3>4. \A a \in Axes : Clamped(rest)[a] + Remaining(rest)[a] = rest[a]
      BY SplitAddsUp DEF TypeOK
    <3>5. \A a \in Axes : /\ Clamped(rest)[a] \in Int /\ Remaining(rest)[a] \in Int
                          /\ moved[a] \in Int /\ Still[a] = 0
      BY MotionTyped DEF TypeOK, Still
    <3>6. MotionAccounted'
      BY <3>1, <3>3, <3>4, <3>5 DEF MotionAccounted
    <3> QED
      BY <3>1, <3>2, <3>6 DEF PacketInv, PacketMatches
  <2> QED
    BY <2>1, <2>2
<1>9. CASE ResetLast
  BY <1>9, ApplyPacket DEF ResetLast
<1>10. CASE ReportKey
  <2>1. PICK b \in packet.press \cup packet.release :
            /\ listener' = [listener EXCEPT ![b] = @ + IF b \in packet.press THEN 1 ELSE -1]
            /\ packet' = [packet EXCEPT !.press = @ \ {b}, !.release = @ \ {b}]
    BY <1>10 DEF ReportKey
  <2>2. /\ packet'.press = packet.press \ {b}
        /\ packet'.release = packet.release \ {b}
        /\ packet'.move = packet.move
        /\ UNCHANGED <<buttons, pc, input, rest, moved>>
    BY <1>10, <2>1 DEF ReportKey, TypeOK
  <2>3. b \in Buttons /\ b \in (packet.press \cup packet.release)
    BY <2>1 DEF TypeOK
  <2>4. /\ b \in packet.press => ~Shown(b) /\ Shown(b)'
        /\ b \notin packet.press => Shown(b) /\ ~Shown(b)'
    BY <2>2, <2>3 DEF PacketInv, PacketMatches, Shown
  <2>5. listener'[b] = IF Shown(b)' THEN 1 ELSE 0
    BY <2>1, <2>3, <2>4 DEF TypeOK, PacketInv, ListenerMatches
  <2>6. \A c \in Buttons \ {b} : listener'[c] = listener[c] /\ (Shown(c)' <=> Shown(c))
    BY <2>1, <2>2 DEF TypeOK, Shown
  <2>7. ListenerMatches'
    BY <2>5, <2>6 DEF PacketInv, ListenerMatches
  <2> QED
    BY <2>2, <2>7 DEF PacketInv, PacketMatches, MotionAccounted
<1>11. CASE ReportMotion
  <2>1. /\ packet' = [press |-> {}, release |-> {}, move |-> Still]
        /\ packet.press = {} /\ packet.release = {}
        /\ moved' = [a \in Axes |-> moved[a] + packet.move[a]]
        /\ UNCHANGED <<buttons, pc, input, rest, listener>>
        /\ packet.move # Still
    BY <1>11 DEF ReportMotion, NoPacket
  <2>2. pc = "frame"
    BY <2>1 DEF PacketInv, PacketMatches
  <2>3. ListenerMatches'
    BY <2>1 DEF PacketInv, ListenerMatches, Shown
  <2>4. \A a \in Axes : moved[a] \in Int /\ packet.move[a] \in Int /\ rest[a] \in Int
    BY DEF TypeOK
  <2>5. MotionAccounted'
    BY <2>1, <2>2, <2>4 DEF PacketInv, MotionAccounted, Still
  <2> QED
    BY <2>1, <2>2, <2>3, <2>5 DEF PacketInv, PacketMatches
<1> QED
  BY <1>1, <1>2, <1>3, <1>4, <1>5, <1>6, <1>7, <1>8, <1>9, <1>10, <1>11 DEF Next, Worker

--------------------------------------------------------------------------------
(* The stream: epochs, the queue, the reset owed and the newest buttons.     *)

(* There is no report, and no reset owed, at the start.                      *)
LEMMA InitStream == Init => StreamInv
  BY DEF Init, StreamInv, QueueIsCurrent, ResetPrecedesFrames, StaleIsMasked, NewestButtons,
         Scheduled, BeforeStart, NoButtons, NoInput

(* A reset request outdates the report taken, purges the queue, and is the   *)
(* newest state of the buttons.                                              *)
LEMMA RequestStream ==
    ASSUME TypeOK, StreamInv,
           NEW held \in SUBSET Buttons, RequestReset(held), physical_buttons' = held,
           SubmitOutput, UNCHANGED <<workerVars, initialized>>,
           \/ initialized
           \/ UNCHANGED <<physical_buttons, session>>
    PROVE  StreamInv'
<1>1. ~Current'
  BY DEF RequestReset, Current, StreamInv, TypeOK, Inputs
<1>2. input'.epoch <= stream_epoch'
  BY DEF RequestReset, StreamInv, TypeOK, Inputs
<1>3. QueueIsCurrent' /\ ResetPrecedesFrames'
  BY <1>1 DEF RequestReset, QueueIsCurrent, ResetPrecedesFrames
<1>4. StaleIsMasked' /\ NewestButtons'
  BY <1>1 DEF RequestReset, StaleIsMasked, NewestButtons
<1>5. Scheduled'
  BY DEF RequestReset, Scheduled, SubmitOutput, StreamInv, BeforeStart
<1>6. BeforeStart'
  BY DEF RequestReset, SubmitOutput, StreamInv, BeforeStart
<1> QED
  BY <1>2, <1>3, <1>4, <1>5, <1>6 DEF StreamInv

(* A report queued is the newest state of the buttons.                       *)
LEMMA QueueStream ==
    ASSUME TypeOK, StreamInv,
           NEW held \in SUBSET Buttons, NEW delta \in Motions, Receive(held, delta), ~QueueFull
    PROVE  StreamInv'
<1> DEFINE report == [buttons |-> held, delta |-> delta, epoch |-> stream_epoch]
<1>1. /\ mouse_inputs' = Append(mouse_inputs, report)
      /\ stale' = stale \cap held
      /\ physical_buttons' = held
      /\ UNCHANGED <<stream_epoch, reset_pending, reset_buttons, workerVars, initialized>>
      /\ SubmitOutput
      /\ session = "up" /\ session' = "up"
  BY DEF Receive
<1>2. report \in Inputs
  BY OutputAssumption DEF TypeOK, Inputs
<1> HIDE DEF report
<1>3. mouse_inputs \in Seq(Inputs) /\ Len(mouse_inputs) \in Nat
  BY DEF TypeOK
<1>4. Len(mouse_inputs') = Len(mouse_inputs) + 1
  BY <1>1, <1>2, <1>3
<1>5. mouse_inputs'[Len(mouse_inputs) + 1] = report
  BY <1>1, <1>2, <1>3
<1>6. \A i \in 1 .. Len(mouse_inputs) : mouse_inputs'[i] = mouse_inputs[i]
  BY <1>1, <1>2, <1>3
<1>7. /\ mouse_inputs' # << >>
      /\ Len(mouse_inputs') = Len(mouse_inputs) + 1
      /\ mouse_inputs'[Len(mouse_inputs')] = report
      /\ \A i \in 1 .. Len(mouse_inputs) : mouse_inputs'[i] = mouse_inputs[i]
      /\ Len(mouse_inputs) \in Nat
  BY <1>3, <1>4, <1>5, <1>6
<1>8. \A i \in 1 .. Len(mouse_inputs') :
        i \in 1 .. Len(mouse_inputs) \/ mouse_inputs'[i] = report
  BY <1>7
<1>9. report.epoch = stream_epoch /\ report.buttons = held
  BY DEF report
<1>10. QueueIsCurrent'
  <2> SUFFICES ASSUME NEW i \in 1 .. Len(mouse_inputs')
               PROVE  mouse_inputs'[i].epoch = stream_epoch
    BY <1>1 DEF QueueIsCurrent
  <2> QED
    BY <1>7, <1>8, <1>9 DEF StreamInv, QueueIsCurrent
<1>11. ResetPrecedesFrames' /\ input'.epoch <= stream_epoch'
  BY <1>1 DEF StreamInv, ResetPrecedesFrames, Current
<1>12. StaleIsMasked'
  <2>1. \A i \in 1 .. Len(mouse_inputs') : stale' \subseteq mouse_inputs'[i].buttons
    <3> SUFFICES ASSUME NEW i \in 1 .. Len(mouse_inputs')
                 PROVE  stale' \subseteq mouse_inputs'[i].buttons
      OBVIOUS
    <3> QED
      BY <1>1, <1>7, <1>8, <1>9 DEF StreamInv, StaleIsMasked
  <2> QED
    BY <1>1, <2>1 DEF StreamInv, StaleIsMasked, Current
<1>13. NewestButtons'
  BY <1>1, <1>7, <1>9 DEF NewestButtons
<1>14. initialized /\ output_work'
  BY <1>1 DEF StreamInv, BeforeStart, SubmitOutput
<1> QED
  BY <1>1, <1>10, <1>11, <1>12, <1>13, <1>14 DEF StreamInv, Scheduled, BeforeStart

(* Applying the reset that is owed keeps the buttons masked and newest.      *)
LEMMA ApplyStream ==
    ASSUME TypeOK, StreamInv, ApplyPendingReset,
           UNCHANGED <<stream_epoch, physical_buttons, reset_buttons, initialized, session,
                       stale, mouse_inputs, input, output_work>>,
           \/ pc = "first" /\ pc' = "get"
           \/ pc = "got" /\ pc' = "check"
           \/ pc = "last" /\ pc' = "idle"
    PROVE  StreamInv'
<1>1. /\ ~reset_pending'
      /\ reset_pending => buttons' = [forwarded |-> {}, suppressed |-> reset_buttons]
      /\ ~reset_pending => UNCHANGED buttons
  BY DEF ApplyPendingReset, MouseButtonsReset, TypeOK
<1>2. initialized
  BY DEF StreamInv, BeforeStart
<1>3. QueueIsCurrent' /\ ResetPrecedesFrames' /\ input'.epoch <= stream_epoch'
  BY <1>1 DEF StreamInv, QueueIsCurrent, ResetPrecedesFrames
<1>4. StaleIsMasked'
  BY <1>1 DEF StreamInv, StaleIsMasked, Current
<1>5. NewestButtons'
  <2>1. Current' <=> Current
    BY DEF Current
  <2>2. pc' \in {"got", "check"} <=> pc \in {"got", "check"}
    OBVIOUS
  <2> QED
    BY <1>1, <2>1, <2>2 DEF StreamInv, NewestButtons
<1>6. Scheduled'
  BY <1>1 DEF StreamInv, Scheduled
<1> QED
  BY <1>2, <1>3, <1>4, <1>5, <1>6 DEF StreamInv, BeforeStart

(* Steps that move the worker without touching the stream or the buttons.    *)
LEMMA QuietStream ==
    ASSUME TypeOK, StreamInv,
           UNCHANGED <<sharedVars, buttons, input, initialized, session, stale, output_work>>,
           \/ UNCHANGED pc /\ initialized
           \/ pc = "frame" /\ pc' = "get"
    PROVE  StreamInv'
  BY DEF StreamInv, QueueIsCurrent, ResetPrecedesFrames, StaleIsMasked, NewestButtons,
         Scheduled, BeforeStart, Current

(* Every action keeps the stream invariant: epochs order resets and reports. *)
LEMMA NextStream == TypeOK /\ StreamInv /\ [Next]_vars => StreamInv'
<1> SUFFICES ASSUME TypeOK, StreamInv, [Next]_vars
             PROVE  StreamInv'
  OBVIOUS
<1>1. CASE StartQueue \/ LinkReady \/ LinkLost \/ UNCHANGED vars
  BY <1>1 DEF StartQueue, LinkReady, LinkLost, Client!Open, Client!Lose, vars, StreamInv,
     QueueIsCurrent, ResetPrecedesFrames, StaleIsMasked, NewestButtons, Scheduled, BeforeStart,
     Current
<1>2. ASSUME NEW held \in SUBSET Buttons, NEW delta \in Motions, Receive(held, delta)
      PROVE  StreamInv'
  <2>1. CASE QueueFull
    <3>1. RequestReset(held) /\ session = "up"
      BY <1>2, <2>1 DEF Receive
    <3>2. initialized
      BY <3>1 DEF StreamInv, BeforeStart
    <3> QED
      BY <1>2, <3>1, <3>2, RequestStream DEF Receive
  <2>2. CASE ~QueueFull
    BY <1>2, <2>2, QueueStream
  <2> QED
    BY <2>1, <2>2
<1>3. CASE EndpointChanged
  BY <1>3, RequestStream DEF EndpointChanged, TypeOK
<1>4. CASE Disconnect
  BY <1>4, RequestStream DEF Disconnect, DisconnectStream
<1>5. CASE Begin
  BY <1>5 DEF Begin, StreamInv, QueueIsCurrent, ResetPrecedesFrames, StaleIsMasked,
     NewestButtons, Scheduled, BeforeStart, Current
<1>6. CASE ResetFirst
  BY <1>6, ApplyStream DEF ResetFirst
<1>7. CASE Get
  <2>1. CASE mouse_inputs = << >>
    BY <1>7, <2>1 DEF Get, StreamInv, QueueIsCurrent, ResetPrecedesFrames, StaleIsMasked,
       NewestButtons, Scheduled, BeforeStart, Current
  <2>2. CASE mouse_inputs # << >>
    <3>1. /\ pc = "get" /\ pc' = "got"
          /\ input' = Head(mouse_inputs)
          /\ mouse_inputs' = Tail(mouse_inputs)
          /\ UNCHANGED <<workerFrame, reset_pending, buttons, output_work>>
      BY <1>7, <2>2 DEF Get
    <3>2. /\ Len(mouse_inputs) \in Nat \ {0}
          /\ Len(mouse_inputs') = Len(mouse_inputs) - 1
          /\ \A i \in 1 .. Len(mouse_inputs') : mouse_inputs'[i] = mouse_inputs[i + 1]
          /\ input' = mouse_inputs[1]
          /\ input' \in Inputs
      BY <2>2, <3>1 DEF TypeOK
    <3>3. mouse_inputs' = << >> => Len(mouse_inputs) = 1
      BY <3>2
    <3>4. mouse_inputs' # << >> =>
            mouse_inputs'[Len(mouse_inputs')] = mouse_inputs[Len(mouse_inputs)]
      BY <3>1, <3>2 DEF TypeOK
    <3>5. Current' /\ input'.epoch <= stream_epoch'
      BY <3>1, <3>2 DEF StreamInv, QueueIsCurrent, Current, Inputs
    <3>6. QueueIsCurrent'
      <4> SUFFICES ASSUME NEW i \in 1 .. Len(mouse_inputs')
                   PROVE  mouse_inputs'[i].epoch = stream_epoch
        BY <3>1 DEF QueueIsCurrent
      <4> QED
        BY <3>2 DEF StreamInv, QueueIsCurrent
    <3>7. StaleIsMasked'
      <4>1. \A i \in 1 .. Len(mouse_inputs') : stale \subseteq mouse_inputs'[i].buttons
        BY <3>2 DEF StreamInv, StaleIsMasked
      <4>2. stale \subseteq input'.buttons
        BY <3>2 DEF StreamInv, StaleIsMasked
      <4> QED
        BY <3>1, <4>1, <4>2 DEF StreamInv, StaleIsMasked
    <3>8. NewestButtons'
      BY <2>2, <3>1, <3>2, <3>3, <3>4, <3>5 DEF StreamInv, NewestButtons
    <3> QED
      BY <3>1, <3>5, <3>6, <3>7, <3>8
      DEF StreamInv, ResetPrecedesFrames, Scheduled, BeforeStart
  <2> QED
    BY <2>1, <2>2
<1>8. CASE ResetGot
  BY <1>8, ApplyStream DEF ResetGot, ResetBeforeFrame
<1>9. CASE Check
  <2>1. CASE Current
    <3>1. /\ pc = "check" /\ pc' = "frame"
          /\ buttons' = MouseButtonsUpdate(buttons, input.buttons)
          /\ UNCHANGED <<workerFrame, reset_pending, mouse_inputs, input, output_work>>
      BY <1>9, <2>1 DEF Check
    <3>2. ~reset_pending /\ stale \subseteq input.buttons
      BY <2>1, <3>1 DEF StreamInv, ResetPrecedesFrames, StaleIsMasked
    <3>3. StaleIsMasked'
      BY <3>1, <3>2
      DEF StreamInv, StaleIsMasked, MouseButtonsUpdate, StillSuppressed
    <3>4. NewestButtons'
      BY <2>1, <3>1, <3>2
      DEF StreamInv, NewestButtons, MouseButtonsUpdate, StillSuppressed
    <3> QED
      BY <3>1, <3>2, <3>3, <3>4 DEF StreamInv, QueueIsCurrent, ResetPrecedesFrames,
         Scheduled, BeforeStart
  <2>2. CASE ~Current
    BY <1>9, <2>2 DEF Check, StreamInv, QueueIsCurrent, ResetPrecedesFrames, StaleIsMasked,
       NewestButtons, Scheduled, BeforeStart, Current
  <2> QED
    BY <2>1, <2>2
<1>10. CASE Frame
  <2>1. initialized
    BY <1>10 DEF Frame, StreamInv, BeforeStart
  <2> QED
    BY <1>10, <2>1, QuietStream DEF Frame
<1>11. CASE ResetLast
  BY <1>11, ApplyStream DEF ResetLast
<1>12. CASE ReportKey \/ ReportMotion
  <2>1. packet # NoPacket
    <3>1. CASE ReportKey
      <4>1. packet.press # {} \/ packet.release # {}
        BY <3>1 DEF ReportKey
      <4> QED
        BY <4>1 DEF NoPacket
    <3>2. CASE ReportMotion
      <4>1. packet.move # Still
        BY <3>2 DEF ReportMotion
      <4> QED
        BY <4>1 DEF NoPacket
    <3> QED
      BY <1>12, <3>1, <3>2
  <2>2. initialized
    BY <2>1 DEF StreamInv, BeforeStart
  <2> QED
    BY <1>12, <2>2, QuietStream DEF ReportKey, ReportMotion
<1> QED
  BY <1>1, <1>2, <1>3, <1>4, <1>5, <1>6, <1>7, <1>8, <1>9, <1>10, <1>11, <1>12
  DEF Next, Worker

--------------------------------------------------------------------------------
(* Without a session. *)

(* There is no report and no packet at the start.                            *)
LEMMA InitNothing == Init => NothingToPress
  BY DEF Init, NothingToPress, NoPacket

(* A reset asked for without a session, or by the call that ends it, leaves  *)
(* nothing to press: it finds the worker at rest, or changes only the reset. *)
LEMMA RequestNothing ==
    ASSUME TypeOK, NothingToPress, RequestReset({}), physical_buttons' = {},
           UNCHANGED workerVars, session = "down" \/ WorkerFree
    PROVE  NothingToPress'
  BY DEF RequestReset, NothingToPress, NoPacket

(* apply_pending_reset presses nothing, and takes no report.                 *)
LEMMA ApplyNothing ==
    ASSUME TypeOK, NothingToPress, ApplyPendingReset,
           UNCHANGED <<physical_buttons, mouse_inputs, session>>,
           pc' \in {"got", "check", "frame"} => pc \in {"got", "check", "frame"}
    PROVE  NothingToPress'
  BY DEF ApplyPendingReset, NothingToPress, NoPacket, TypeOK

(* Every action keeps it so: only a session brings reports.                  *)
LEMMA NextNothing == TypeOK /\ NothingToPress /\ [Next]_vars => NothingToPress'
<1> SUFFICES ASSUME TypeOK, NothingToPress, [Next]_vars
             PROVE  NothingToPress'
  OBVIOUS
<1>1. CASE StartQueue \/ LinkReady \/ LinkLost \/ Begin \/ UNCHANGED vars
  BY <1>1 DEF StartQueue, LinkReady, LinkLost, Client!Open, Client!Lose, Begin, vars,
              NothingToPress
<1>2. ASSUME NEW held \in SUBSET Buttons, NEW delta \in Motions, Receive(held, delta)
      PROVE  NothingToPress'
  BY <1>2 DEF Receive, NothingToPress
<1>3. CASE EndpointChanged
  <2>1. CASE session = "down"
    BY <1>3, <2>1, RequestNothing DEF EndpointChanged, NothingToPress
  <2>2. CASE session # "down"
    BY <1>3, <2>2 DEF EndpointChanged, NothingToPress
  <2> QED
    BY <2>1, <2>2
<1>4. CASE Disconnect
  BY <1>4, RequestNothing DEF Disconnect, DisconnectStream
<1>5. CASE ResetFirst \/ ResetGot \/ ResetLast
  BY <1>5, ApplyNothing DEF ResetFirst, ResetGot, ResetBeforeFrame, ResetLast
<1>6. CASE Get
  BY <1>6 DEF Get, NothingToPress
<1>7. CASE Check \/ Frame
  BY <1>7 DEF Check, Frame, NothingToPress
<1>8. CASE ReportKey
  <2>1. packet'.press \subseteq packet.press
    BY <1>8 DEF ReportKey, TypeOK
  <2> QED
    BY <1>8, <2>1 DEF ReportKey, NothingToPress
<1>9. CASE ReportMotion
  BY <1>9 DEF ReportMotion, NothingToPress, NoPacket
<1> QED
  BY <1>1, <1>2, <1>3, <1>4, <1>5, <1>6, <1>7, <1>8, <1>9 DEF Next, Worker

--------------------------------------------------------------------------------
(* The theorems. *)

(* The inductive invariant holds in every behaviour.                         *)
THEOREM OutputInvariant == SafeSpec => []OutputInv
<1>1. Init => OutputInv
  BY InitTyped, InitStream, InitPacket, InitNothing DEF OutputInv
<1>2. OutputInv /\ [Next]_vars => OutputInv'
  BY NextTyped, NextStream, NextPacket, NextNothing DEF OutputInv
<1> QED
  BY <1>1, <1>2, PTL DEF SafeSpec

(* A current report meets no reset still owed (mouse_output.c:102).          *)
THEOREM FramesFollowReset == SafeSpec => []ResetPrecedesFrames
<1>1. OutputInv => ResetPrecedesFrames
  BY DEF OutputInv, StreamInv
<1> QED
  BY <1>1, OutputInvariant, PTL

(* A button held across a reset is never shown before it was released: the   *)
(* newest reset's buttons are masked, and the mask hides what it holds.      *)
THEOREM SuppressionHolds == SafeSpec => []HeldStaySuppressed
<1>1. OutputInv => HeldStaySuppressed
  BY DEF OutputInv, StreamInv, PacketInv, StaleIsMasked, HeldStaySuppressed
<1> QED
  BY <1>1, OutputInvariant, PTL

(* Presses and releases balance in the input subsystem.                      *)
THEOREM ListenerBalanced == SafeSpec => []ListenerMatches
<1>1. OutputInv => ListenerMatches
  BY DEF OutputInv, PacketInv
<1> QED
  BY <1>1, OutputInvariant, PTL

(* No report of an older stream waits in the queue: each reset empties it    *)
(* under the lock it moves the epoch in (request_reset_locked).              *)
THEOREM QueueStaysCurrent == SafeSpec => []QueueIsCurrent
<1>1. OutputInv => QueueIsCurrent
  BY DEF OutputInv, StreamInv
<1> QED
  BY <1>1, OutputInvariant, PTL

(* With nothing left to do, the host sees exactly what is held and shown:    *)
(* the newest buttons are then in the button state (NewestButtons), no work  *)
(* was left without a wakeup (Scheduled), and the packet's edges are out.    *)
THEOREM NoButtonStuck == SafeSpec => []NoStuckButton
<1>1. OutputInv => NoStuckButton
  <2> SUFFICES ASSUME OutputInv, Quiet, NEW b \in Buttons
               PROVE  listener[b] = IF b \in physical_buttons \ buttons.suppressed THEN 1 ELSE 0
    BY DEF NoStuckButton
  <2>1. mouse_inputs = << >> /\ pc = "idle" /\ packet = NoPacket /\ ~output_work
    BY DEF OutputInv, StreamInv, Scheduled, Quiet
  <2>2. listener[b] = IF b \in buttons.forwarded THEN 1 ELSE 0
    BY <2>1 DEF OutputInv, PacketInv, ListenerMatches, Shown, NoPacket
  <2>3. CASE reset_pending
    BY <2>1, <2>2, <2>3 DEF OutputInv, StreamInv, Scheduled
  <2>4. CASE ~reset_pending
    BY <2>1, <2>2, <2>4 DEF OutputInv, StreamInv, NewestButtons
  <2> QED
    BY <2>3, <2>4
<1> QED
  BY <1>1, OutputInvariant, PTL

(* Splitting a report into packets loses, repeats and invents no motion.     *)
THEOREM MotionAddsUp == SafeSpec => []MotionAccounted
<1>1. OutputInv => MotionAccounted
  BY DEF OutputInv, PacketInv
<1> QED
  BY <1>1, OutputInvariant, PTL

(* A report is left incomplete only if its stream ended or it is excessive.  *)
LEMMA LeftComplete ==
    ASSUME OutputInv, [Next]_vars, pc = "frame", pc' = "get", Current, sent # MaxPackets
    PROVE  moved = input.delta
<1> USE DEF OutputInv
<1>1. Frame
  BY DEF Next, Worker, vars, StartQueue, LinkReady, LinkLost, Receive, EndpointChanged,
     Disconnect, Begin, ResetFirst, Get, ResetGot, Check, ResetLast, ReportKey, ReportMotion
<1>2. rest = Still /\ packet = NoPacket
  BY <1>1 DEF Frame, FrameDone, MakePacket
<1>3. \A a \in Axes : moved[a] + Still[a] + Still[a] = input.delta[a]
  BY <1>2 DEF PacketInv, MotionAccounted, NoPacket
<1>4. \A a \in Axes : moved[a] \in Int /\ Still[a] = 0
  BY DEF TypeOK, Still
<1>5. moved \in [Axes -> Int] /\ input.delta \in [Axes -> Int]
  BY DEF TypeOK, Inputs
<1>6. \A a \in Axes : moved[a] = input.delta[a]
  BY <1>3, <1>4
<1> QED
  BY <1>5, <1>6

(* Once its stream has ended, a step only finishes the packet under way.     *)
LEMMA RestDropped ==
    ASSUME OutputInv, [Next]_vars, pc = "frame", ~Current
    PROVE  /\ packet'.move \in {packet.move, Still}
           /\ packet'.press \subseteq packet.press
           /\ packet'.release \subseteq packet.release
<1>1. CASE ReportKey
  BY <1>1 DEF ReportKey, OutputInv, TypeOK
<1>2. CASE ReportMotion
  BY <1>2 DEF ReportMotion, NoPacket
<1>3. CASE Frame
  BY <1>3 DEF Frame, FrameDone
<1>4. CASE ~(ReportKey \/ ReportMotion \/ Frame)
  <2>1. UNCHANGED packet
    BY <1>4 DEF Next, Worker, vars, StartQueue, LinkReady, LinkLost, Receive, EndpointChanged,
       Disconnect, Begin, ResetFirst, Get, ResetGot, Check, ResetLast
  <2> QED
    BY <2>1
<1> QED
  BY <1>1, <1>2, <1>3, <1>4

(* Reports are reported whole, or cut at the packet under way when their     *)
(* stream ends.                                                              *)
THEOREM ReportsComplete == SafeSpec => WholeReport
<1>1. OutputInv /\ [Next]_vars =>
        /\ pc = "frame" /\ pc' = "get" => moved = input.delta \/ ~Current \/ sent = MaxPackets
        /\ pc = "frame" /\ ~Current =>
             /\ packet'.move \in {packet.move, Still}
             /\ packet'.press \subseteq packet.press
             /\ packet'.release \subseteq packet.release
  BY LeftComplete, RestDropped
<1> QED
  BY <1>1, OutputInvariant, PTL DEF SafeSpec, WholeReport

(* What a lost session's disconnect released stays released until the next   *)
(* session: only an edge of a press could undo it, and there is none.        *)
THEOREM NoPressAfterLoss == SafeSpec => StaysReleased
<1>1. OutputInv /\ [Next]_vars =>
        (session = "down" => \A b \in Buttons : listener'[b] <= listener[b])
  <2> SUFFICES ASSUME OutputInv, [Next]_vars, session = "down", NEW b \in Buttons
               PROVE  listener'[b] <= listener[b]
    OBVIOUS
  <2>1. listener \in [Buttons -> Int] /\ listener[b] \in Int
    BY DEF OutputInv, TypeOK
  <2>2. CASE ReportKey
    <3>1. PICK c \in packet.press \cup packet.release :
              listener' = [listener EXCEPT ![c] = @ + IF c \in packet.press THEN 1 ELSE -1]
      BY <2>2 DEF ReportKey
    <3>2. c \notin packet.press
      BY DEF OutputInv, NothingToPress
    <3> QED
      BY <2>1, <3>1, <3>2
  <2>3. CASE ~ReportKey
    <3>1. UNCHANGED listener
      BY <2>3 DEF Next, Worker, vars, StartQueue, LinkReady, LinkLost, Receive,
         EndpointChanged, Disconnect, Begin, ResetFirst, Get, ResetGot, Check, Frame,
         ResetLast, ReportMotion
    <3> QED
      BY <2>1, <3>1
  <2> QED
    BY <2>2, <2>3
<1> QED
  BY <1>1, OutputInvariant, PTL DEF SafeSpec, StaysReleased

--------------------------------------------------------------------------------
(* Refinement.                                                               *)

(* apply_pending_reset settles the reset that is owed, or does nothing.      *)
LEMMA ApplySettles ==
    ASSUME ApplyPendingReset, UNCHANGED reset_buttons, TypeOK
    PROVE  Stream!Settle \/ UNCHANGED Stream!vars
<1>1. CASE reset_pending
  BY <1>1 DEF ApplyPendingReset, MouseButtonsReset, Stream!Settle, TypeOK
<1>2. CASE ~reset_pending
  BY <1>2 DEF ApplyPendingReset, Stream!vars
<1> QED
  BY <1>1, <1>2

(* Every step of the queue, its callers and its worker is a step of the      *)
(* abstract stream or leaves it alone; ResetPrecedesFrames is what makes the *)
(* update at line 74 a report with no reset owed.                            *)
LEMMA StepImplements ==
    OutputInv /\ [Next]_vars => [Stream!Next]_(Stream!vars)
<1> SUFFICES ASSUME OutputInv, [Next]_vars
             PROVE  Stream!Next \/ UNCHANGED Stream!vars
  OBVIOUS
<1> TypeOK
  BY DEF OutputInv
<1>1. ASSUME NEW held \in SUBSET Buttons, RequestReset(held), UNCHANGED buttons
      PROVE  Stream!Next
  BY <1>1 DEF RequestReset, Stream!Next, Stream!RequestReset
<1>2. ASSUME NEW held \in SUBSET Buttons, NEW delta \in Motions, Receive(held, delta)
      PROVE  Stream!Next \/ UNCHANGED Stream!vars
  <2>1. CASE QueueFull
    <3>1. RequestReset(held) /\ UNCHANGED buttons
      BY <1>2, <2>1 DEF Receive
    <3> QED
      BY <1>1, <3>1
  <2>2. CASE ~QueueFull
    BY <1>2, <2>2 DEF Receive, Stream!vars
  <2> QED
    BY <2>1, <2>2
<1>3. CASE EndpointChanged
  BY <1>1, <1>3 DEF EndpointChanged, TypeOK
<1>4. CASE Disconnect
  BY <1>1, <1>4 DEF Disconnect, DisconnectStream
<1>5. CASE ResetFirst \/ ResetGot \/ ResetLast
  <2>1. ApplyPendingReset /\ UNCHANGED reset_buttons
    BY <1>5 DEF ResetFirst, ResetGot, ResetLast, ResetBeforeFrame
  <2>2. Stream!Settle \/ UNCHANGED Stream!vars
    BY <2>1, ApplySettles
  <2> QED
    BY <2>2 DEF Stream!Next
<1>6. CASE Check
  <2>1. CASE Current
    <3>1. /\ buttons' = MouseButtonsUpdate(buttons, input.buttons)
          /\ UNCHANGED <<reset_pending, reset_buttons>>
          /\ pc = "check"
      BY <1>6, <2>1 DEF Check
    <3>2. ~reset_pending
      BY <2>1, <3>1 DEF OutputInv, StreamInv, ResetPrecedesFrames
    <3>3. input.buttons \in SUBSET Buttons
      BY DEF TypeOK, Inputs
    <3>4. Stream!Report(input.buttons)
      BY <3>1, <3>2 DEF Stream!Report, MouseButtonsUpdate, StillSuppressed
    <3> QED
      BY <3>3, <3>4 DEF Stream!Next
  <2>2. CASE ~Current
    BY <1>6, <2>2 DEF Check, Stream!vars
  <2> QED
    BY <2>1, <2>2
<1>7. CASE StartQueue \/ LinkReady \/ LinkLost \/ Begin \/ Get \/ Frame
           \/ ReportKey \/ ReportMotion \/ UNCHANGED vars
  <2>1. UNCHANGED <<buttons, reset_pending, reset_buttons>>
    BY <1>7 DEF StartQueue, LinkReady, LinkLost, Begin, Get, Frame, ReportKey, ReportMotion,
       vars
  <2> QED
    BY <2>1 DEF Stream!vars
<1> QED
  BY <1>2, <1>3, <1>4, <1>5, <1>6, <1>7 DEF Next, Worker

(* mouse_output.c implements MouseStream (its safety; the promise that an    *)
(* owed reset is honoured is left to the model checker).                     *)
THEOREM OutputImplementsStream == SafeSpec => ImplementsStream
<1>1. Init => Stream!Init
  BY DEF Init, Stream!Init, NoButtons
<1> QED
  BY <1>1, StepImplements, OutputInvariant, PTL
  DEF SafeSpec, ImplementsStream, Stream!SafeSpec
================================================================================
