------------------------------ MODULE MouseOutput ------------------------------
(***************************************************************************)
(* mouse_output.c: mouse reports on their way to the keyboard's input      *)
(* subsystem.  The Bluetooth receive thread queues reports, endpoint       *)
(* changes and disconnections ask for a reset of the stream, and one       *)
(* preemptible worker drains the queue and reports edges and motion.       *)
(*                                                                         *)
(* The callers that run in cooperative threads (a report, an endpoint      *)
(* change, a lost link) are one step each: the worker cannot preempt them. *)
(* The worker is split wherever it takes the lock, takes from the queue,   *)
(* reads the epoch, or may block in the input subsystem.                   *)
(*                                                                         *)
(* The definitions named Mut... are slips the code might have had; each    *)
(* replaces the definition after it to see a property fail.                *)
(***************************************************************************)
EXTENDS ButtonState, Integers, Sequences, FiniteSets

CONSTANTS Buttons,     \* the buttons, as their bit numbers
          QueueSize,   \* CONFIG_ZMK_BLE_MOUSE_QUEUE_SIZE
          Axes,        \* x, y, wheel, pan
          Motions,     \* the deltas a report may carry
          Limit,       \* the largest delta of one packet, per axis
          MaxPackets,  \* packets one report may be split into (32)
          MaxEpoch     \* bound: resets explored

ASSUME OutputAssumption ==
    /\ Buttons \subseteq Nat
    /\ QueueSize \in Nat \ {0}
    /\ Motions \subseteq [Axes -> Int]
    /\ Limit \in [Axes -> Nat \ {0}]
    /\ MaxPackets \in Nat \ {0}
    /\ MaxEpoch \in Nat

VARIABLES
    (* Shared, under input_state_lock. *)
    stream_epoch, physical_buttons, reset_pending, reset_buttons, mouse_inputs,
    (* The worker's own: the button state, where it is in output_work_cb,    *)
    (* the report it took, what is left of its motion, the packet it is      *)
    (* reporting and how many packets of the report it has made.             *)
    buttons, pc, input, rest, packet, sent,
    (* The work queue: is output_work queued; is the queue started.          *)
    output_work, initialized,
    (* The caller: the mouse's link as the client module sees it.            *)
    session,
    (* The input subsystem's count of presses per button (not this module). *)
    listener,
    (* History, read by no action: the buttons held in every report since    *)
    (* the last reset was asked for, and the motion reported of this report. *)
    stale, moved

sharedVars == <<stream_epoch, physical_buttons, reset_pending, reset_buttons, mouse_inputs>>
workerVars == <<buttons, pc, input, rest, packet, sent>>
vars == <<sharedVars, workerVars, output_work, initialized, session, listener, stale, moved>>

Still == [a \in Axes |-> 0]

NoPacket == [press |-> {}, release |-> {}, move |-> Still]

Inputs == [buttons : SUBSET Buttons, delta : [Axes -> Int], epoch : Nat]

NoInput == [buttons |-> {}, delta |-> Still, epoch |-> 0]

(* Types; the message queue never exceeds its size, a report's packets never *)
(* their bound (mouse_output.c:18-28, the loop of send_frame).               *)
TypeOK ==
    /\ stream_epoch \in Nat
    /\ physical_buttons \in SUBSET Buttons
    /\ reset_pending \in BOOLEAN
    /\ reset_buttons \in SUBSET Buttons
    /\ mouse_inputs \in Seq(Inputs)
    /\ Len(mouse_inputs) <= QueueSize
    /\ buttons \in ButtonStates(Buttons)
    /\ pc \in {"idle", "first", "get", "got", "check", "frame", "last"}
    /\ input \in Inputs
    /\ rest \in [Axes -> Int]
    /\ packet \in [press : SUBSET Buttons, release : SUBSET Buttons, move : [Axes -> Int]]
    /\ sent \in 0 .. MaxPackets
    /\ pc \in {"got", "check"} => sent = 0
    /\ output_work \in BOOLEAN
    /\ initialized \in BOOLEAN
    /\ session \in {"down", "up", "closing"}
    /\ listener \in [Buttons -> Int]
    /\ stale \in SUBSET Buttons
    /\ moved \in [Axes -> Int]

Init ==
    /\ stream_epoch = 0
    /\ physical_buttons = {}
    /\ reset_pending = FALSE
    /\ reset_buttons = {}
    /\ mouse_inputs = << >>
    /\ buttons = NoButtons
    /\ pc = "idle"
    /\ input = NoInput
    /\ rest = Still
    /\ packet = NoPacket
    /\ sent = 0
    /\ output_work = FALSE
    /\ initialized = FALSE
    /\ session = "down"
    /\ listener = [b \in Buttons |-> 0]
    /\ stale = {}
    /\ moved = Still

--------------------------------------------------------------------------------
(* The callers. *)

MutSubmitLost == output_work' = output_work

(* zmk_ble_mouse_submit(&output_work): ignored before the queue is started. *)
SubmitOutput == output_work' = (output_work \/ initialized)

(* zmk_ble_central_scan_init starts the queue. *)
StartQueue ==
    /\ ~initialized
    /\ initialized' = TRUE
    /\ UNCHANGED <<sharedVars, workerVars, output_work, session, listener, stale, moved>>

(* What the client, the caller, promises of its calls. *)
Client == INSTANCE MouseSession

(* The client reaches READY, in the same worker: reports may arrive. *)
LinkReady ==
    /\ initialized
    /\ pc = "idle"
    /\ stream_epoch < MaxEpoch
    /\ Client!Open
    /\ UNCHANGED <<sharedVars, workerVars, output_work, initialized, listener, stale, moved>>

(* The client leaves READY (a lost link, a failure): reports are ignored     *)
(* from here on, and the worker will call zmk_mouse_output_disconnect.       *)
LinkLost ==
    /\ Client!Lose
    /\ UNCHANGED <<sharedVars, workerVars, output_work, initialized, listener, stale, moved>>

MutResetForgotten(held) ==
    /\ stream_epoch' = stream_epoch + 1
    /\ UNCHANGED <<reset_buttons, reset_pending>>
    /\ mouse_inputs' = << >>
    /\ stale' = held

MutResetAll(held) ==
    /\ stream_epoch' = stream_epoch + 1
    /\ reset_buttons' = {}
    /\ reset_pending' = TRUE
    /\ mouse_inputs' = << >>
    /\ stale' = held

MutResetOnly(held) ==
    /\ reset_buttons' = held
    /\ reset_pending' = TRUE
    /\ stale' = held
    /\ UNCHANGED <<stream_epoch, mouse_inputs>>

(* What an overflow and reset_stream do alike, under the lock. *)
RequestReset(held) ==
    /\ stream_epoch' = stream_epoch + 1
    /\ reset_buttons' = held
    /\ reset_pending' = TRUE
    /\ mouse_inputs' = << >>
    /\ stale' = held

QueueFull == Len(mouse_inputs) = QueueSize

(* zmk_mouse_output_receive; the queue has room, or it is purged. *)
Receive(held, delta) ==
    /\ session = "up"
    /\ QueueFull => stream_epoch < MaxEpoch
    /\ physical_buttons' = held
    /\ IF QueueFull
       THEN RequestReset(held)
       ELSE /\ mouse_inputs' = Append(mouse_inputs,
                   [buttons |-> held, delta |-> delta, epoch |-> stream_epoch])
            /\ stale' = stale \cap held
            /\ UNCHANGED <<stream_epoch, reset_pending, reset_buttons>>
    /\ SubmitOutput
    /\ UNCHANGED <<workerVars, initialized, session, listener, moved>>

(* endpoint_changed: reset_stream(false), in the system work queue. *)
EndpointChanged ==
    /\ stream_epoch < MaxEpoch
    /\ RequestReset(physical_buttons)
    /\ SubmitOutput
    /\ UNCHANGED <<physical_buttons, workerVars, initialized, session, listener, moved>>

NothingToReport == packet = NoPacket

WorkerFree == pc = "idle" /\ NothingToReport

(* reset_stream(true). *)
DisconnectStream ==
    /\ RequestReset({})
    /\ physical_buttons' = {}

(* zmk_mouse_output_disconnect, from another handler of the same worker:     *)
(* disconnected_work_cb after a lost link, forget_peer at any other time.    *)
Disconnect ==
    /\ initialized
    /\ WorkerFree
    /\ Client!Disconnect
    /\ session = "down" => stream_epoch < MaxEpoch
    /\ DisconnectStream
    /\ SubmitOutput
    /\ UNCHANGED <<workerVars, initialized, listener, moved>>

--------------------------------------------------------------------------------
(* The worker: output_work_cb, apply_pending_reset, send_frame, send_packet. *)

MutApplyNothing == UNCHANGED <<reset_pending, buttons, packet>>

(* apply_pending_reset: the packet releases whatever was forwarded. *)
ApplyPendingReset ==
    IF reset_pending
    THEN /\ reset_pending' = FALSE
         /\ buttons' = MouseButtonsReset(reset_buttons)
         /\ packet' = [NoPacket EXCEPT !.release = buttons.forwarded]
    ELSE UNCHANGED <<reset_pending, buttons, packet>>

(* The worker is at one of its own steps: the last packet is out. *)
At(label) == pc = label /\ NothingToReport

workerFrame == <<stream_epoch, physical_buttons, reset_buttons, initialized, session, stale>>

Begin ==
    /\ At("idle")
    /\ output_work
    /\ output_work' = FALSE
    /\ pc' = "first"
    /\ UNCHANGED <<workerFrame, reset_pending, mouse_inputs, buttons, input, rest, packet,
                   sent, listener, moved>>

ResetFirst ==
    /\ At("first")
    /\ ApplyPendingReset
    /\ pc' = "get"
    /\ UNCHANGED <<workerFrame, mouse_inputs, input, rest, sent, output_work, listener, moved>>

(* k_msgq_get, without waiting. *)
Get ==
    /\ At("get")
    /\ IF mouse_inputs = << >>
       THEN /\ pc' = "last"
            /\ UNCHANGED <<mouse_inputs, input, rest>>
       ELSE /\ pc' = "got"
            /\ input' = Head(mouse_inputs)
            /\ rest' = Head(mouse_inputs).delta
            /\ mouse_inputs' = Tail(mouse_inputs)
    /\ sent' = 0
    /\ moved' = Still
    /\ UNCHANGED <<workerFrame, reset_pending, buttons, packet, output_work, listener>>

(* apply_pending_reset again, now that a report was taken. *)
ResetBeforeFrame == ApplyPendingReset

ResetGot ==
    /\ At("got")
    /\ ResetBeforeFrame
    /\ pc' = "check"
    /\ UNCHANGED <<workerFrame, mouse_inputs, input, rest, sent, output_work, listener, moved>>

MutAlwaysCurrent == TRUE

(* The report taken still belongs to the stream. *)
Current == input.epoch = stream_epoch

(* CLAMP(value, -limit, limit) *)
Clamp(value, limit) ==
    IF value > limit THEN limit ELSE IF value < -limit THEN -limit ELSE value

Clamped(delta) == [a \in Axes |-> Clamp(delta[a], Limit[a])]

(* frame->x -= x and so on, after the packet. *)
Remaining(delta) == [a \in Axes |-> delta[a] - Clamped(delta)[a]]

(* The next packet of the report: its motion, and edges in the first one.   *)
MakePacket(press, release) ==
    /\ packet' = [press |-> press, release |-> release, move |-> Clamped(rest)]
    /\ rest' = Remaining(rest)
    /\ sent' = sent + 1

Check ==
    /\ At("check")
    /\ IF Current
       THEN /\ buttons' = MouseButtonsUpdate(buttons, input.buttons)
            /\ MakePacket(PressEdges(buttons, input.buttons),
                          ReleaseEdges(buttons, input.buttons))
            /\ pc' = "frame"
       ELSE /\ pc' = "get"
            /\ UNCHANGED <<buttons, packet, rest, sent>>
    /\ UNCHANGED <<workerFrame, reset_pending, mouse_inputs, input, output_work, listener, moved>>

MutIgnoresEpoch == rest = Still \/ sent = MaxPackets

(* After a packet: the motion is used up, or the loop's bound, or the epoch. *)
FrameDone == rest = Still \/ sent = MaxPackets \/ ~Current

Frame ==
    /\ At("frame")
    /\ IF FrameDone
       THEN /\ pc' = "get"
            /\ UNCHANGED <<packet, rest, sent>>
       ELSE /\ MakePacket({}, {})
            /\ UNCHANGED pc
    /\ UNCHANGED <<workerFrame, reset_pending, mouse_inputs, buttons, input, output_work,
                   listener, moved>>

ResetLast ==
    /\ At("last")
    /\ ApplyPendingReset
    /\ pc' = "idle"
    /\ UNCHANGED <<workerFrame, mouse_inputs, input, rest, sent, output_work, listener, moved>>

(* send_packet: one input_report_key, lowest bit first.  It may wait for     *)
(* room in the input subsystem's queue, so the others may run before it.     *)
ReportKey ==
    /\ \E b \in packet.press \cup packet.release :
        /\ \A c \in packet.press \cup packet.release : b <= c
        /\ listener' = [listener EXCEPT ![b] = @ + IF b \in packet.press THEN 1 ELSE -1]
        /\ packet' = [packet EXCEPT !.press = @ \ {b}, !.release = @ \ {b}]
    /\ UNCHANGED <<workerFrame, reset_pending, mouse_inputs, buttons, pc, input, rest, sent,
                   output_work, moved>>

(* send_packet: the motion, after every key. *)
ReportMotion ==
    /\ packet.press \cup packet.release = {}
    /\ packet.move # Still
    /\ moved' = [a \in Axes |-> moved[a] + packet.move[a]]
    /\ packet' = NoPacket
    /\ UNCHANGED <<workerFrame, reset_pending, mouse_inputs, buttons, pc, input, rest, sent,
                   output_work, listener>>

Worker == \/ Begin \/ ResetFirst \/ Get \/ ResetGot \/ Check \/ Frame \/ ResetLast
          \/ ReportKey \/ ReportMotion

Next == \/ StartQueue \/ LinkReady \/ LinkLost
        \/ \E held \in SUBSET Buttons, delta \in Motions : Receive(held, delta)
        \/ EndpointChanged \/ Disconnect
        \/ Worker

(* The worker thread is scheduled, and a disconnection once queued behind it *)
(* is taken from the queue.                                                  *)
Fairness == WF_vars(Worker) /\ WF_vars(Disconnect /\ session = "closing")

SafeSpec == Init /\ [][Next]_vars

Spec == SafeSpec /\ Fairness

--------------------------------------------------------------------------------
(* Safety. *)

(* A current report reaches mouse_buttons_update only when no reset is owed: *)
(* the reset was asked for before the report was queued, and the second      *)
(* apply_pending_reset (line 102) runs after the report is taken.            *)
ResetPrecedesFrames == pc \in {"check", "frame"} /\ Current => ~reset_pending

(* Nothing of an older stream is left in the queue: what a reset drops can   *)
(* never be taken later, even though only its epoch would tell it apart.     *)
QueueIsCurrent == \A i \in 1 .. Len(mouse_inputs) : mouse_inputs[i].epoch = stream_epoch

(* A button held since the last reset (an OUT change, a lost link, an        *)
(* overflow) is not shown to the host again before it is released, however   *)
(* the reports queued before and after the reset interleave with it.         *)
HeldStaySuppressed == ~reset_pending => stale \cap buttons.forwarded = {}

(* What the host was told so far: the packet under way may still owe edges.  *)
Shown(b) == b \in (buttons.forwarded \ packet.press) \cup packet.release

(* The input subsystem's presses are balanced, and a key counts as pressed   *)
(* exactly if the forwarded state says so and the packet under way does not  *)
(* still owe its edge: no press or release is lost, repeated or reordered.   *)
ListenerMatches == \A b \in Buttons : listener[b] = IF Shown(b) THEN 1 ELSE 0

Quiet == initialized /\ WorkerFree /\ ~output_work

(* Whenever the worker has nothing left to do, the host sees exactly the     *)
(* buttons that are held and not suppressed: none is stuck, none is missing, *)
(* no wakeup was lost (zmk_ble_mouse_submit of output_work).                 *)
NoStuckButton ==
    Quiet => \A b \in Buttons :
        listener[b] = IF b \in physical_buttons \ buttons.suppressed THEN 1 ELSE 0

(* Split packets add up: until a report is left, what was reported, what is  *)
(* being reported and what remains make its motion (send_frame's CLAMPs).    *)
MotionAccounted ==
    pc = "frame" => \A a \in Axes : moved[a] + packet.move[a] + rest[a] = input.delta[a]

(* A report is left with motion unreported only because its stream ended or  *)
(* because its packets reached their bound (the loop of send_frame).  And    *)
(* once the stream has ended, at most the packet under way is finished: what *)
(* is left of the report is dropped, motion and edges (the loop's check of   *)
(* stream_epoch), though the reset may come while a packet waits for room.   *)
WholeReport ==
    [][/\ pc = "frame" /\ pc' = "get" => moved = input.delta \/ ~Current \/ sent = MaxPackets
       /\ pc = "frame" /\ ~Current =>
            /\ packet'.move \in {packet.move, Still}
            /\ packet'.press \subseteq packet.press
            /\ packet'.release \subseteq packet.release]_vars

Stream == INSTANCE MouseStream WITH
    down <- buttons.forwarded,
    masked <- buttons.suppressed,
    owed <- IF reset_pending THEN {reset_buttons} ELSE {}

(* Refinement: the forwarded and suppressed buttons, and the reset owed,     *)
(* change only as MouseStream promises (apply_pending_reset, send_frame).    *)
ImplementsStream == Stream!SafeSpec

(* Liveness: a reset owed to a host that still sees a button is honoured.    *)
ResetHonoured == Stream!Honoured

(* After a lost link the call of zmk_mouse_output_disconnect comes, and at   *)
(* some moment after it every button is released: the reset it asks for is   *)
(* applied although no report follows to wake the worker.                    *)
ReleasedAfterLoss ==
    session = "closing" ~> (session # "closing" /\ (\A b \in Buttons : listener[b] = 0))

(* And from that call until the mouse is ready again no press is reported,   *)
(* whatever the lost session had queued and however endpoint changes         *)
(* interleave (reset_stream's epoch and purge): what is released stays so.   *)
StaysReleased ==
    [][session = "down" => \A b \in Buttons : listener'[b] <= listener[b]]_vars

--------------------------------------------------------------------------------
(* The inductive invariant: why the properties above hold.                   *)

(* Buttons held since the reset are masked already, or will be: by the reset *)
(* that is owed and by every report of the stream still on its way.          *)
StaleIsMasked ==
    /\ IF reset_pending THEN stale \subseteq reset_buttons
                        ELSE stale \subseteq buttons.suppressed
    /\ \A i \in 1 .. Len(mouse_inputs) : stale \subseteq mouse_inputs[i].buttons
    /\ pc \in {"got", "check"} /\ Current => stale \subseteq input.buttons

(* The newest state of the buttons is at the newest place it may be: the     *)
(* back of the queue, the report taken, the reset owed, the button state.    *)
NewestButtons ==
    IF mouse_inputs # << >> THEN physical_buttons = mouse_inputs[Len(mouse_inputs)].buttons
    ELSE IF pc \in {"got", "check"} /\ Current THEN physical_buttons = input.buttons
    ELSE IF reset_pending THEN physical_buttons = reset_buttons
    ELSE /\ buttons.forwarded = physical_buttons \ buttons.suppressed
         /\ buttons.suppressed \subseteq physical_buttons

(* Work to do is never left without a run of output_work to come; a reset    *)
(* asked for before the queue started may wait, as there is nothing to lift. *)
Scheduled ==
    /\ mouse_inputs # << >> /\ pc \in {"idle", "last"} => output_work
    /\ reset_pending /\ pc = "idle" =>
          output_work \/ buttons.forwarded \cup physical_buttons = {}

BeforeStart ==
    ~initialized =>
        /\ WorkerFree
        /\ ~output_work
        /\ session = "down"
        /\ mouse_inputs = << >>
        /\ buttons.forwarded \cup physical_buttons = {}

PacketMatches ==
    /\ packet.press \subseteq buttons.forwarded
    /\ packet.release \cap buttons.forwarded = {}
    /\ pc # "frame" => packet.move = Still
    /\ pc \in {"got", "check"} => moved = Still /\ rest = input.delta

(* Without a session nothing is left that could press a button: the call     *)
(* that ended it found the worker at rest and emptied the queue.             *)
NothingToPress ==
    session = "down" =>
        /\ physical_buttons = {}
        /\ mouse_inputs = << >>
        /\ pc \notin {"got", "check", "frame"}
        /\ packet.press = {}

StreamInv ==
    /\ input.epoch <= stream_epoch
    /\ QueueIsCurrent
    /\ ResetPrecedesFrames
    /\ StaleIsMasked
    /\ NewestButtons
    /\ Scheduled
    /\ BeforeStart

PacketInv ==
    /\ buttons.forwarded \cap buttons.suppressed = {}
    /\ PacketMatches
    /\ ListenerMatches
    /\ MotionAccounted

(* What every action preserves: the types and bounds, and what the           *)
(* properties above follow from (all of mouse_output.c).                     *)
OutputInv == TypeOK /\ StreamInv /\ PacketInv /\ NothingToPress
================================================================================
