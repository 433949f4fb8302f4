------------------------------ MODULE HidReports ------------------------------
(***************************************************************************)
(* mouse_hid_decode and notify_cb: payloads of the mouse's input reports,  *)
(* decoded with the layout that HidParser made, become the frames and the  *)
(* physical buttons handed to zmk_mouse_output_receive.                    *)
(*                                                                         *)
(* A payload is a sequence of bytes.  A session ends when the next map is  *)
(* parsed.  latest is history: the last payload each characteristic's      *)
(* report was taken from.                                                  *)
(***************************************************************************)
EXTENDS HidParser, FiniteSetsExt

VARIABLES refs,      \* report->id, from each Report Reference
          buttons,   \* report->buttons
          output,    \* what was last handed on: characteristic, frame, physical
          latest

reportVars == <<refs, buttons, output, latest>>
allVars == <<vars, reportVars>>

(* The session's input report characteristics.                               *)
Characteristics == scenario.characteristics

Payloads == UNION {[1 .. n -> 0 .. Shift[ByteBits] - 1] : n \in 0 .. MaxReportBytes}

NoFrame == [a \in Axes |-> 0]

NoOutput == [from |-> << >>, frame |-> NoFrame, physical |-> {}]

(* Types; what is handed on fits a word.                                     *)
ReportsTypeOK ==
    /\ refs \in [Characteristics -> scenario.ids \cup {0}]
    /\ buttons \in [Characteristics -> SUBSET Buttons]
    /\ output.frame \in [Axes -> IntMin .. IntMax]
    /\ output.physical \subseteq Buttons
    /\ \A c \in Characteristics : latest[c] \in {<< >>} \cup Payloads

ReportsInit ==
    /\ Init
    /\ refs = [c \in Characteristics |-> 0]
    /\ buttons = [c \in Characteristics |-> {}]
    /\ output = NoOutput
    /\ latest = [c \in Characteristics |-> << >>]

(* memset(&session) *)
ClearButtons == buttons' = [c \in Characteristics |-> {}]

(* The map is parsed in a new session, then its references are read.         *)
Session ==
    /\ Parse
    /\ refs' \in [Characteristics -> scenario.ids \cup {0}]
    /\ ClearButtons
    /\ output' = NoOutput
    /\ latest' = [c \in Characteristics |-> << >>]

--------------------------------------------------------------------------------
(* mouse_hid_decode *)

Bytes(bits) == (bits + ByteBits - 1) \div ByteBits

BitOf(data, bit) == (data[bit \div ByteBits + 1] \div Shift[bit % ByteBits]) % 2

RawValue(data, f) ==
    LET value[i \in 0 .. f.size] ==
            IF i = 0 THEN 0 ELSE value[i - 1] + BitOf(data, f.bit + i - 1) * Shift[i - 1]
    IN value[f.size]

MutNoSignExtension(data, f) ==
    LET value == RawValue(data, f) IN IF f.is_signed THEN ToSigned(value) ELSE value

(* extract_field *)
ExtractField(data, f) ==
    LET value == RawValue(data, f) IN
    IF f.is_signed THEN SignedBits(value, f.size)
    ELSE IF value > IntMax THEN IntMax ELSE value

FieldsOf(id) == {f \in fields : f.report = id}

(* Values are added in the order the fields were appended, that of their     *)
(* first bits; at most one field begins at a bit.                            *)
AddedInOrder(own, bits, data) ==
    LET sum[b \in 0 .. bits] ==
            IF b = 0 THEN 0
            ELSE LET at == {f \in own : f.bit = b - 1} IN
                 IF at = {} THEN sum[b - 1]
                 ELSE AddSaturated(sum[b - 1], ExtractField(data, CHOOSE f \in at : TRUE))
    IN sum[bits]

DecodedAxis(id, data, axis) ==
    AddedInOrder({f \in FieldsOf(id) : f.usage = axis}, reports[id].bits, data)

DecodedButtons(id, data) ==
    {b \in Buttons : \E f \in FieldsOf(id) :
        f.usage = "button" /\ f.button = b /\ ExtractField(data, f) # 0}

(* ENOENT, EMSGSIZE: the report is ignored.                                  *)
Decodes(id, data) ==
    /\ id \in DOMAIN reports
    /\ reports[id].useful
    /\ Len(data) = Bytes(reports[id].bits)

MutLastReportWins(c, pressed) == pressed

(* The union over all characteristics, with c's own just taken.              *)
Held(c, pressed) == pressed \cup UNION {buttons[d] : d \in Characteristics \ {c}}

(* notify_cb, in a session that is ready.                                    *)
Notify(c, data) ==
    /\ status = "ok"
    /\ Decodes(refs[c], data)
    /\ LET pressed == DecodedButtons(refs[c], data) IN
       /\ buttons' = [buttons EXCEPT ![c] = pressed]
       /\ output' = [from |-> <<c>>,
                     frame |-> [a \in Axes |-> DecodedAxis(refs[c], data, a)],
                     physical |-> Held(c, pressed)]
    /\ latest' = [latest EXCEPT ![c] = data]
    /\ UNCHANGED <<vars, refs>>

ReportsNext ==
    \/ Session
    \/ status = "parsing" /\ ParserNext /\ UNCHANGED reportVars
    \/ \E c \in Characteristics, data \in Payloads : Notify(c, data)

ReportsSpec == ReportsInit /\ [][ReportsNext]_allVars

--------------------------------------------------------------------------------
(* The reference: a payload is one number, least significant byte first.     *)

Number(data) ==
    LET n[k \in 0 .. Len(data)] ==
            IF k = 0 THEN 0 ELSE n[k - 1] + data[k] * Shift[ByteBits * (k - 1)]
    IN n[Len(data)]

Digits(data, f) == (Number(data) \div Shift[f.bit]) % Shift[f.size]

RefValue(data, f) ==
    LET n == Digits(data, f) IN
    IF ~f.is_signed THEN IF n <= IntMax THEN n ELSE IntMax
    ELSE IF n < Shift[f.size - 1] THEN n ELSE n - Shift[f.size]

Magnitude(n) == IF n < 0 THEN -n ELSE n

(* The motion of a frame is what the payload's digits say, in two's          *)
(* complement where the map gave a negative minimum, whatever bytes a field  *)
(* straddles: exactly when the values fit a word together, and at the limit  *)
(* when they exceed it on one side (extract_field, signed_bits,              *)
(* add_saturated).                                                           *)
MotionDecoded ==
    output.from # << >> =>
        LET c == output.from[1] IN
        \A a \in Axes :
            LET own == {f \in FieldsOf(refs[c]) : f.usage = a}
                value == [f \in own |-> RefValue(latest[c], f)]
                sum == SumFunction(value) IN
            /\ SumFunction([f \in own |-> Magnitude(value[f])]) <= IntMax => output.frame[a] = sum
            /\ (\A f \in own : value[f] >= 0) /\ sum > IntMax => output.frame[a] = IntMax
            /\ (\A f \in own : value[f] <= 0) /\ sum < IntMin => output.frame[a] = IntMin

(* Frames fit their words, and say what the payload says (mouse_hid_decode). *)
DecodeInv == ReportsTypeOK /\ MotionDecoded

(* The physical buttons handed on are those some characteristic's latest     *)
(* valid payload of this session shows pressed: a report without a button    *)
(* neither presses nor releases it, and nothing is left of an earlier        *)
(* session (notify_cb's loop over session.reports).                          *)
PhysicalIsTrue ==
    output.from # << >> =>
        output.physical =
            {b \in Buttons : \E c \in Characteristics :
                /\ latest[c] # << >>
                /\ \E f \in FieldsOf(refs[c]) :
                       f.usage = "button" /\ f.button = b /\ Digits(latest[c], f) # 0}
================================================================================
