------------------------------- MODULE HidParser -------------------------------
(***************************************************************************)
(* mouse_hid_parse: a report map is read item by item into the layout of   *)
(* the mouse's input reports.                                              *)
(*                                                                         *)
(* An item is an action with its value; the bytes it is read from are left *)
(* out, and an item may be cut off anywhere.  Reports are a function of    *)
(* their id (mouse_hid_report_index), fields a set: those of one report    *)
(* are appended in the order of their first bit.  A usage is one number,   *)
(* page * 2^16 + code.                                                     *)
(*                                                                         *)
(* History: opened, the open collections; named, the usages since the last *)
(* main item; inputs, the Input items taken into the layout.               *)
(***************************************************************************)
EXTENDS HidBits, Sequences, FiniteSets, SequencesExt

CONSTANT Scenarios   \* the sizes of the tables, with the items a map is made of

(* Items are given by their values, Logical Minima and usages as             *)
(* <<value, bytes>>, where 4 bytes hold a page as well.                      *)
ASSUME ParserAssumption ==
    \A s \in Scenarios :
        /\ {s.reports, s.fields, s.bytes, s.depth, s.locals} \subseteq Nat \ {0}
        /\ s.kinds \subseteq {"push", "range", "physical"}
        /\ s.pages \cup s.sizes \cup s.ids \cup s.counts \subseteq Nat
        /\ \A m \in s.minima \cup s.usages : m[1] \in Nat /\ m[2] \in {0, 1, 2, 4}

VARIABLES scenario,  \* never changes
          status, global, stack, local, collections, reports, fields, summary,
          opened, named, inputs

layoutVars == <<reports, fields, summary, inputs>>
mapVars == <<scenario, layoutVars>>
scopeVars == <<collections, opened>>
itemVars == <<global, stack, local, named>>
vars == <<status, itemVars, scopeVars, mapVars>>

(* The limits of the tables.                                                 *)
MaxReports == scenario.reports

MaxFields == scenario.fields

MaxReportBytes == scenario.bytes

StackDepth == scenario.depth

LocalUsages == scenario.locals

Errors == {"EINVAL", "E2BIG", "ENOTSUP"}

MaxBits == MaxReportBytes * ByteBits

Page(n) == n * 2 ^ 16

(* UINT32_MAX where a usage is missing.                                      *)
NoUsage == -1

(* Not an application collection, in opened.                                 *)
Physical == -2

MouseUsage == Page(1) + 2

NoGlobal == [page |-> 0, size |-> 0, count |-> 0, minimum |-> 0, id |-> 0]

NoLocal == [usages |-> << >>, minimum |-> NoUsage, maximum |-> NoUsage]

NoReport == [bits |-> 0, buttons |-> {}, useful |-> FALSE]

NoSummary == [buttons |-> {}, axes |-> {}]

Buttons == 0 .. 4

Axes == {"x", "y", "wheel", "pan"}

Globals == [page : scenario.pages \cup {0}, size : scenario.sizes \cup {0},
            count : scenario.counts \cup {0}, minimum : Int, id : scenario.ids \cup {0}]

(* Types, and the limits of the tables.                                      *)
TypeOK ==
    /\ status \in {"idle", "parsing", "ok"} \cup Errors
    /\ global \in Globals
    /\ Len(stack) <= StackDepth
    /\ Len(local.usages) <= LocalUsages
    /\ Len(collections) <= StackDepth /\ Len(opened) = Len(collections)
    /\ DOMAIN reports \subseteq scenario.ids \cup {0} /\ Cardinality(DOMAIN reports) <= MaxReports
    /\ \A r \in DOMAIN reports :
           reports[r] \in [bits : 0 .. MaxBits, buttons : SUBSET Buttons, useful : BOOLEAN]
    /\ fields \subseteq [report : DOMAIN reports, bit : 0 .. MaxBits, size : 1 .. WordBits,
                         is_signed : BOOLEAN, usage : Axes \cup {"button"}, button : Buttons]
    /\ Cardinality(fields) <= MaxFields
    /\ summary \in [buttons : SUBSET Buttons, axes : SUBSET Axes]

Init ==
    /\ scenario \in Scenarios
    /\ status = "idle"
    /\ global = NoGlobal /\ stack = << >> /\ local = NoLocal /\ named = NoLocal
    /\ collections = << >> /\ opened = << >>
    /\ reports = << >> /\ fields = {} /\ summary = NoSummary /\ inputs = << >>

Clear ==
    /\ global' = NoGlobal /\ stack' = << >> /\ local' = NoLocal /\ named' = NoLocal
    /\ collections' = << >> /\ opened' = << >>
    /\ reports' = << >> /\ fields' = {} /\ summary' = NoSummary /\ inputs' = << >>
    /\ UNCHANGED scenario

(* A call, from a new session: an empty or overlong map is refused.          *)
Parse == status # "parsing" /\ status' \in {"parsing", "EINVAL"} /\ Clear

(* The caller drops the map with the session after an error.                 *)
Fail(err) == status' = err /\ Clear

(* An item that runs past the end; a long item is skipped.                   *)
Truncated == status = "parsing" /\ Fail("EINVAL")

--------------------------------------------------------------------------------
(* Global items.                                                             *)

SetGlobal(field, value) ==
    /\ global' = [global EXCEPT ![field] = value]
    /\ UNCHANGED <<status, stack, local, named, scopeVars, mapVars>>

UsagePage(v) ==
    /\ status = "parsing"
    /\ IF v > 2 ^ 16 - 1 THEN Fail("EINVAL") ELSE SetGlobal("page", v)

LogicalMinimum(v, bytes) ==
    /\ status = "parsing"
    /\ IF bytes = 0 THEN Fail("EINVAL")
                    ELSE SetGlobal("minimum", SignedBits(v, bytes * ByteBits))

ReportSize(v) == status = "parsing" /\ SetGlobal("size", v)

ReportId(v) ==
    /\ status = "parsing"
    /\ IF v = 0 \/ v > 255 THEN Fail("EINVAL") ELSE SetGlobal("id", v)

ReportCount(v) == status = "parsing" /\ SetGlobal("count", v)

Push ==
    /\ status = "parsing"
    /\ IF Len(stack) = StackDepth THEN Fail("E2BIG")
       ELSE stack' = Append(stack, global)
            /\ UNCHANGED <<status, global, local, named, scopeVars, mapVars>>

Pop ==
    /\ status = "parsing"
    /\ IF stack = << >> THEN Fail("EINVAL")
       ELSE global' = Last(stack) /\ stack' = Front(stack)
            /\ UNCHANGED <<status, local, named, scopeVars, mapVars>>

--------------------------------------------------------------------------------
(* Local items.                                                              *)

FullUsage(v, bytes) == IF bytes = 4 THEN v ELSE Page(global.page) + v

SetLocal(l, n) ==
    local' = l /\ named' = n /\ UNCHANGED <<status, global, stack, scopeVars, mapVars>>

WithUsage(l, usage) == [l EXCEPT !.usages = Append(@, usage)]

Usage(v, bytes) ==
    /\ status = "parsing"
    /\ IF Len(local.usages) = LocalUsages THEN Fail("E2BIG")
       ELSE LET usage == FullUsage(v, bytes) IN
            SetLocal(WithUsage(local, usage), WithUsage(named, usage))

UsageMinimum(v, bytes) ==
    LET usage == FullUsage(v, bytes) IN
    /\ status = "parsing"
    /\ SetLocal([local EXCEPT !.minimum = usage], [named EXCEPT !.minimum = usage])

UsageMaximum(v, bytes) ==
    LET usage == FullUsage(v, bytes) IN
    /\ status = "parsing"
    /\ SetLocal([local EXCEPT !.maximum = usage], [named EXCEPT !.maximum = usage])

Delimiter == status = "parsing" /\ Fail("ENOTSUP")

MutOneShort(index) == index < local.maximum - local.minimum

InRange(index) == index <= local.maximum - local.minimum

(* local_usage, with index from 0: the list, the range, the list's last.     *)
LocalUsage(index) ==
    LET n == Len(local.usages) IN
    IF index < n THEN local.usages[index + 1]
    ELSE IF NoUsage \notin {local.minimum, local.maximum} /\ InRange(index)
         THEN local.minimum + index
         ELSE IF n > 0 THEN local.usages[n] ELSE NoUsage

--------------------------------------------------------------------------------
(* Main items.                                                               *)

MutLocalKept == UNCHANGED local

(* Each main item ends the local state; the usages named were its own.       *)
LocalEnds == local' = NoLocal

InMouse == collections # << >> /\ Last(collections)

MutAnyCollection(application) == LocalUsage(0) = MouseUsage

CollectionIsMouse(application) ==
    IF application THEN LocalUsage(0) = MouseUsage ELSE InMouse

Collection(application) ==
    /\ status = "parsing"
    /\ IF Len(collections) = StackDepth THEN Fail("E2BIG")
       ELSE /\ collections' = Append(collections, CollectionIsMouse(application))
            /\ opened' = Append(opened, IF application THEN LocalUsage(0) ELSE Physical)
            /\ LocalEnds /\ named' = NoLocal
            /\ UNCHANGED <<status, global, stack, mapVars>>

EndCollection ==
    /\ status = "parsing"
    /\ IF collections = << >> THEN Fail("EINVAL")
       ELSE /\ collections' = Front(collections)
            /\ opened' = Front(opened)
            /\ LocalEnds /\ named' = NoLocal
            /\ UNCHANGED <<status, global, stack, mapVars>>

(* Output, Feature, and what the parser does not know.                       *)
OtherMain ==
    /\ status = "parsing"
    /\ LocalEnds /\ named' = NoLocal
    /\ UNCHANGED <<status, global, stack, scopeVars, mapVars>>

(* What a usage stands for, if anything: an axis, or a button of the five.   *)
Meaning(u, flags) ==
    LET page == u \div 2 ^ 16
        code == u % 2 ^ 16
        axis == CASE page = 1 /\ code = 48 -> "x"
                  [] page = 1 /\ code = 49 -> "y"
                  [] page = 1 /\ code = 56 -> "wheel"
                  [] page = 12 /\ code = 568 -> "pan"
                  [] OTHER -> "none" IN
    CASE InMouse /\ page = 9 /\ code \in 1 .. 5 -> <<"button", code - 1>>
      [] page = 12 /\ code = 548 -> <<"button", 3>>
      [] page = 12 /\ code = 549 -> <<"button", 4>>
      [] axis # "none" /\ "relative" \in flags /\ (InMouse \/ axis = "pan") -> <<axis, 0>>
      [] OTHER -> <<"none", 0>>

CurrentReport == IF global.id \in DOMAIN reports THEN reports[global.id] ELSE NoReport

(* The four refusals before the layout changes.                              *)
InputTooBig ==
    \/ global.count = 0 \/ global.size \notin 1 .. WordBits
    \/ global.count > MaxBits \div global.size
    \/ global.id \notin DOMAIN reports /\ Cardinality(DOMAIN reports) = MaxReports
    \/ global.size * global.count > MaxBits - CurrentReport.bits

(* Constant and array fields only take room.                                 *)
Carries(flags) == "variable" \in flags /\ "constant" \notin flags

FieldBit(i) == CurrentReport.bits + i * global.size

Field(i, flags) ==
    LET meaning == Meaning(LocalUsage(i), flags) IN
    [report |-> global.id, bit |-> FieldBit(i), size |-> global.size,
     is_signed |-> global.minimum < 0, usage |-> meaning[1], button |-> meaning[2]]

NewFields(flags) ==
    IF ~Carries(flags) THEN {}
    ELSE {f \in {Field(i, flags) : i \in 0 .. global.count - 1} : f.usage # "none"}

ButtonsOf(fs) == {f.button : f \in {g \in fs : g.usage = "button"}}

AxesOf(fs) == {f.usage : f \in fs} \ {"button"}

MutOnlyData(flags) ==
    CurrentReport.bits + IF Carries(flags) THEN global.size * global.count ELSE 0

NewBits(flags) == CurrentReport.bits + global.size * global.count

IsUseful(new) == CurrentReport.useful \/ new # {}

(* The collection that matters is the innermost application collection.      *)
InMouseByHistory ==
    \E d \in 1 .. Len(opened) :
        opened[d] = MouseUsage /\ \A e \in d + 1 .. Len(opened) : opened[e] = Physical

CurrentInputs == IF global.id \in DOMAIN inputs THEN inputs[global.id] ELSE << >>

HasRange == NoUsage \notin {named.minimum, named.maximum}

(* The usages named since the last main item, by a list or by a range (of    *)
(* which those beyond the cells are left out).                               *)
Named == ToSet(named.usages) \cup
         IF HasRange THEN {u \in named.minimum .. named.minimum + global.count : u <= named.maximum}
                     ELSE {}

(* The bit after an Input item, and where the next one begins.               *)
EndOf(input) == input.start + input.size * input.count

NextStart == IF CurrentInputs = << >> THEN 0 ELSE EndOf(Last(CurrentInputs))

(* Each usage has a cell (not when a list is mixed with a range).            *)
Exact ==
    IF HasRange THEN named.usages = << >> /\ named.maximum - named.minimum < global.count
                ELSE Len(named.usages) <= global.count

(* What an Input item describes: its room, after the items before it, and    *)
(* what its usages stand for.                                                *)
Taken(flags) ==
    [start |-> NextStart, size |-> global.size, count |-> global.count,
     mouse |-> InMouseByHistory, exact |-> Exact,
     labels |-> IF Carries(flags) THEN {Meaning(u, flags) : u \in Named} \ {<<"none", 0>>} ELSE {}]

(* add_input *)
Input(flags) ==
    LET new == NewFields(flags) IN
    /\ status = "parsing"
    /\ IF InputTooBig \/ Cardinality(fields) + Cardinality(new) > MaxFields
       THEN Fail("E2BIG")
       ELSE /\ reports' = [r \in DOMAIN reports \cup {global.id} |->
                              IF r # global.id THEN reports[r]
                              ELSE [bits |-> NewBits(flags),
                                    buttons |-> CurrentReport.buttons \cup ButtonsOf(new),
                                    useful |-> IsUseful(new)]]
            /\ fields' = fields \cup new
            /\ summary' = [buttons |-> summary.buttons \cup ButtonsOf(new),
                           axes |-> summary.axes \cup AxesOf(new)]
            /\ inputs' = [r \in DOMAIN reports' |->
                             IF r # global.id THEN inputs[r]
                             ELSE Append(CurrentInputs, Taken(flags))]
            /\ LocalEnds /\ named' = NoLocal
            /\ UNCHANGED <<scenario, status, global, stack, scopeVars>>

(* The end of the map.                                                       *)
End ==
    /\ status = "parsing"
    /\ status' = IF collections # << >> \/ stack # << >> THEN "EINVAL"
                 ELSE IF {"x", "y"} \subseteq summary.axes THEN "ok" ELSE "ENOTSUP"
    /\ UNCHANGED <<itemVars, scopeVars, mapVars>>

--------------------------------------------------------------------------------
ParserNext ==
    \/ Parse \/ Truncated \/ End
    \/ \E v \in scenario.pages : UsagePage(v)
    \/ \E m \in scenario.minima : LogicalMinimum(m[1], m[2])
    \/ \E v \in scenario.sizes : ReportSize(v)
    \/ \E v \in scenario.ids : ReportId(v)
    \/ \E v \in scenario.counts : ReportCount(v)
    \/ "push" \in scenario.kinds /\ (Push \/ Pop)
    \/ \E u \in scenario.usages : Usage(u[1], u[2])
    \/ /\ "range" \in scenario.kinds
       /\ \E u \in scenario.usages : UsageMinimum(u[1], u[2]) \/ UsageMaximum(u[1], u[2])
    \/ Delimiter \/ OtherMain
    \/ Collection(TRUE) \/ ("physical" \in scenario.kinds /\ Collection(FALSE))
    \/ EndCollection
    \/ \E flags \in SUBSET {"constant", "variable", "relative"} : Input(flags)

ParserSpec == Init /\ [][ParserNext]_vars

--------------------------------------------------------------------------------
(* Every field lies inside its report, and no two of a report overlap:       *)
(* extract_field stays inside a payload of the report's length, and no bit   *)
(* is read as two things (add_input).                                        *)
LayoutSound ==
    /\ \A f \in fields : f.bit + f.size <= reports[f.report].bits
    /\ \A f, g \in fields :
           f.report = g.report /\ f # g => f.bit + f.size <= g.bit \/ g.bit + g.size <= f.bit

(* The layout is the one the items describe: each Input item takes its room  *)
(* in its own report after all those before it, whatever other reports,      *)
(* collections and constant fields come in between; each field is one of the *)
(* cells of an item (add_input's start and report->bits).                    *)
LayoutMatches ==
    /\ \A r \in DOMAIN reports : reports[r].bits = EndOf(Last(inputs[r]))
    /\ \A f \in fields :
           \E k \in 1 .. Len(inputs[f.report]) :
               LET input == inputs[f.report][k] IN
               /\ input.size = f.size
               /\ \E i \in 0 .. input.count - 1 : f.bit = input.start + i * f.size

(* What is kept per report and for the map agrees with the fields: the       *)
(* client subscribes by useful and checks coverage by the rest.              *)
SummaryAgrees ==
    /\ \A r \in DOMAIN reports :
           LET own == {f \in fields : f.report = r} IN
           reports[r].useful = (own # {}) /\ reports[r].buttons = ButtonsOf(own)
    /\ summary.buttons = ButtonsOf(fields)
    /\ summary.axes = AxesOf(fields)

(* The parsed map is the layout the items describe, inside its tables, and   *)
(* its summaries agree with it (add_input, mouse_hid_parse).                 *)
LayoutInv == TypeOK /\ LayoutSound /\ LayoutMatches /\ SummaryAgrees

(* The fields inside the room of an Input item.                              *)
FieldsFrom(r, k) ==
    {f \in fields : f.report = r /\ inputs[r][k].start <= f.bit /\ f.bit < EndOf(inputs[r][k])}

(* X, Y, wheel and the first three buttons are taken from Input items whose  *)
(* innermost application collection is a mouse: a keyboard's fields in the   *)
(* same map, or after a nested collection was closed, never move the pointer *)
(* (collections[depth - 1]).  Pan and the last two buttons may come from     *)
(* anywhere, as usages of the consumer page.                                 *)
MouseFieldsOnly ==
    /\ status = "parsing" => InMouse = InMouseByHistory
    /\ \A f \in fields :
           (f.usage \in {"x", "y", "wheel"} \/ (f.usage = "button" /\ f.button < 3)) =>
               \E k \in 1 .. Len(inputs[f.report]) :
                   inputs[f.report][k].mouse /\ f \in FieldsFrom(f.report, k)

(* No usage is lost, invented or left over: where an item has a cell for     *)
(* each usage of the list, or of the range, given since the main item before *)
(* it, its fields are just what those usages stand for, the last of the      *)
(* range included (local_usage, memset(&local)).                             *)
UsagesFound ==
    \A r \in DOMAIN inputs : \A k \in 1 .. Len(inputs[r]) :
        inputs[r][k].exact =>
            {<<f.usage, f.button>> : f \in FieldsFrom(r, k)} = inputs[r][k].labels
================================================================================
