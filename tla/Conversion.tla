----------------------------- MODULE Conversion -----------------------------
(***************************************************************************)
(* A point's value from its device to a display and back: the rule that    *)
(* applies to the point, its processors, and the unit it is shown in.      *)
(***************************************************************************)
EXTENDS Points, Settings

CONSTANTS
  Reports,   \* what devices report: [device, type, instance, unit, raw]
  Configs    \* configurations, and older point settings

VARIABLES
  report, rules,
  display,   \* the value shown, or Nothing before
  unitShown, \* its unit and the factor applied, for a number
  written    \* the raw value made of a text, or Nothing before

conversionVars == <<report, rules, display, unitShown, written>>

RuleFor(p) == find_point_rule_for_device(rules, p.device, p.type, p.instance)

(* A configuration of the older kind has settings and no rules. *)
Older == "scale" \in DOMAIN rules

Processors == IF RuleFor(report).mode = "Processed" THEN RuleFor(report).processors ELSE <<>>

Shown ==
  IF Older THEN convert_for_exposure(report.raw, rules, "mqtt")
  ELSE process_value(report.raw, RuleFor(report).mode, RuleFor(report).processors)

(* The text of a value. *)
TextOf(v) ==
  CASE v[1] = "CharString" -> v[2]
    [] v[1] = "Boolean" -> <<"word", IF v[2] THEN "true" ELSE "false">>
    [] v[1] \in Numeric -> <<"num", v[2]>>
    [] OTHER -> <<"word", "null">>

ConversionInit ==
  /\ report \in Reports /\ rules \in Configs
  /\ display = Nothing /\ unitShown = <<>> /\ written = Nothing

Display ==
  /\ display = Nothing /\ Shown # Nothing
  /\ display' = Shown
  /\ unitShown' = IF unit_from_code(report.unit) = <<>> THEN <<>>
                  ELSE <<ha_unit_str(report.unit), HaFactor(report.unit)>>
  /\ UNCHANGED <<report, rules, written>>

(* The text shown is written back. *)
WriteText ==
  /\ display # Nothing /\ written = Nothing
  /\ written' = IF Older THEN convert_write_for_exposure(TextOf(display), rules, "mqtt")
                ELSE reverse_value(TextOf(display), Processors)
  /\ written' # Nothing
  /\ UNCHANGED <<report, rules, display, unitShown>>

ConversionNext == Display \/ WriteText

-----------------------------------------------------------------------------
IsBoolean(t) == parse_boolean(t) # Nothing
Steps(kind) == {i \in 1 .. Len(Processors) : Processors[i][1] = kind}

(* A text that stands for several values: a factor of 0, a label that      *)
(* occurs twice.                                                           *)
Ambiguous ==
  IF Older THEN rules.scale = 0
  ELSE \/ \E i \in Steps("Scale") : Processors[i][2] = 0
       \/ \E i \in Steps("MapStates") : \E j, k \in 1 .. Len(Processors[i][2]) :
            j # k /\ Processors[i][2][j] = Processors[i][2][k]

(* Where the code is known to go another way than its comments: of several *)
(* scales it undoes the last, and a scale behind the labels takes a label  *)
(* such as ON for a Boolean.                                               *)
OnlyLastUndone ==
  /\ display # Nothing /\ ~Older
  /\ \/ \E i, j \in Steps("Scale") : i # j
     \/ /\ display[1] = "CharString" /\ IsBoolean(display[2])
        /\ \E i \in Steps("MapStates"), j \in Steps("Scale") : i < j

(* The value a text shown should be written back as: the one reported, as  *)
(* the kind that texts of its form have.  The code takes the texts 0 and 1 *)
(* for Booleans, where bacnet.rs:1027-1032 puts the number first.          *)
ValueBehind ==
  CASE TextOf(display) \in {<<"num", 0>>, <<"num", 1>>} ->
         <<"Boolean", TextOf(display) = <<"num", 1>>>>
    [] report.raw[1] = "Boolean" -> report.raw
    [] display[1] = "CharString" -> <<"Enumerated", report.raw[2]>>
    [] OTHER -> <<"Real", report.raw[2]>>

WritesBack ==
  (written # Nothing /\ report.raw[1] \in Numeric \cup {"Boolean"} /\ ~Ambiguous)
    => written = ValueBehind

(* Whatever processors a point's rule has, and in whichever order they     *)
(* stand, writing back the text that is shown gives the value the device   *)
(* reported, unless the text is ambiguous or more than the last processor  *)
(* would have to be undone (pipeline.rs:52-210, config.rs:690-763,         *)
(* bacnet.rs:975-1120).                                                    *)
WriteBack == WritesBack \/ OnlyLastUndone

(* By physics: the unit shown and the factor, numerator and denominator.   *)
Physical(c) ==
  CASE c = 7 -> <<3, 9807, 1000>> [] c = 8 -> <<3, 9807, 100>> [] c = 10 -> <<11, 10, 1>>
    [] c = 12 -> <<16, 1, 3600>> [] c = 13 -> <<16, 10, 36>> [] c = 17 -> <<16, 293, 1000>>
    [] c = 18 -> <<19, 293, 1000>> [] c = 80 -> <<19, 746, 1>> [] c = 25 -> <<24, 283, 10000>>
    [] c = 28 -> <<30, 3785, 1000>> [] c = 29 -> <<30, 60, 1>> [] c = 43 -> <<42, 1000, 1>>
    [] OTHER -> <<c, 1, 1>>

(* Therms, ton-hours, cubic feet per minute and short tons, whose factors  *)
(* are not those of the units shown.                                       *)
OffUnits == {22, 23, 26, 46}

(* A value is shown in the unit its label names: label and factor, chosen  *)
(* by two separate tables, belong together to within half a percent        *)
(* (bacnet.rs:659-762, 784-905).                                           *)
UnitsAgree ==
  (unitShown # <<>> /\ report.unit \notin OffUnits) =>
    LET ref == Physical(report.unit)
        x == unitShown[2][1] * ref[3]
        y == ref[2] * unitShown[2][2]
    IN unitShown[1] = ref[1] /\ 200 * (IF x > y THEN x - y ELSE y - x) <= y

-----------------------------------------------------------------------------
(* What comments in the repository say and the code does not do.           *)

(* pipeline.rs:10-12, 142-148: the processors are undone from right to     *)
(* left, every scale by its inverse; so a number comes back as reported.   *)
ProcessorsReversed == Older \/ display[1] = "CharString" \/ WritesBack
=============================================================================
