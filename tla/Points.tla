-------------------------------- MODULE Points --------------------------------
(***************************************************************************)
(* What happens to a point's value on its way out and a written one on its *)
(* way back: the processor pipeline, the older per-point conversion and    *)
(* the engineering units.                                                  *)
(*                                                                         *)
(*   process_value, reverse_value                bridge-core/src/pipeline.rs *)
(*   convert_from_bacnet, convert_to_bacnet, EngineeringUnits              *)
(*                                               bridge-core/src/bacnet.rs *)
(*                                                                         *)
(* A value is <<kind, content>>, a processor <<kind, ...>>.  Numbers are   *)
(* integers; a text is a number <<"num", n>> or a word <<"word", w>>.      *)
(***************************************************************************)
EXTENDS Integers, Sequences, SequencesExt

Nothing == <<"none">>

Numeric == {"Real", "SignedInt", "UnsignedInt", "Enumerated"}

apply_scale(v, factor, offset) ==
  IF v[1] \in Numeric THEN <<"Real", v[2] * factor + offset>> ELSE v

(* States count from 1; one without a label is left alone. *)
apply_map_states(v, labels) ==
  IF v[1] \in {"Enumerated", "UnsignedInt"} /\ v[2] \in 1 .. Len(labels)
  THEN <<"CharString", labels[v[2]]>> ELSE v

apply_processor(v, p) ==
  CASE p[1] = "SetUnit" -> v
    [] p[1] = "Scale" -> apply_scale(v, p[2], p[3])
    [] p[1] = "MapStates" -> apply_map_states(v, p[2])

process_value(v, mode, processors) ==
  CASE mode = "Ignore" -> <<"Null">>
    [] mode = "Passthrough" -> v
    [] mode = "Processed" -> FoldLeft(apply_processor, v, processors)

parse_boolean(t) ==
  CASE t \in {<<"word", "true">>, <<"word", "Active">>, <<"word", "ON">>} -> <<"Boolean", TRUE>>
    [] t \in {<<"word", "false">>, <<"word", "Inactive">>, <<"word", "OFF">>} -> <<"Boolean", FALSE>>
    [] OTHER -> Nothing

(* Mutant: the offset is taken away after the division. *)
parse_number_swapped(t, factor, offset) ==
  IF t[1] = "word" THEN Nothing
  ELSE <<"Real", IF factor = 0 THEN t[2] ELSE t[2] \div factor - offset>>

(* A text as a number, undone by one scale; the texts 1 and 0 are Boolean. *)
parse_number(t, factor, offset) ==
  CASE t[1] = "word" -> Nothing
    [] t = <<"num", 1>> -> <<"Boolean", TRUE>>
    [] t = <<"num", 0>> -> <<"Boolean", FALSE>>
    [] OTHER -> <<"Real", IF factor = 0 THEN t[2] ELSE (t[2] - offset) \div factor>>

Index(t, labels) == CHOOSE i \in 1 .. Len(labels) : labels[i] = t /\ \A j \in 1 .. i - 1 : labels[j] # t

Labelled(t, labels) == \E i \in 1 .. Len(labels) : labels[i] = t

reverse_step(t, p) ==
  CASE p[1] = "SetUnit" -> Nothing
    [] p[1] = "MapStates" -> IF Labelled(t, p[2]) THEN <<"Enumerated", Index(t, p[2])>> ELSE Nothing
    [] p[1] = "Scale" -> IF parse_boolean(t) # Nothing THEN parse_boolean(t)
                         ELSE parse_number(t, p[2], p[3])

(* The last processor that can take the text gives the raw value; no other *)
(* is undone.                                                              *)
reverse_value(t, processors) ==
  LET found == FoldRight(LAMBDA p, r : IF r # Nothing THEN r ELSE reverse_step(t, p),
                         processors, Nothing)
  IN IF found # Nothing THEN found
     ELSE IF parse_boolean(t) # Nothing THEN parse_boolean(t)
     ELSE parse_number(t, 1, 0)

-----------------------------------------------------------------------------
(* The older conversion: [scale, offset, state_text, exposed].             *)
convert_from_bacnet(v, c) ==
  IF apply_map_states(v, c.state_text) # v THEN apply_map_states(v, c.state_text)
  ELSE apply_scale(v, c.scale, c.offset)

convert_to_bacnet(t, c) ==
  IF Labelled(t, c.state_text) THEN <<"Enumerated", Index(t, c.state_text)>>
  ELSE IF parse_boolean(t) # Nothing THEN parse_boolean(t)
  ELSE parse_number(t, c.scale, c.offset)

is_exposed(c, exposure) == exposure \in c.exposed

convert_for_exposure(v, c, exposure) ==
  IF is_exposed(c, exposure) THEN convert_from_bacnet(v, c) ELSE Nothing

convert_write_for_exposure(t, c, exposure) ==
  IF is_exposed(c, exposure) THEN convert_to_bacnet(t, c) ELSE Nothing

-----------------------------------------------------------------------------
(* Engineering units by code.  from_code knows these; a unit of its own    *)
(* label is passed on, the others are converted to another's.              *)
UnitCodes ==
  (0 .. 30) \cup (32 .. 39) \cup (41 .. 46) \cup (48 .. 52) \cup (58 .. 80)
    \cup {95, 97, 123, 196}

unit_from_code(c) == IF c \in UnitCodes THEN <<c>> ELSE <<>>

(* The unit whose label a converted unit gets. *)
HaUnit ==
  [c \in {7, 8} |-> 3] @@ [c \in {10} |-> 11] @@ [c \in {12, 13, 17, 22, 23} |-> 16]
    @@ [c \in {18, 80} |-> 19] @@ [c \in {25} |-> 24] @@ [c \in {26, 28, 29} |-> 30]
    @@ [c \in {43} |-> 42] @@ [c \in {46} |-> 44]

ha_unit_str(c) == IF c \in DOMAIN HaUnit THEN HaUnit[c] ELSE c

(* Mutant: a kilojoule is divided like a joule. *)
HaFactor_joule(c) == IF c \in {12, 13} THEN <<1, 3600>> ELSE <<1, 1>>

(* The factor of convert_for_ha, numerator and denominator. *)
HaFactor(c) ==
  CASE c = 7 -> <<980665, 100000>> [] c = 8 -> <<980665, 10000>>
    [] c = 10 -> <<10, 1>> [] c = 12 -> <<1, 3600>> [] c = 13 -> <<10, 36>>
    [] c \in {17, 18} -> <<293071, 1000000>> [] c = 22 -> <<293071, 1>>
    [] c = 23 -> <<3517000, 1>> [] c = 80 -> <<7457, 10>> [] c = 28 -> <<3785, 1000>>
    [] c = 26 -> <<471947, 1000000>> [] c = 29 -> <<60, 1>> [] c = 25 -> <<28317, 1000000>>
    [] c = 43 -> <<1000, 1>> [] c = 46 -> <<907185, 1000>> [] OTHER -> <<1, 1>>
=============================================================================
