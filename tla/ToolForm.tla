------------------------------ MODULE ToolForm ------------------------------
(***************************************************************************)
(* The form of a public tool: a template version declares which config     *)
(* fields of its nodes a user may fill (input_schema_json), and            *)
(* template_inputs.py writes submitted values into the nodes and reads the *)
(* values of an earlier draft back.  Pure operators.                       *)
(*                                                                         *)
(* A JSON value is a pair <<type, text>>; a config gives each target (a    *)
(* field of a node) its value.  A field of a form is a record              *)
(* [id, type, target, required, default, accepts].                         *)
(***************************************************************************)
EXTENDS Integers, Sequences, FiniteSets

CONSTANTS
  Texts,       \* what values are written as
  Targets,     \* the config fields of the nodes
  Unsafe,      \* those no form may name: provider, model, account, ...
  LegacyKind,  \* what the fixed allow-list makes of a target
  Beside,      \* the asset_type field of the node of an asset field, or "none"
  Numerals,    \* numeric texts, each with the text the number is printed as
  AssetType    \* the assets there are, each with its type

ASSUME FormAssumption ==
  /\ {"", "True", "False"} \subseteq Texts
  /\ Unsafe \subseteq Targets
  /\ LegacyKind \in [Targets -> {"text", "asset", "asset_type", "none"}]
  /\ Beside \in [Targets -> Targets \cup {"none"}] /\ "none" \notin Targets
  /\ \A t \in Targets : Beside[t] # t
  /\ \A s, t \in Targets : Beside[s] = Beside[t] /\ Beside[s] # "none" => s = t
  /\ \A t \in Targets : LegacyKind[t] # "none" /\ Beside[t] # "none" =>
       LegacyKind[t] = "asset" /\ LegacyKind[Beside[t]] = "asset_type" /\ Beside[t] \notin Unsafe
  /\ Numerals \in [DOMAIN Numerals -> Texts \ {""}]
  /\ \A n \in DOMAIN Numerals :
       Numerals[n] \in DOMAIN Numerals /\ Numerals[Numerals[n]] = Numerals[n]
  /\ AssetType \in [DOMAIN AssetType -> Texts \ {""}]

Str(text) == <<"str", text>>
Num(text) == <<"num", text>>
Bool(text) == <<"bool", text>>
None   == <<"null", "">>
NoKey  == <<"absent", "key">>    \* the node has no such config field
NoNode == <<"absent", "node">>   \* the draft has no such node
Bad    == <<"bad", "">>

\* what a user may send, and what a draft may hold
Raw    == ({"str"} \X Texts) \cup ({"num", "bool"} \X (Texts \ {""})) \cup {None}
Value  == Raw \cup {NoKey, NoNode}
Config == [Targets -> Value]

InputTypes == {"TEXT", "NUMBER", "SELECT", "BOOLEAN", "ASSET"}

Blank(raw) == raw \in {None, Str("")}

Falsy(raw) == Blank(raw) \/ raw \in {Bool("False"), Num("0")}

Truthy == {"1", "true", "True", "yes", "on"}
Untruthy == {"0", "false", "False", "no", "off"}

(* str, Decimal and _to_bool. *)
Converted(type, raw) ==
  CASE type \in {"TEXT", "SELECT", "ASSET"} -> Str(raw[2])
    [] type = "NUMBER" ->
         IF raw[2] \in DOMAIN Numerals THEN Num(Numerals[raw[2]]) ELSE Bad
    [] type = "BOOLEAN" ->
         CASE raw[1] = "bool" -> raw
           [] raw[1] = "num" -> Bool(IF Falsy(raw) THEN "False" ELSE "True")
           [] raw[1] = "str" /\ raw[2] \in Truthy -> Bool("True")
           [] raw[1] = "str" /\ raw[2] \in Untruthy -> Bool("False")
           [] OTHER -> Bad

(* _normalize_value raises unless the converted value is in the field's    *)
(* range, among its options, or an asset of an accepted type that the user *)
(* may view.                                                               *)
Accepted(field, raw, readable) ==
  LET value == Converted(field.type, raw) IN
  CASE field.type = "TEXT" -> TRUE
    [] field.type = "BOOLEAN" -> value # Bad
    [] field.type \in {"NUMBER", "SELECT"} -> value \in field.accepts
    [] field.type = "ASSET" -> value[2] \in readable /\ AssetType[value[2]] \in field.accepts

-----------------------------------------------------------------------------
(* normalize_input_schema: what a template can be saved with.  A default   *)
(* is converted but not tried against range, options or assets; a number   *)
(* stays a text.                                                           *)
NormalDefault(field) ==
  IF Blank(field.default) THEN field.default
  ELSE IF field.type = "BOOLEAN" THEN Converted("BOOLEAN", field.default)
  ELSE Str(field.default[2])

Schema(fields) == [i \in DOMAIN fields |-> [fields[i] EXCEPT !.default = NormalDefault(fields[i])]]

TypedField(field) ==
  /\ DOMAIN field = {"id", "type", "target", "required", "default", "accepts"}
  /\ field.default \in Raw
  /\ field.type \in {"NUMBER", "SELECT"} => Bad \notin field.accepts

WellFormed(fields, base) ==
  /\ \A i, j \in DOMAIN fields : fields[i].id = fields[j].id => i = j
  /\ \A i \in DOMAIN fields :
       /\ fields[i].type \in InputTypes
       /\ fields[i].target \in Targets \ Unsafe
       /\ base[fields[i].target] \notin {NoKey, NoNode}
       /\ fields[i].type # "TEXT" => fields[i].type = "BOOLEAN" \/ fields[i].accepts # {}
       /\ \/ Blank(fields[i].default) \/ fields[i].type # "NUMBER"
          \/ fields[i].default[2] \in DOMAIN Numerals
       /\ NormalDefault(fields[i]) # Bad

-----------------------------------------------------------------------------
(* apply_input_values. *)

(* The value of a field: what was submitted, or the default for a blank.   *)
Chosen(field, values) ==
  LET raw == IF field.id \in DOMAIN values THEN values[field.id] ELSE None
  IN  IF Blank(raw) THEN field.default ELSE raw

Given(form, values) == {i \in DOMAIN form : ~Blank(Chosen(form[i], values))}

Applicable(config, form, values, readable) ==
  /\ DOMAIN values \subseteq {form[i].id : i \in DOMAIN form}
  /\ \A i \in DOMAIN form :
       IF i \in Given(form, values)
       THEN /\ Accepted(form[i], Chosen(form[i], values), readable)
            /\ config[form[i].target] # NoNode
       ELSE ~form[i].required

(* The fields that write target t: those that name it, and an asset field  *)
(* whose node has the target as its asset_type.                            *)
Writers(config, form, values, t) ==
  {i \in Given(form, values) :
     \/ form[i].target = t
     \/ /\ form[i].type = "ASSET" /\ Beside[form[i].target] = t
        /\ \/ config[t] # NoKey
           \/ \E j \in Given(form, values) : j < i /\ form[j].target = t}

(* Mutant of Applied: the first field that names a target decides. *)
AppliedFirst(config, form, values) ==
  [t \in Targets |->
     LET writers == Writers(config, form, values, t) IN
     IF writers = {} THEN config[t]
     ELSE LET first == CHOOSE i \in writers : \A j \in writers : i <= j
          IN  Chosen(form[first], values)]

(* The fields are applied in order: the last one decides. *)
Applied(config, form, values) ==
  [t \in Targets |->
     LET writers == Writers(config, form, values, t) IN
     IF writers = {} THEN config[t]
     ELSE LET last  == CHOOSE i \in writers : \A j \in writers : j <= i
              value == Converted(form[last].type, Chosen(form[last], values))
          IN  IF form[last].target = t THEN value ELSE Str(AssetType[value[2]])]

(* Mutant of Extracted: false and zero taken for nothing. *)
ExtractedTruthy(config, form) ==
  LET fields == {i \in DOMAIN form : ~Falsy(config[form[i].target])} IN
  [id \in {form[i].id : i \in fields} |->
     config[form[CHOOSE i \in fields : form[i].id = id].target]]

(* extract_input_values_from_nodes: what a draft holds at the form's targets. *)
Extracted(config, form) ==
  LET fields == {i \in DOMAIN form : config[form[i].target] \notin {NoKey, NoNode, None}} IN
  [id \in {form[i].id : i \in fields} |->
     config[form[CHOOSE i \in fields : form[i].id = id].target]]

-----------------------------------------------------------------------------
(* apply_legacy_public_tool_values: templates without a form.  values maps *)
(* targets to raw values.                                                  *)

LegacyApplicable(config, values, readable) ==
  \A t \in DOMAIN values :
    /\ t \in Targets /\ config[t] # NoNode
    /\ LegacyKind[t] # "none" /\ t \notin Unsafe
    /\ LegacyKind[t] = "asset" /\ ~Falsy(values[t]) => values[t][2] \in readable
    /\ LegacyKind[t] = "asset_type" /\ ~Falsy(values[t]) =>
         \E a \in DOMAIN AssetType : AssetType[a] = values[t][2]

LegacyApplied(config, values) ==
  [t \in Targets |->
     IF t \in DOMAIN values
     THEN Str(IF Falsy(values[t]) THEN "" ELSE values[t][2])
     ELSE IF \E a \in DOMAIN values :
               Beside[a] = t /\ config[t] # NoKey /\ ~Falsy(values[a])
     THEN Str(AssetType[values[CHOOSE a \in DOMAIN values : Beside[a] = t][2]])
     ELSE config[t]]

-----------------------------------------------------------------------------
(* Words for the properties. *)

(* No field writes what another one writes. *)
OneWriter(form) ==
  \A i, j \in DOMAIN form : i # j =>
    /\ form[i].target # form[j].target
    /\ Beside[form[i].target] # form[j].target

(* The template's own values would pass its form: an asset beside its type *)
(* included.                                                               *)
Conforming(form, config) ==
  \A i \in DOMAIN form :
    LET value  == config[form[i].target]
        beside == Beside[form[i].target]
    IN Blank(value) \/
         /\ Accepted(form[i], value, DOMAIN AssetType)
         /\ Converted(form[i].type, value) = value
         /\ form[i].type = "ASSET" /\ beside # "none" =>
              config[beside] \in {NoKey, Str(AssetType[value[2]])}
=============================================================================
