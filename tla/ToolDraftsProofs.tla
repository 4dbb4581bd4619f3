--------------------------- MODULE ToolDraftsProofs ---------------------------
(***************************************************************************)
(* What holds of ToolDrafts for every form, every number of drafts and     *)
(* runs, and every overlap of requests.  First the form: whatever is       *)
(* submitted, each target either keeps its value or holds one that its     *)
(* field accepts and would convert to itself (AppliedTo).  Then the        *)
(* requests in flight: an update that is not too late still has a draft    *)
(* without a run, and what a clean-up is about to delete stays a stale     *)
(* tool draft (Sound).  Last the runs: a filled config is one that reading *)
(* back and applying again restores (Repeatable), and a run and its draft  *)
(* are of one version (Origin).                                            *)
(***************************************************************************)
EXTENDS ToolDrafts, WellFoundedInduction, TLAPS

(* A form as the templates have it. *)
FormOf(form) ==
  /\ \E n \in Nat : DOMAIN form = 1..n
  /\ \A i \in DOMAIN form :
       /\ form[i].type \in InputTypes /\ form[i].target \in Targets \ Unsafe
       /\ form[i].default \in Raw
       /\ form[i].type \in {"NUMBER", "SELECT"} => Bad \notin form[i].accepts

(* The two parts of DraftFollowsForm. *)
Entered(form, t, value) ==
  \E i \in DOMAIN form :
    \/ /\ form[i].target = t
       /\ Accepted(form[i], value, DOMAIN AssetType)
       /\ Converted(form[i].type, value) = value
    \/ Beside[form[i].target] = t

Allowed(form, base, config) ==
  \A t \in Targets : config[t] # base[t] =>
    Entered(form, t, config[t]) \/ (form = <<>> /\ LegacyKind[t] # "none" /\ t \notin Unsafe)

Complete(form, config) == \A i \in DOMAIN form : form[i].required => ~Blank(config[form[i].target])

-----------------------------------------------------------------------------
(* Values. *)
LEMMA RawTexts ==
  /\ Raw \subseteq Value /\ NoKey \notin Raw /\ NoNode \notin Raw /\ None \in Raw
  /\ \A raw \in Raw : raw[2] \in Texts /\ (~Blank(raw) => raw[2] # "")
  /\ \A text \in Texts : Str(text) \in Raw /\ (text # "" => ~Blank(Str(text)))
  /\ \A text \in Texts \ {""} :
       /\ Num(text) \in Raw /\ ~Blank(Num(text)) /\ Bool(text) \in Raw /\ ~Blank(Bool(text))
<1>1. Raw \subseteq Value /\ None \in Raw
  BY DEF Raw, Value
<1>2. \A raw \in Raw : raw[1] \in {"str", "num", "bool", "null"} /\ raw[2] \in Texts
                       /\ (raw[2] = "" => raw[1] \in {"str", "null"} /\ raw = <<raw[1], "">>)
  <2>1. \A raw \in {"str"} \X Texts : raw[1] = "str" /\ raw[2] \in Texts /\ raw = <<raw[1], raw[2]>>
    OBVIOUS
  <2>2. \A raw \in {"num", "bool"} \X (Texts \ {""}) : raw[1] \in {"num", "bool"} /\ raw[2] \in Texts \ {""}
    OBVIOUS
  <2>3. None[1] = "null" /\ None[2] = "" /\ None = <<None[1], "">> /\ "" \in Texts
    BY FormAssumption DEF None
  <2> QED BY <2>1, <2>2, <2>3 DEF Raw
<1>3. NoKey \notin Raw /\ NoNode \notin Raw
  BY <1>2 DEF NoKey, NoNode
<1>4. \A raw \in Raw : raw[2] = "" => Blank(raw)
  <2>1. \A raw \in Raw : raw[2] = "" => raw = Str("") \/ raw = None
    BY <1>2 DEF Str, None
  <2> QED BY <2>1 DEF Blank
<1>5. \A text \in Texts : Str(text) \in Raw /\ (text # "" => ~Blank(Str(text)))
  BY DEF Raw, Str, Blank, None
<1>6. \A text \in Texts \ {""} : Num(text) \in Raw /\ Bool(text) \in Raw
  BY DEF Raw, Num, Bool
<1>7. \A text \in Texts \ {""} : ~Blank(Num(text)) /\ ~Blank(Bool(text))
  BY DEF Num, Bool, Blank, None, Str
<1> QED BY <1>1, <1>2, <1>3, <1>4, <1>5, <1>6, <1>7

LEMMA ConvertedOnce ==
  ASSUME NEW type \in InputTypes, NEW raw \in Raw, ~Blank(raw), Converted(type, raw) # Bad
  PROVE  /\ Converted(type, raw) \in Raw /\ ~Blank(Converted(type, raw))
         /\ Converted(type, Converted(type, raw)) = Converted(type, raw)
<1>0. raw[2] \in Texts \ {""}
  BY RawTexts
<1>1. CASE type \in {"TEXT", "SELECT", "ASSET"}
  <2>1. Converted(type, raw) = Str(raw[2]) /\ Converted(type, Str(raw[2])) = Str(Str(raw[2])[2])
    BY <1>1 DEF Converted
  <2>2. Str(raw[2])[2] = raw[2]
    BY DEF Str
  <2> QED BY <1>0, <2>1, <2>2, RawTexts
<1>2. CASE type = "NUMBER"
  <2>1. raw[2] \in DOMAIN Numerals /\ Converted(type, raw) = Num(Numerals[raw[2]])
    BY <1>2 DEF Converted
  <2> DEFINE n == Numerals[raw[2]]
  <2>2. n \in Texts \ {""} /\ n \in DOMAIN Numerals /\ Numerals[n] = n
    BY <2>1, FormAssumption
  <2>3. Num(n)[2] = n
    BY DEF Num
  <2>4. Converted(type, Num(n)) = Num(Numerals[Num(n)[2]])
    BY <1>2, <2>2, <2>3 DEF Converted
  <2> HIDE DEF n
  <2> QED BY <2>1, <2>2, <2>3, <2>4, RawTexts DEF n
<1>3. CASE type = "BOOLEAN"
  <2>1. (Converted(type, raw) \in {raw} /\ raw[1] = "bool") \/ Converted(type, raw) \in {Bool("True"), Bool("False")}
    BY <1>3 DEF Converted
  <2>2. \A value : value[1] = "bool" => Converted(type, value) = value
    BY <1>3 DEF Converted
  <2>3. Bool("True")[1] = "bool" /\ Bool("False")[1] = "bool"
    BY DEF Bool
  <2>4. "True" \in Texts \ {""} /\ "False" \in Texts \ {""}
    BY FormAssumption
  <2>5. Bool("True") \in Raw /\ ~Blank(Bool("True")) /\ Bool("False") \in Raw /\ ~Blank(Bool("False"))
    BY <2>4, RawTexts
  <2> QED BY <2>1, <2>2, <2>3, <2>5
<1> QED BY <1>1, <1>2, <1>3 DEF InputTypes

(* What is accepted is converted, and would be accepted as converted. *)
LEMMA AcceptedTwice ==
  ASSUME NEW field, field.type \in InputTypes, NEW raw \in Raw, ~Blank(raw),
         field.type \in {"NUMBER", "SELECT"} => Bad \notin field.accepts,
         NEW readable \in SUBSET DOMAIN AssetType, Accepted(field, raw, readable)
  PROVE  LET value == Converted(field.type, raw) IN
         /\ value \in Raw /\ ~Blank(value) /\ Converted(field.type, value) = value
         /\ Accepted(field, value, DOMAIN AssetType)
         /\ field.type = "ASSET" => value[2] \in DOMAIN AssetType
<1> DEFINE value == Converted(field.type, raw)
<1>1. value # Bad
  <2>1. CASE field.type \in {"TEXT", "ASSET"}
    <3>1. value = Str(raw[2])
      BY <2>1 DEF Converted
    <3> HIDE DEF value
    <3> QED BY <3>1 DEF Str, Bad
  <2>2. CASE field.type = "BOOLEAN"
    BY <2>2 DEF Accepted
  <2>3. CASE field.type \in {"NUMBER", "SELECT"}
    BY <2>3 DEF Accepted
  <2> QED BY <2>1, <2>2, <2>3 DEF InputTypes
<1>2. value \in Raw /\ ~Blank(value) /\ Converted(field.type, value) = value
  BY <1>1, ConvertedOnce
<1>3. Accepted(field, value, DOMAIN AssetType) /\ (field.type = "ASSET" => value[2] \in DOMAIN AssetType)
  BY <1>2 DEF Accepted, InputTypes
<1> QED BY <1>2, <1>3

(* What a field is given: submitted or by default. *)
LEMMA ChosenRaw ==
  ASSUME NEW form, FormOf(form), NEW i \in DOMAIN form, NEW values,
         \A id \in DOMAIN values : values[id] \in Raw
  PROVE  Chosen(form[i], values) \in Raw
BY RawTexts DEF FormOf, Chosen

LEMMA Last ==
  ASSUME NEW n \in Nat, NEW T \in SUBSET (1..n), T # {}
  PROVE  \E x \in T : \A y \in T : y <= x
<1> DEFINE S == {n - x : x \in T}
<1>1. S \subseteq Nat /\ S # {}
  <2>1. \A x \in T : n - x \in Nat
    OBVIOUS
  <2> QED BY <2>1
<1>2. PICK m \in S : \A k \in S : ~ (<<k, m>> \in OpToRel(<, Nat))
  BY <1>1, NatLessThanWellFounded, WFMin
<1>3. \A k \in S : ~ (k < m)
  BY <1>1, <1>2 DEF OpToRel
<1>4. PICK x \in T : m = n - x
  OBVIOUS
<1>5. \A y \in T : ~ (n - y < n - x)
  BY <1>3, <1>4
<1> QED BY <1>5

(* A target that no field writes keeps its value; another one gets a value *)
(* that its field accepts, or the type beside an asset.                    *)
LEMMA AppliedTo ==
  ASSUME NEW form, FormOf(form), NEW config \in Config, NEW values,
         \A id \in DOMAIN values : values[id] \in Raw,
         NEW readable \in SUBSET DOMAIN AssetType, Applicable(config, form, values, readable),
         NEW t \in Targets
  PROVE  LET value == Applied(config, form, values)[t] IN
         /\ Writers(config, form, values, t) = {} => value = config[t]
         /\ Writers(config, form, values, t) # {} =>
              value \in Raw /\ ~Blank(value) /\ Entered(form, t, value)
<1> DEFINE value == Applied(config, form, values)[t]
           writers == Writers(config, form, values, t)
           last == CHOOSE i \in writers : \A j \in writers : j <= i
           chosen == Chosen(form[last], values)
           converted == Converted(form[last].type, chosen)
<1>1. value = IF writers = {} THEN config[t]
              ELSE IF form[last].target = t THEN converted ELSE Str(AssetType[converted[2]])
  BY DEF Applied
<1>2. ASSUME writers # {} PROVE value \in Raw /\ ~Blank(value) /\ Entered(form, t, value)
  <2>1. PICK n \in Nat : writers \in SUBSET (1..n)
    BY DEF Writers, Given, FormOf
  <2>2. PICK x \in writers : \A y \in writers : y <= x
    BY <1>2, <2>1, Last
  <2>3. last \in writers
    BY <2>2
  <2>0. \A i \in writers :
          /\ i \in DOMAIN form /\ i \in Given(form, values) /\ ~Blank(Chosen(form[i], values))
          /\ form[i].target = t \/ (form[i].type = "ASSET" /\ Beside[form[i].target] = t)
    BY DEF Writers, Given
  <2>4. /\ last \in DOMAIN form /\ last \in Given(form, values) /\ ~Blank(chosen)
        /\ form[last].target = t \/ (form[last].type = "ASSET" /\ Beside[form[last].target] = t)
    <3> HIDE DEF writers, last
    <3> QED BY <2>0, <2>3
  <2> HIDE DEF last
  <2>5. chosen \in Raw
    BY <2>4, ChosenRaw
  <2>6. Accepted(form[last], chosen, readable)
    BY <2>4 DEF Applicable
  <2>7. /\ form[last].type \in InputTypes
        /\ form[last].type \in {"NUMBER", "SELECT"} => Bad \notin form[last].accepts
    BY <2>4 DEF FormOf
  <2> HIDE DEF chosen
  <2>8. /\ converted \in Raw /\ ~Blank(converted) /\ Converted(form[last].type, converted) = converted
        /\ Accepted(form[last], converted, DOMAIN AssetType)
        /\ form[last].type = "ASSET" => converted[2] \in DOMAIN AssetType
    BY <2>4, <2>5, <2>6, <2>7, AcceptedTwice
  <2> HIDE DEF converted
  <2>9. CASE form[last].target = t
    <3>1. value = converted
      BY <1>1, <1>2, <2>9
    <3>2. Entered(form, t, converted)
      BY <2>4, <2>8, <2>9 DEF Entered
    <3> QED BY <3>1, <3>2, <2>8
  <2>10. CASE form[last].target # t
    <3>1. value = Str(AssetType[converted[2]]) /\ form[last].type = "ASSET" /\ Beside[form[last].target] = t
      BY <1>1, <1>2, <2>4, <2>10
    <3>2. AssetType[converted[2]] \in Texts \ {""}
      BY <2>8, <3>1, FormAssumption
    <3>3. Entered(form, t, value)
      BY <2>4, <3>1 DEF Entered
    <3> HIDE DEF value
    <3> QED BY <3>1, <3>2, <3>3, RawTexts
  <2> QED BY <2>9, <2>10
<1> HIDE DEF value, last
<1> QED BY <1>1, <1>2 DEF value, last

LEMMA AppliedForm ==
  ASSUME NEW form, FormOf(form), NEW base, NEW config \in Config, Allowed(form, base, config),
         NEW values, \A id \in DOMAIN values : values[id] \in Raw,
         NEW readable \in SUBSET DOMAIN AssetType, Applicable(config, form, values, readable)
  PROVE  /\ Applied(config, form, values) \in Config
         /\ Allowed(form, base, Applied(config, form, values))
         /\ Complete(form, Applied(config, form, values))
<1> DEFINE applied == Applied(config, form, values)
<1>1. ASSUME NEW t \in Targets
      PROVE  /\ applied[t] = config[t] \/ (applied[t] \in Raw /\ Entered(form, t, applied[t]))
             /\ Writers(config, form, values, t) # {} => ~Blank(applied[t])
  <2>1. Writers(config, form, values, t) = {} => applied[t] = config[t]
    BY AppliedTo
  <2>2. Writers(config, form, values, t) # {} =>
          applied[t] \in Raw /\ ~Blank(applied[t]) /\ Entered(form, t, applied[t])
    BY AppliedTo
  <2> HIDE DEF applied
  <2> QED BY <2>1, <2>2
<1>2. applied \in Config
  <2>1. \A t \in Targets : applied[t] \in Value
    <3> HIDE DEF applied
    <3> QED BY <1>1, RawTexts DEF Config
  <2>2. applied = [t \in Targets |-> applied[t]]
    BY DEF Applied
  <2> HIDE DEF applied
  <2> QED BY <2>1, <2>2 DEF Config
<1>3. Allowed(form, base, applied)
  <2> HIDE DEF applied
  <2> QED BY <1>1 DEF Allowed
<1>4. ASSUME NEW i \in DOMAIN form, form[i].required PROVE ~Blank(applied[form[i].target])
  <2>1. i \in Given(form, values) /\ form[i].target \in Targets
    BY <1>4 DEF Applicable, FormOf
  <2>2. i \in Writers(config, form, values, form[i].target)
    BY <2>1 DEF Writers
  <2> HIDE DEF applied
  <2> QED BY <1>1, <2>1, <2>2
<1> HIDE DEF applied
<1> QED BY <1>2, <1>3, <1>4 DEF Complete, applied

LEMMA LegacyForm ==
  ASSUME NEW base, NEW config \in Config, Allowed(<<>>, base, config),
         NEW values, \A id \in DOMAIN values : values[id] \in Raw,
         NEW readable \in SUBSET DOMAIN AssetType, LegacyApplicable(config, values, readable)
  PROVE  /\ LegacyApplied(config, values) \in Config
         /\ Allowed(<<>>, base, LegacyApplied(config, values))
<1> DEFINE applied == LegacyApplied(config, values)
<1>1. ASSUME NEW t \in Targets
      PROVE  /\ applied[t] \in Value
             /\ applied[t] = config[t] \/ (LegacyKind[t] # "none" /\ t \notin Unsafe)
  <2>1. CASE t \in DOMAIN values
    <3>1. applied[t] = Str(IF Falsy(values[t]) THEN "" ELSE values[t][2])
      BY <2>1 DEF LegacyApplied
    <3>2. LegacyKind[t] # "none" /\ t \notin Unsafe /\ values[t] \in Raw
      BY <2>1 DEF LegacyApplicable
    <3>3. "" \in Texts /\ values[t][2] \in Texts
      BY <3>2, RawTexts, FormAssumption
    <3> HIDE DEF applied
    <3> QED BY <3>1, <3>2, <3>3, RawTexts
  <2>2. CASE t \notin DOMAIN values /\
             \E a \in DOMAIN values : Beside[a] = t /\ config[t] # NoKey /\ ~Falsy(values[a])
    <3>1. PICK a \in DOMAIN values : Beside[a] = t /\ ~Falsy(values[a])
      BY <2>2
    <3>2. /\ a \in Targets /\ LegacyKind[a] # "none"
          /\ LegacyKind[a] = "asset" => values[a][2] \in DOMAIN AssetType
      BY <3>1 DEF LegacyApplicable
    <3>3. t # "none"
      BY FormAssumption
    <3>4. /\ LegacyKind[a] = "asset" /\ LegacyKind[t] = "asset_type" /\ t \notin Unsafe
          /\ \A b \in Targets : Beside[b] = t => b = a
      BY <3>1, <3>2, <3>3, FormAssumption
    <3>5. (CHOOSE b \in DOMAIN values : Beside[b] = t) = a
      <4>1. \A b \in DOMAIN values : Beside[b] = t => b = a
        BY <3>4 DEF LegacyApplicable
      <4> QED BY <3>1, <4>1
    <3>6. applied[t] = Str(AssetType[values[a][2]])
      BY <2>2, <3>5 DEF LegacyApplied
    <3>7. AssetType[values[a][2]] \in Texts
      BY <3>2, <3>4, FormAssumption
    <3> HIDE DEF applied
    <3> QED BY <3>4, <3>6, <3>7, RawTexts
  <2>3. CASE t \notin DOMAIN values /\
             ~ \E a \in DOMAIN values : Beside[a] = t /\ config[t] # NoKey /\ ~Falsy(values[a])
    <3>1. applied[t] = config[t]
      BY <2>3 DEF LegacyApplied
    <3> HIDE DEF applied
    <3> QED BY <3>1 DEF Config
  <2> QED BY <2>1, <2>2, <2>3
<1>2. applied \in Config
  <2>1. applied = [t \in Targets |-> applied[t]]
    BY DEF LegacyApplied
  <2> HIDE DEF applied
  <2> QED BY <1>1, <2>1 DEF Config
<1>3. Allowed(<<>>, base, applied)
  <2> HIDE DEF applied
  <2> QED BY <1>1 DEF Allowed
<1> QED BY <1>2, <1>3

(* Whatever Filled makes of a draft that follows its form follows it. *)
LEMMA FilledForm ==
  ASSUME NEW form, FormOf(form), NEW base, NEW config \in Config, Allowed(form, base, config),
         NEW values, \A id \in DOMAIN values : values[id] \in Raw,
         NEW readable \in SUBSET DOMAIN AssetType, NEW filled \in Filled(config, form, values, readable)
  PROVE  filled \in Config /\ Allowed(form, base, filled) /\ Complete(form, filled)
<1>1. CASE form # <<>>
  <2>1. Applicable(config, form, values, readable) /\ filled = Applied(config, form, values)
    BY <1>1 DEF Filled
  <2> QED BY <2>1, AppliedForm
<1>2. CASE form = <<>>
  <2>1. LegacyApplicable(config, values, readable) /\ filled = LegacyApplied(config, values)
    BY <1>2 DEF Filled
  <2>2. filled \in Config /\ Allowed(form, base, filled)
    BY <1>2, <2>1, LegacyForm
  <2>3. Complete(form, filled)
    BY <1>2 DEF Complete
  <2> QED BY <2>2, <2>3
<1> QED BY <1>1, <1>2

(* What Filled makes is a config, whatever it starts from. *)
LEMMA FilledConfig ==
  ASSUME NEW form, FormOf(form), NEW config \in Config,
         NEW values, \A id \in DOMAIN values : values[id] \in Raw,
         NEW readable \in SUBSET DOMAIN AssetType, NEW filled \in Filled(config, form, values, readable)
  PROVE  filled \in Config
<1>1. Allowed(form, config, config)
  BY DEF Allowed
<1> QED BY <1>1, FilledForm

LEMMA NormalRaw ==
  ASSUME NEW field, field.type \in InputTypes, field.default \in Raw, NormalDefault(field) # Bad
  PROVE  NormalDefault(field) \in Raw
<1>1. CASE Blank(field.default)
  <2>1. NormalDefault(field) = field.default
    BY <1>1 DEF NormalDefault
  <2> QED BY <2>1
<1>2. CASE ~Blank(field.default) /\ field.type = "BOOLEAN"
  <2>1. NormalDefault(field) = Converted(field.type, field.default)
    BY <1>2 DEF NormalDefault
  <2> QED BY <1>2, <2>1, ConvertedOnce
<1>3. CASE ~Blank(field.default) /\ field.type # "BOOLEAN"
  <2>1. NormalDefault(field) = Str(field.default[2])
    BY <1>3 DEF NormalDefault
  <2> QED BY <2>1, RawTexts
<1> QED BY <1>1, <1>2, <1>3

LEMMA FormsOK ==
  ASSUME NEW some \in Catalogs, NEW v \in Versions
  PROVE  FormOf(Schema(some[v].fields)) /\ some[v].base \in Config
<1> DEFINE fields == some[v].fields
           form == Schema(fields)
<1>1. /\ some[v].base \in Config /\ Len(fields) \in Nat /\ DOMAIN fields = 1..Len(fields)
      /\ \A i \in DOMAIN fields : TypedField(fields[i])
      /\ WellFormed(fields, some[v].base)
  BY DraftsAssumption
<1> HIDE DEF fields
<1>2. DOMAIN form = DOMAIN fields
  BY DEF Schema
<1>3. ASSUME NEW i \in DOMAIN fields
      PROVE  /\ form[i].type \in InputTypes /\ form[i].target \in Targets \ Unsafe
             /\ form[i].default \in Raw
             /\ form[i].type \in {"NUMBER", "SELECT"} => Bad \notin form[i].accepts
  <2>1. form[i] = [fields[i] EXCEPT !.default = NormalDefault(fields[i])]
    BY DEF Schema
  <2>2. TypedField(fields[i])
    BY <1>1
  <2>3. /\ form[i].type = fields[i].type /\ form[i].target = fields[i].target
        /\ form[i].accepts = fields[i].accepts /\ form[i].default = NormalDefault(fields[i])
    BY <2>1, <2>2 DEF TypedField
  <2>4. /\ fields[i].type \in InputTypes /\ fields[i].target \in Targets \ Unsafe
        /\ NormalDefault(fields[i]) # Bad
    BY <1>1 DEF WellFormed
  <2>5. NormalDefault(fields[i]) \in Raw
    BY <2>2, <2>4, NormalRaw DEF TypedField
  <2> HIDE DEF form
  <2> QED BY <2>2, <2>3, <2>4, <2>5 DEF TypedField
<1> HIDE DEF form
<1> QED BY <1>1, <1>2, <1>3 DEF FormOf, form, fields

LEMMA ExtractedRaw ==
  ASSUME NEW form, FormOf(form), NEW config \in Config
  PROVE  \A id \in DOMAIN Extracted(config, form) : Extracted(config, form)[id] \in Raw
<1> DEFINE fields == {i \in DOMAIN form : config[form[i].target] \notin {NoKey, NoNode, None}}
           field(id) == CHOOSE i \in fields : form[i].id = id
<1>1. \A id \in DOMAIN Extracted(config, form) :
        (\E i \in fields : form[i].id = id) /\ Extracted(config, form)[id] = config[form[field(id)].target]
  BY DEF Extracted
<1>2. \A id : (\E i \in fields : form[i].id = id) => field(id) \in fields
  OBVIOUS
<1> HIDE DEF field
<1>3. \A i \in fields : config[form[i].target] \in Raw
  <2>1. \A i \in fields : form[i].target \in Targets /\ config[form[i].target] \notin {NoKey, NoNode}
    BY DEF FormOf
  <2>2. \A t \in Targets : config[t] \in Value
    BY DEF Config
  <2> HIDE DEF fields
  <2> QED BY <2>1, <2>2 DEF Value
<1> HIDE DEF fields
<1> QED BY <1>1, <1>2, <1>3

-----------------------------------------------------------------------------
(* Reading a draft back. *)

(* A field's target keeps the version's value while it is blank; otherwise *)
(* it holds what the field would convert to itself, and an asset has its   *)
(* type beside it, where there is a place for it.                          *)
AtField(field, base, config) ==
  LET value == config[field.target] IN
  /\ Blank(value) => value = base[field.target]
  /\ ~Blank(value) =>
       /\ value \in Raw /\ Accepted(field, value, DOMAIN AssetType)
       /\ Converted(field.type, value) = value
       /\ \A t \in Targets :
            field.type = "ASSET" /\ Beside[field.target] = t /\ base[t] # NoKey
              => config[t] = Str(AssetType[value[2]])

BesideAsset(form, config, t) ==
  \E i \in DOMAIN form :
    form[i].type = "ASSET" /\ Beside[form[i].target] = t /\ ~Blank(config[form[i].target])

Named(form, t) == \E i \in DOMAIN form : form[i].target = t

Regular(form, base, config) ==
  /\ \A t \in Targets : config[t] = NoKey <=> base[t] = NoKey
  /\ \A i \in DOMAIN form : AtField(form[i], base, config)
  /\ \A t \in Targets : ~Named(form, t) /\ ~BesideAsset(form, config, t) => config[t] = base[t]

(* Once a form has been applied, only what has no default is blank.        *)
Defaulted(form, config) ==
  \A i \in DOMAIN form : Blank(config[form[i].target]) => Blank(form[i].default)

Repeatable(form, base, config) ==
  form # <<>> /\ OneWriter(form) /\ Conforming(form, base) =>
    Regular(form, base, config) /\ Defaulted(form, config)

(* A form of the version with this base: ids are unique, targets exist.    *)
FormFor(form, base) ==
  /\ FormOf(form)
  /\ \A i, j \in DOMAIN form : form[i].id = form[j].id => i = j
  /\ \A i \in DOMAIN form : base[form[i].target] \notin {NoKey, NoNode}

LEMMA BaseRegular ==
  ASSUME NEW form, NEW base \in Config, FormFor(form, base), Conforming(form, base)
  PROVE  Regular(form, base, base)
<1> SUFFICES ASSUME NEW i \in DOMAIN form PROVE AtField(form[i], base, base)
  BY DEF Regular
<1> DEFINE value == base[form[i].target]
<1>1. form[i].target \in Targets /\ value \notin {NoKey, NoNode}
  BY DEF FormFor, FormOf
<1>2. value \in Raw
  <2>1. value \in Value
    BY <1>1 DEF Config
  <2> QED BY <1>1, <2>1 DEF Value
<1>3. ASSUME ~Blank(value)
      PROVE  /\ Accepted(form[i], value, DOMAIN AssetType)
             /\ Converted(form[i].type, value) = value
             /\ form[i].type = "ASSET" /\ Beside[form[i].target] # "none" =>
                  base[Beside[form[i].target]] \in {NoKey, Str(AssetType[value[2]])}
  BY <1>3 DEF Conforming
<1>4. "none" \notin Targets
  BY FormAssumption
<1> QED BY <1>2, <1>3, <1>4 DEF AtField

(* Of a form without shared targets, one field writes a target.            *)
LEMMA WritesAlone ==
  ASSUME NEW form, FormOf(form), OneWriter(form), NEW config, NEW values, NEW t \in Targets,
         NEW i \in Writers(config, form, values, t)
  PROVE  LET value == Converted(form[i].type, Chosen(form[i], values)) IN
         /\ i \in DOMAIN form /\ i \in Given(form, values)
         /\ Applied(config, form, values)[t] =
              IF form[i].target = t THEN value ELSE Str(AssetType[value[2]])
         /\ form[i].target # t =>
              form[i].type = "ASSET" /\ Beside[form[i].target] = t /\ config[t] # NoKey
<1> DEFINE writers == Writers(config, form, values, t)
           last == CHOOSE k \in writers : \A j \in writers : j <= k
           value(k) == Converted(form[k].type, Chosen(form[k], values))
<1>1. \A j \in writers :
        /\ j \in DOMAIN form /\ j \in Given(form, values)
        /\ form[j].target # t => form[j].type = "ASSET" /\ Beside[form[j].target] = t
  BY DEF Writers, Given
<1>2. i \in writers /\ \A j \in writers : form[j].target \in Targets
  <2>1. i \in writers
    OBVIOUS
  <2> HIDE DEF writers
  <2> QED BY <1>1, <2>1 DEF FormOf
<1>0. i \in Nat /\ \A j \in writers : j \in Nat
  <2>1. PICK n \in Nat : DOMAIN form = 1..n
    BY DEF FormOf
  <2> HIDE DEF writers
  <2> QED BY <1>1, <2>1 DEF writers
<1>3. ASSUME NEW j \in writers, j # i PROVE FALSE
  <2> HIDE DEF writers
  <2>1. /\ form[i].target # form[j].target
        /\ Beside[form[i].target] # form[j].target /\ Beside[form[j].target] # form[i].target
    BY <1>1, <1>2, <1>3 DEF OneWriter
  <2>2. form[i].target # t /\ form[j].target # t
    BY <1>1, <1>2, <1>3, <2>1
  <2>3. Beside[form[i].target] = t /\ Beside[form[j].target] = t /\ t # "none"
    BY <1>1, <1>2, <1>3, <2>2, FormAssumption
  <2>4. \A s, u \in Targets : Beside[s] = Beside[u] /\ Beside[s] # "none" => s = u
    BY FormAssumption
  <2> QED BY <1>2, <1>3, <2>1, <2>3, <2>4
<1>4. writers = {i}
  <2> HIDE DEF writers
  <2> QED BY <1>2, <1>3
<1>5. last = i
  <2> HIDE DEF writers
  <2> QED BY <1>0, <1>4
<1>6. config[t] # NoKey \/ form[i].target = t
  <2>1. SUFFICES ASSUME form[i].target # t, config[t] = NoKey PROVE FALSE
    OBVIOUS
  <2>2. PICK j \in Given(form, values) : j < i /\ form[j].target = t
    BY <2>1 DEF Writers
  <2>3. j \in writers
    BY <2>2 DEF Writers
  <2> HIDE DEF writers
  <2>4. j # i
    BY <1>0, <1>2, <2>2, <2>3
  <2> QED BY <1>3, <2>3, <2>4
<1>7. Applied(config, form, values)[t] =
        IF writers = {} THEN config[t]
        ELSE IF form[last].target = t THEN value(last) ELSE Str(AssetType[value(last)[2]])
  BY DEF Applied
<1> HIDE DEF writers, last, value
<1>8. Applied(config, form, values)[t] =
        IF form[i].target = t THEN value(i) ELSE Str(AssetType[value(i)[2]])
  BY <1>4, <1>5, <1>7
<1> QED BY <1>1, <1>2, <1>6, <1>8 DEF value

(* A field's own target: written by it or by nobody.                       *)
LEMMA OwnTarget ==
  ASSUME NEW form, FormOf(form), OneWriter(form), NEW config, NEW values, NEW i \in DOMAIN form
  PROVE  /\ form[i].target \in Targets
         /\ i \in Given(form, values) =>
              Applied(config, form, values)[form[i].target]
                = Converted(form[i].type, Chosen(form[i], values))
         /\ i \notin Given(form, values) =>
              /\ Writers(config, form, values, form[i].target) = {}
              /\ Applied(config, form, values)[form[i].target] = config[form[i].target]
<1> DEFINE t == form[i].target
<1>1. t \in Targets
  BY DEF FormOf
<1>2. ASSUME i \in Given(form, values)
      PROVE  Applied(config, form, values)[t] = Converted(form[i].type, Chosen(form[i], values))
  <2>1. i \in Writers(config, form, values, t)
    BY <1>2 DEF Writers
  <2> QED BY <1>1, <2>1, WritesAlone
<1>3. ASSUME i \notin Given(form, values)
      PROVE  Writers(config, form, values, t) = {} /\ Applied(config, form, values)[t] = config[t]
  <2>1. ASSUME NEW j \in Writers(config, form, values, t) PROVE FALSE
    <3>1. /\ j \in DOMAIN form /\ j \in Given(form, values)
          /\ form[j].target # t => Beside[form[j].target] = t
      BY <1>1, WritesAlone
    <3>2. j # i
      BY <1>3, <3>1
    <3> QED BY <3>1, <3>2 DEF OneWriter
  <2>2. Writers(config, form, values, t) = {}
    BY <2>1
  <2> QED BY <1>1, <2>2 DEF Applied
<1> QED BY <1>1, <1>2, <1>3

(* Applying a form leaves a regular draft regular, and its defaults given. *)
LEMMA AppliedRegular ==
  ASSUME NEW form, NEW base \in Config, NEW config \in Config, FormFor(form, base), OneWriter(form),
         Regular(form, base, config),
         NEW values, \A id \in DOMAIN values : values[id] \in Raw,
         NEW readable \in SUBSET DOMAIN AssetType, Applicable(config, form, values, readable)
  PROVE  /\ Regular(form, base, Applied(config, form, values))
         /\ Defaulted(form, Applied(config, form, values))
<1> DEFINE applied == Applied(config, form, values)
           writers(t) == Writers(config, form, values, t)
           given == Given(form, values)
           value(i) == Converted(form[i].type, Chosen(form[i], values))
<1>0. FormOf(form)
  BY DEF FormFor
<1>1. \A t \in Targets :
        /\ writers(t) = {} => applied[t] = config[t]
        /\ writers(t) # {} => applied[t] \in Raw /\ ~Blank(applied[t])
  BY <1>0, AppliedTo
<1>2. ASSUME NEW i \in DOMAIN form
      PROVE  /\ form[i].target \in Targets
             /\ i \in given => applied[form[i].target] = value(i)
             /\ i \notin given =>
                  writers(form[i].target) = {} /\ applied[form[i].target] = config[form[i].target]
  <2>1. form[i].target \in Targets
    BY <1>0 DEF FormOf
  <2>2. i \in Given(form, values) =>
          Applied(config, form, values)[form[i].target]
            = Converted(form[i].type, Chosen(form[i], values))
    BY <1>0, OwnTarget
  <2>3. i \notin Given(form, values) => Writers(config, form, values, form[i].target) = {}
    BY <1>0, OwnTarget
  <2> QED BY <1>1, <2>1, <2>2, <2>3
<1>3. ASSUME NEW i \in given
      PROVE  /\ i \in DOMAIN form /\ value(i) \in Raw /\ ~Blank(value(i))
             /\ Accepted(form[i], value(i), DOMAIN AssetType)
             /\ Converted(form[i].type, value(i)) = value(i)
  <2>1. i \in DOMAIN form /\ ~Blank(Chosen(form[i], values))
    BY DEF Given
  <2>2. Chosen(form[i], values) \in Raw
    BY <1>0, <2>1, ChosenRaw
  <2>3. /\ form[i].type \in InputTypes
        /\ form[i].type \in {"NUMBER", "SELECT"} => Bad \notin form[i].accepts
    BY <1>0, <2>1 DEF FormOf
  <2>4. Accepted(form[i], Chosen(form[i], values), readable)
    BY <2>1 DEF Applicable
  <2> QED BY <2>1, <2>2, <2>3, <2>4, AcceptedTwice
<1>4. \A t \in Targets : \A i \in writers(t) :
        /\ i \in given /\ i \in DOMAIN form
        /\ form[i].target # t =>
             /\ form[i].type = "ASSET" /\ Beside[form[i].target] = t /\ config[t] # NoKey
             /\ applied[t] = Str(AssetType[value(i)[2]])
  BY <1>0, WritesAlone
<1>5. \A i \in DOMAIN form : AtField(form[i], base, config)
  BY DEF Regular
<1>6. \A t \in Targets : config[t] = NoKey <=> base[t] = NoKey
  BY DEF Regular
<1>7. NoKey \notin Raw
  BY RawTexts
<1>8. \A i \in DOMAIN form : i \notin given => Blank(Chosen(form[i], values))
  BY DEF Given
<1>9. \A t \in Targets : \A i \in given :
        form[i].type = "ASSET" /\ Beside[form[i].target] = t /\ config[t] # NoKey => i \in writers(t)
  BY DEF Writers
<1> HIDE DEF applied, writers, given, value
<1>10. \A t \in Targets : applied[t] = NoKey <=> base[t] = NoKey
  <2> SUFFICES ASSUME NEW t \in Targets PROVE applied[t] = NoKey <=> base[t] = NoKey
    OBVIOUS
  <2>1. CASE writers(t) = {}
    BY <1>1, <1>6, <2>1
  <2>2. CASE writers(t) # {}
    <3>1. PICK i \in writers(t) : TRUE
      BY <2>2
    <3>2. base[t] # NoKey
      BY <1>4, <1>6, <3>1 DEF FormFor
    <3> QED BY <1>1, <1>7, <2>2, <3>2
  <2> QED BY <2>1, <2>2
<1>11. ASSUME NEW i \in DOMAIN form
       PROVE  /\ AtField(form[i], base, applied)
              /\ Blank(applied[form[i].target]) => Blank(form[i].default)
  <2> DEFINE u == form[i].target
  <2>1. CASE i \in given
    <3>1. applied[u] = value(i) /\ u \in Targets
      BY <1>2, <2>1
    <3>2. ASSUME NEW t \in Targets, form[i].type = "ASSET", Beside[u] = t, base[t] # NoKey
          PROVE  applied[t] = Str(AssetType[value(i)[2]])
      <4>1. i \in writers(t) /\ u # t
        BY <1>6, <1>9, <2>1, <3>1, <3>2, FormAssumption
      <4> QED BY <1>4, <4>1
    <3> HIDE DEF u
    <3> QED BY <1>3, <2>1, <3>1, <3>2 DEF AtField, u
  <2>2. CASE i \notin given
    <3>1. applied[u] = config[u] /\ writers(u) = {} /\ u \in Targets
      BY <1>2, <2>2
    <3>2. ASSUME NEW t \in Targets, form[i].type = "ASSET", Beside[u] = t
          PROVE  applied[t] = config[t]
      <4>1. ASSUME NEW j \in writers(t) PROVE FALSE
        <5>1. j \in DOMAIN form /\ j # i /\ form[j].target \in Targets
          BY <1>2, <1>4, <2>2, <4>1
        <5>2. form[j].target # t /\ form[j].target # u
          BY <3>2, <5>1 DEF OneWriter
        <5>3. Beside[form[j].target] = t
          BY <1>4, <4>1, <5>2
        <5>4. \A x, y \in Targets : Beside[x] = Beside[y] /\ Beside[x] # "none" => x = y
          BY FormAssumption
        <5>5. t # "none"
          BY FormAssumption
        <5> HIDE DEF u
        <5> QED BY <3>1, <3>2, <5>1, <5>2, <5>3, <5>4, <5>5
      <4> QED BY <1>1, <4>1
    <3>3. Blank(applied[u]) => Blank(form[i].default)
      <4>1. Blank(Chosen(form[i], values))
        BY <1>8, <2>2
      <4> QED BY <4>1 DEF Chosen
    <3>4. AtField(form[i], base, config)
      BY <1>5
    <3> QED BY <3>1, <3>2, <3>3, <3>4 DEF AtField
  <2> QED BY <2>1, <2>2
<1>12. ASSUME NEW t \in Targets, ~Named(form, t), ~BesideAsset(form, applied, t)
       PROVE  applied[t] = base[t]
  <2>1. \A i \in DOMAIN form : Blank(applied[form[i].target]) => Blank(config[form[i].target])
    BY <1>1, <1>2
  <2>2. ~BesideAsset(form, config, t)
    BY <1>12, <2>1 DEF BesideAsset
  <2>3. config[t] = base[t]
    BY <1>12, <2>2 DEF Regular
  <2>4. ASSUME NEW i \in writers(t) PROVE FALSE
    <3>1. /\ i \in given /\ i \in DOMAIN form /\ form[i].type = "ASSET"
          /\ Beside[form[i].target] = t
      BY <1>4, <1>12, <2>4 DEF Named
    <3>2. ~Blank(applied[form[i].target])
      BY <1>2, <1>3, <3>1
    <3> QED BY <1>12, <3>1, <3>2 DEF BesideAsset
  <2> QED BY <1>1, <2>3, <2>4
<1> QED BY <1>10, <1>11, <1>12 DEF Regular, Defaulted, applied

(* What is read at a field is what is there, unless it is nothing.         *)
LEMMA ExtractedAt ==
  ASSUME NEW form, \A i, j \in DOMAIN form : form[i].id = form[j].id => i = j,
         NEW config, NEW i \in DOMAIN form
  PROVE  LET values == Extracted(config, form)
             value == config[form[i].target]
         IN IF value \in {NoKey, NoNode, None} THEN form[i].id \notin DOMAIN values
            ELSE form[i].id \in DOMAIN values /\ values[form[i].id] = value
<1> DEFINE fields == {k \in DOMAIN form : config[form[k].target] \notin {NoKey, NoNode, None}}
           ids == {form[k].id : k \in fields}
           found(id) == CHOOSE k \in fields : form[k].id = id
<1>1. Extracted(config, form) = [id \in ids |-> config[form[found(id)].target]]
  BY DEF Extracted
<1>2. \A k \in fields : k \in DOMAIN form
  OBVIOUS
<1>3. i \in fields <=> config[form[i].target] \notin {NoKey, NoNode, None}
  OBVIOUS
<1> HIDE DEF fields
<1>4. i \in fields => found(form[i].id) = i
  BY <1>2
<1>5. form[i].id \in ids <=> i \in fields
  BY <1>2
<1> HIDE DEF ids, found
<1> QED BY <1>1, <1>3, <1>4, <1>5

(* A regular, complete draft goes through its form unchanged.              *)
LEMMA Restored ==
  ASSUME NEW form, NEW base \in Config, NEW config \in Config, FormFor(form, base), OneWriter(form),
         Regular(form, base, config), Defaulted(form, config), Complete(form, config)
  PROVE  /\ Applicable(base, form, Extracted(config, form), DOMAIN AssetType)
         /\ Applied(base, form, Extracted(config, form)) = config
<1> DEFINE values == Extracted(config, form)
           applied == Applied(base, form, values)
           given == Given(form, values)
           held(i) == config[form[i].target]
<1>0. FormOf(form)
  BY DEF FormFor
<1>1. ASSUME NEW i \in DOMAIN form
      PROVE  /\ AtField(form[i], base, config)
             /\ ~Blank(held(i)) => held(i) \notin {NoKey, NoNode, None}
             /\ Blank(held(i)) => Blank(form[i].default)
             /\ base[form[i].target] # NoNode
             /\ form[i].required => ~Blank(held(i))
  <2>1. AtField(form[i], base, config)
    BY DEF Regular
  <2>2. None \in Raw /\ NoKey \notin Raw /\ NoNode \notin Raw /\ Blank(None)
    BY RawTexts DEF Blank
  <2> QED BY <2>1, <2>2 DEF AtField, Defaulted, Complete, FormFor
<1>2. ASSUME NEW i \in DOMAIN form
      PROVE  /\ ~Blank(held(i)) => Chosen(form[i], values) = held(i)
             /\ Blank(held(i)) => Blank(Chosen(form[i], values))
             /\ i \in given <=> ~Blank(held(i))
  <2>1. IF held(i) \in {NoKey, NoNode, None} THEN form[i].id \notin DOMAIN values
        ELSE form[i].id \in DOMAIN values /\ values[form[i].id] = held(i)
    BY ExtractedAt DEF FormFor
  <2>2. Blank(None)
    BY DEF Blank
  <2> HIDE DEF values, held
  <2>3. ~Blank(held(i)) => Chosen(form[i], values) = held(i)
    BY <1>1, <2>1 DEF Chosen
  <2>4. Blank(held(i)) => Blank(Chosen(form[i], values))
    BY <1>1, <2>1, <2>2 DEF Chosen
  <2> QED BY <2>3, <2>4 DEF Given
<1>3. Applicable(base, form, values, DOMAIN AssetType)
  <2>1. DOMAIN values \subseteq {form[i].id : i \in DOMAIN form}
    BY DEF Extracted
  <2>2. ASSUME NEW i \in DOMAIN form, i \in given
        PROVE  Accepted(form[i], Chosen(form[i], values), DOMAIN AssetType)
    <3>1. ~Blank(held(i)) /\ Chosen(form[i], values) = held(i)
      BY <1>2, <2>2
    <3> HIDE DEF values
    <3> QED BY <1>1, <3>1 DEF AtField
  <2>3. \A i \in DOMAIN form : i \notin given => ~form[i].required
    BY <1>1, <1>2
  <2> HIDE DEF values
  <2> QED BY <1>1, <2>1, <2>2, <2>3 DEF Applicable
<1>4. ASSUME NEW t \in Targets PROVE applied[t] = config[t]
  <2>1. CASE Writers(base, form, values, t) = {}
    <3>1. applied[t] = base[t]
      BY <2>1 DEF Applied
    <3>2. ASSUME NEW i \in DOMAIN form, form[i].target = t PROVE base[t] = config[t]
      <4>1. i \notin given
        BY <2>1, <3>2 DEF Writers
      <4>2. Blank(held(i))
        BY <1>2, <4>1
      <4> QED BY <1>1, <3>2, <4>2 DEF AtField
    <3>3. CASE BesideAsset(form, config, t)
      <4>1. PICK i \in DOMAIN form :
              form[i].type = "ASSET" /\ Beside[form[i].target] = t /\ ~Blank(held(i))
        BY <3>3 DEF BesideAsset
      <4>2. i \in given
        BY <1>2, <4>1
      <4>3. base[t] = NoKey
        BY <2>1, <4>1, <4>2 DEF Writers
      <4> QED BY <3>1, <4>3 DEF Regular
    <3>4. CASE ~Named(form, t) /\ ~BesideAsset(form, config, t)
      BY <3>1, <3>4 DEF Regular
    <3> HIDE DEF applied
    <3> QED BY <3>1, <3>2, <3>3, <3>4 DEF Named
  <2>2. CASE Writers(base, form, values, t) # {}
    <3>1. PICK i \in Writers(base, form, values, t) : TRUE
      BY <2>2
    <3>2. /\ i \in DOMAIN form /\ i \in given
          /\ applied[t] = IF form[i].target = t THEN Converted(form[i].type, Chosen(form[i], values))
                          ELSE Str(AssetType[Converted(form[i].type, Chosen(form[i], values))[2]])
          /\ form[i].target # t =>
               form[i].type = "ASSET" /\ Beside[form[i].target] = t /\ base[t] # NoKey
      BY <1>0, WritesAlone
    <3>3. ~Blank(held(i)) /\ Chosen(form[i], values) = held(i)
      BY <1>2, <3>2
    <3>4. /\ Converted(form[i].type, held(i)) = held(i)
          /\ form[i].target # t => config[t] = Str(AssetType[held(i)[2]])
      BY <1>1, <3>2, <3>3 DEF AtField
    <3> HIDE DEF applied, values
    <3> QED BY <3>2, <3>3, <3>4
  <2> QED BY <2>1, <2>2
<1>5. applied = [t \in Targets |-> applied[t]]
  BY DEF Applied
<1>6. config = [t \in Targets |-> config[t]]
  BY DEF Config
<1> HIDE DEF applied
<1>7. applied = config
  BY <1>4, <1>5, <1>6
<1> QED BY <1>3, <1>7 DEF applied

(* A form makes repeatable drafts of its version and of repeatable ones.   *)
LEMMA FilledRepeatable ==
  ASSUME NEW form, NEW base \in Config, FormFor(form, base),
         NEW config \in Config, config = base \/ Repeatable(form, base, config),
         NEW values, \A id \in DOMAIN values : values[id] \in Raw,
         NEW readable \in SUBSET DOMAIN AssetType, NEW filled \in Filled(config, form, values, readable)
  PROVE  Repeatable(form, base, filled)
<1> SUFFICES ASSUME form # <<>>, OneWriter(form), Conforming(form, base)
             PROVE  Regular(form, base, filled) /\ Defaulted(form, filled)
  BY DEF Repeatable
<1>1. Regular(form, base, config)
  BY BaseRegular DEF Repeatable
<1>2. Applicable(config, form, values, readable) /\ filled = Applied(config, form, values)
  BY DEF Filled
<1> QED BY <1>1, <1>2, AppliedRegular

LEMMA FormForOK ==
  ASSUME NEW some \in Catalogs, NEW v \in Versions
  PROVE  FormFor(Schema(some[v].fields), some[v].base)
<1> DEFINE fields == some[v].fields
           form == Schema(fields)
<1>1. /\ \A i \in DOMAIN fields : TypedField(fields[i])
      /\ WellFormed(fields, some[v].base)
  BY DraftsAssumption
<1> HIDE DEF fields
<1>2. DOMAIN form = DOMAIN fields
  BY DEF Schema
<1>3. ASSUME NEW i \in DOMAIN fields
      PROVE  form[i].id = fields[i].id /\ form[i].target = fields[i].target
  <2>1. form[i] = [fields[i] EXCEPT !.default = NormalDefault(fields[i])]
    BY DEF Schema
  <2>2. TypedField(fields[i])
    BY <1>1
  <2> QED BY <2>1, <2>2 DEF TypedField
<1>4. FormOf(form)
  BY FormsOK DEF fields
<1> HIDE DEF form
<1>5. FormFor(form, some[v].base)
  BY <1>1, <1>2, <1>3, <1>4 DEF FormFor, WellFormed
<1> QED BY <1>5 DEF form, fields

-----------------------------------------------------------------------------
(* The invariant, part by part, of a catalogue, rows, runs, one transaction. *)
Follows(some, row) ==
  Exists(row) /\ row.marked =>
    LET v == row.source_template_version IN
    /\ v \in Versions
    /\ ~row.drawn => /\ Allowed(Schema(some[v].fields), some[v].base, row.config)
                     /\ Complete(Schema(some[v].fields), row.config)
                     /\ Repeatable(Schema(some[v].fields), some[v].base, row.config)

InOrder(order, rows) ==
  /\ order \subseteq rows \X rows
  /\ \A v, w \in rows : <<v, w>> \in order <=> v # w /\ <<w, v>> \notin order

Sound(tx, ws, rs) ==
  /\ tx.service = "update" /\ ~tx.behind =>
       /\ Exists(ws[tx.workflow]) /\ ws[tx.workflow].source_template_version # "none"
       /\ \A r \in Runs : rs[r].workflow # tx.workflow
  /\ tx.service = "start" => tx.draft.workflow = tx.workflow
  /\ tx.service = "cleanup" =>
       \A w \in tx.gone :
         /\ ws[w] # NoWorkflow
         /\ Exists(ws[w]) => ws[w].marked /\ ws[w].prepared = "stale"
         /\ \A r \in tx.seen : rs[r] # NoRun /\ rs[r].workflow # w

Inv ==
  /\ TypeOK
  /\ \A w \in Workflows : Follows(catalog, workflows[w])
  /\ \A t \in Slots : Sound(txn[t], workflows, runs)

(* What becomes of the transactions when the rows ws are written. *)
Later(tx, after, ws) ==
  \/ after = Idle
  \/ after = tx /\ (tx.service = "update" => tx.workflow \notin ws)
  \/ after \in Txn /\ after.service = "update" /\ after.behind

LEMMA RowShape ==
  /\ ~Exists(NoWorkflow) /\ ~Exists(Deleted) /\ NoWorkflow # Deleted
  /\ \A row \in Workflow : Exists(row)
  /\ \A row \in Workflow \cup {NoWorkflow, Deleted} : Exists(row) => row \in Workflow
  /\ \A run \in Run : run # NoRun /\ run.workflow \in Workflows
  /\ NoRun.workflow = "none" /\ "none" \notin Workflows
<1>1. ~Exists(NoWorkflow) /\ ~Exists(Deleted)
  BY DEF Exists
<1>2. NoWorkflow.status = "none" /\ Deleted.status = "deleted"
  BY DEF NoWorkflow, Deleted
<1>3. \A row \in Workflow : row.status \in {"DRAFT", "ACTIVE"}
  BY DEF Workflow
<1>4. \A row \in Workflow : Exists(row)
  BY <1>2, <1>3 DEF Exists
<1>5. \A row \in Workflow \cup {NoWorkflow, Deleted} : Exists(row) => row \in Workflow
  BY DEF Exists
<1>6. NoRun.workflow = "none" /\ "none" \notin Workflows
  BY DraftsAssumption DEF NoRun
<1>7. \A run \in Run : run.workflow \in Workflows
  BY DEF Run
<1>8. \A run \in Run : run # NoRun
  BY <1>6, <1>7
<1> QED BY <1>1, <1>2, <1>4, <1>5, <1>6, <1>7, <1>8

LEMMA TxnShape ==
  ASSUME NEW tx \in Txn \cup {Idle}
  PROVE  /\ Idle.service = "none"
         /\ tx.service = "update" =>
              /\ tx.workflow \in Workflows /\ tx.behind \in BOOLEAN
              /\ [tx EXCEPT !.behind = TRUE] \in Txn
              /\ [tx EXCEPT !.behind = TRUE].service = "update"
              /\ [tx EXCEPT !.behind = TRUE].behind
         /\ tx.service = "start" => tx.workflow \in Workflows /\ tx.draft \in Run
         /\ tx.service = "cleanup" => tx.gone \subseteq Workflows /\ tx.seen \subseteq Runs
<1>1. Idle.service = "none"
  BY DEF Idle
<1>2. CASE tx.service = "update"
  <2>1. tx \in [service : {"update"}, workflow : Workflows, behind : BOOLEAN]
    BY <1>1, <1>2 DEF Txn
  <2>2. [tx EXCEPT !.behind = TRUE] \in [service : {"update"}, workflow : Workflows, behind : BOOLEAN]
    BY <2>1
  <2> QED BY <1>1, <1>2, <2>1, <2>2 DEF Txn
<1>3. CASE tx.service = "start"
  <2>1. tx \in [service : {"start"}, workflow : Workflows, draft : Run]
    BY <1>1, <1>3 DEF Txn
  <2> QED BY <1>1, <1>3, <2>1
<1>4. CASE tx.service = "cleanup"
  <2>1. tx \in [service : {"cleanup"}, gone : SUBSET Workflows, seen : SUBSET Runs]
    BY <1>1, <1>4 DEF Txn
  <2> QED BY <1>1, <1>4, <2>1
<1> QED BY <1>1, <1>2, <1>3, <1>4

LEMMA Overtaken ==
  ASSUME TypeOK, NEW ws \in SUBSET Workflows,
         txn' = Overtake(ws) \/ \E t \in Slots : Commit(t, ws)
  PROVE  /\ txn' \in [Slots -> Txn \cup {Idle}]
         /\ \A s \in Slots : Later(txn[s], txn'[s], ws)
<1> DEFINE over == Overtake(ws)
<1>1. \A s \in Slots : txn[s] \in Txn \cup {Idle}
  BY DEF TypeOK
<1>2. ASSUME NEW s \in Slots
      PROVE  over[s] \in Txn \cup {Idle} /\ Later(txn[s], over[s], ws)
  <2>1. CASE Serving(s, "update") /\ txn[s].workflow \in ws
    <3>1. over[s] = [txn[s] EXCEPT !.behind = TRUE] /\ txn[s].service = "update"
      BY <2>1 DEF Overtake, Serving
    <3>2. over[s] \in Txn /\ over[s].service = "update" /\ over[s].behind
      BY <1>1, <3>1, TxnShape
    <3> HIDE DEF over
    <3> QED BY <3>2 DEF Later
  <2>2. CASE ~(Serving(s, "update") /\ txn[s].workflow \in ws)
    <3>1. over[s] = txn[s]
      BY <2>2 DEF Overtake
    <3> HIDE DEF over
    <3> QED BY <1>1, <2>2, <3>1 DEF Later, Serving
  <2> QED BY <2>1, <2>2
<1>3. over = [s \in Slots |-> over[s]]
  BY DEF Overtake
<1>4. CASE txn' = over
  <2> HIDE DEF over
  <2> QED BY <1>2, <1>3, <1>4
<1>5. CASE \E t \in Slots : Commit(t, ws)
  <2>1. PICK t \in Slots : txn' = [over EXCEPT ![t] = Idle]
    BY <1>5 DEF Commit
  <2> HIDE DEF over
  <2>2. DOMAIN over = Slots
    BY <1>3
  <2>3. txn' = [s \in Slots |-> IF s = t THEN Idle ELSE over[s]]
    BY <2>1, <2>2
  <2>4. \A s \in Slots : txn'[s] = IF s = t THEN Idle ELSE over[s]
    BY <2>3
  <2>5. \A s \in Slots : txn'[s] \in Txn \cup {Idle} /\ Later(txn[s], txn'[s], ws)
    BY <1>2, <2>4 DEF Later
  <2> QED BY <2>3, <2>5
<1> QED BY <1>4, <1>5

LEMMA YoungestInOrder ==
  ASSUME NEW order, NEW rows, InOrder(order, rows), NEW w
  PROVE  InOrder({p \in order : w \notin {p[1], p[2]}} \cup ((rows \ {w}) \X {w}), rows \cup {w})
<1> DEFINE young == {p \in order : w \notin {p[1], p[2]}} \cup ((rows \ {w}) \X {w})
<1>1. young \subseteq (rows \cup {w}) \X (rows \cup {w})
  BY DEF InOrder
<1>2. \A u, v \in rows \ {w} : <<u, v>> \in young <=> <<u, v>> \in order
  OBVIOUS
<1>3. \A u \in rows \ {w} : <<u, w>> \in young /\ <<w, u>> \notin young
  OBVIOUS
<1>4. <<w, w>> \notin young
  OBVIOUS
<1>5. \A u, v \in rows \cup {w} : <<u, v>> \in young <=> u # v /\ <<v, u>> \notin young
  <2> HIDE DEF young
  <2> QED BY <1>2, <1>3, <1>4 DEF InOrder
<1> HIDE DEF young
<1> QED BY <1>1, <1>5 DEF InOrder, young

-----------------------------------------------------------------------------
(* Writing one row: an insert, or a save of what the row was. *)
LEMMA RowWritten ==
  ASSUME Inv, NEW w \in Workflows, NEW row \in Workflow, Follows(catalog, row),
         workflows' = [workflows EXCEPT ![w] = row], older' = Youngest(w),
         catalog' = catalog, runs' = runs,
         \/ workflows[w] = NoWorkflow
         \/ Exists(workflows[w]) /\ row.marked = workflows[w].marked /\ row.prepared = workflows[w].prepared,
         NEW ws \in SUBSET Workflows, Exists(workflows[w]) => w \in ws,
         txn' \in [Slots -> Txn \cup {Idle}], \A s \in Slots : Later(txn[s], txn'[s], ws)
  PROVE  Inv'
<1>1. \A x \in Workflows : workflows'[x] = IF x = w THEN row ELSE workflows[x]
  BY DEF Inv, TypeOK
<1>2. TypeOK'
  <2>1. workflows' \in [Workflows -> Workflow \cup {NoWorkflow, Deleted}]
    BY DEF Inv, TypeOK
  <2>2. Rows' = Rows \cup {w}
    BY <1>1, RowShape DEF Rows
  <2>3. InOrder(older, Rows)
    BY DEF Inv, TypeOK, InOrder
  <2>4. InOrder(older', Rows')
    BY <2>2, <2>3, YoungestInOrder DEF Youngest
  <2>5. catalog' \in Catalogs /\ runs' \in [Runs -> Run \cup {NoRun}]
    BY DEF Inv, TypeOK
  <2> QED BY <2>1, <2>4, <2>5 DEF TypeOK, InOrder
<1>3. \A x \in Workflows : Follows(catalog', workflows'[x])
  BY <1>1 DEF Inv
<1>4. ASSUME NEW s \in Slots PROVE Sound(txn'[s], workflows', runs')
  <2>1. txn[s] \in Txn \cup {Idle} /\ Sound(txn[s], workflows, runs)
    BY DEF Inv, TypeOK
  <2>2. CASE txn'[s] = Idle
    BY <2>1, <2>2, TxnShape DEF Sound
  <2>3. CASE txn'[s] \in Txn /\ txn'[s].service = "update" /\ txn'[s].behind
    BY <2>3 DEF Sound
  <2>4. CASE txn'[s] = txn[s] /\ (txn[s].service = "update" => txn[s].workflow \notin ws)
    <3> DEFINE tx == txn[s]
    <3>1. tx.service = "update" /\ ~tx.behind =>
            /\ Exists(workflows'[tx.workflow])
            /\ workflows'[tx.workflow].source_template_version # "none"
            /\ \A r \in Runs : runs'[r].workflow # tx.workflow
      <4>1. tx.service = "update" /\ ~tx.behind => tx.workflow \in Workflows /\ tx.workflow # w
        BY <2>1, <2>4, TxnShape DEF Sound
      <4> QED BY <1>1, <2>1, <4>1 DEF Sound
    <3>2. tx.service = "start" => tx.draft.workflow = tx.workflow
      BY <2>1 DEF Sound
    <3>3. ASSUME tx.service = "cleanup", NEW x \in tx.gone
          PROVE  /\ workflows'[x] # NoWorkflow
                 /\ Exists(workflows'[x]) => workflows'[x].marked /\ workflows'[x].prepared = "stale"
                 /\ \A r \in tx.seen : runs'[r] # NoRun /\ runs'[r].workflow # x
      <4>1. /\ x \in Workflows /\ workflows[x] # NoWorkflow
            /\ Exists(workflows[x]) => workflows[x].marked /\ workflows[x].prepared = "stale"
            /\ \A r \in tx.seen : runs[r] # NoRun /\ runs[r].workflow # x
        BY <2>1, <3>3, TxnShape DEF Sound
      <4> HIDE DEF tx
      <4> QED BY <1>1, <4>1, RowShape
    <3>4. Sound(tx, workflows', runs')
      <4> HIDE DEF tx
      <4> QED BY <3>1, <3>2, <3>3 DEF Sound
    <3> QED BY <2>4, <3>4
  <2> QED BY <2>2, <2>3, <2>4 DEF Later
<1> QED BY <1>2, <1>3, <1>4 DEF Inv

LEMMA Inserted ==
  ASSUME Inv, NEW row \in Workflow, Follows(catalog, row), Insert(row), UNCHANGED txn
  PROVE  Inv'
<1>1. PICK w \in Workflows :
        /\ workflows[w] = NoWorkflow /\ workflows' = [workflows EXCEPT ![w] = row]
        /\ older' = Youngest(w)
  BY DEF Insert
<1>2. catalog' = catalog /\ runs' = runs
  BY DEF Insert
<1>3. txn' \in [Slots -> Txn \cup {Idle}] /\ \A s \in Slots : Later(txn[s], txn'[s], {})
  BY DEF Inv, TypeOK, Later
<1>4. ~Exists(workflows[w])
  BY <1>1, RowShape
<1> QED BY <1>1, <1>2, <1>3, <1>4, RowWritten

LEMMA Saved ==
  ASSUME Inv, NEW w \in Workflows, Exists(workflows[w]),
         NEW row \in Workflow, Follows(catalog, row),
         row.marked = workflows[w].marked, row.prepared = workflows[w].prepared,
         Save(w, row), txn' = Overtake({w}) \/ \E t \in Slots : Commit(t, {w})
  PROVE  Inv'
<1>1. /\ txn' \in [Slots -> Txn \cup {Idle}]
      /\ \A s \in Slots : Later(txn[s], txn'[s], {w})
  <2>1. {w} \in SUBSET Workflows
    OBVIOUS
  <2> QED BY <2>1, Overtaken DEF Inv
<1> QED BY <1>1, RowWritten DEF Save

-----------------------------------------------------------------------------
(* The operations. *)
LEMMA DraftRow ==
  ASSUME NEW v \in Versions \cup {"none"}, NEW config \in Config, NEW marked \in BOOLEAN
  PROVE  /\ Draft(v, config, marked) \in Workflow
         /\ Draft(v, config, marked).config = config /\ Draft(v, config, marked).marked = marked
         /\ Draft(v, config, marked).source_template_version = v
BY DEF Draft, Workflow

(* A draft made of a version: of its base, by its form. *)
LEMMA DraftFollows ==
  ASSUME Inv, NEW v \in Versions, NEW config \in Config,
         Allowed(Form(v), catalog[v].base, config), Complete(Form(v), config),
         Repeatable(Form(v), catalog[v].base, config)
  PROVE  Draft(v, config, TRUE) \in Workflow /\ Follows(catalog, Draft(v, config, TRUE))
<1> DEFINE row == Draft(v, config, TRUE)
<1>1. row \in Workflow /\ row.config = config /\ row.source_template_version = v
  BY DraftRow
<1> HIDE DEF row
<1>2. Follows(catalog, row)
  BY <1>1 DEF Follows, Form
<1> QED BY <1>1, <1>2 DEF row

LEMMA FormOK ==
  ASSUME Inv, NEW v \in Versions
  PROVE  FormFor(Form(v), catalog[v].base) /\ FormOf(Form(v)) /\ catalog[v].base \in Config
         /\ Allowed(Form(v), catalog[v].base, catalog[v].base)
<1>1. catalog \in Catalogs
  BY DEF Inv, TypeOK
<1> QED BY <1>1, FormsOK, FormForOK DEF Form, Allowed

LEMMA SaveWorkflowKeeps ==
  ASSUME Inv, NEW drawing \in Drawings, SaveWorkflow(drawing)
  PROVE  Inv'
<1>0. drawing.config \in Config /\ drawing.status \in {"DRAFT", "ACTIVE"}
  BY DraftsAssumption
<1> DEFINE first == [Draft("none", drawing.config, FALSE) EXCEPT !.status = drawing.status, !.drawn = TRUE]
           again(w) == [workflows[w] EXCEPT !.config = drawing.config, !.status = drawing.status,
                                            !.drawn = TRUE]
<1>1. CASE Insert(first) /\ UNCHANGED txn
  <2>1. Draft("none", drawing.config, FALSE) \in Workflow /\ Draft("none", drawing.config, FALSE).marked = FALSE
    BY <1>0, DraftRow
  <2>2. first \in Workflow /\ ~first.marked
    BY <1>0, <2>1 DEF Workflow
  <2> HIDE DEF first
  <2>3. Follows(catalog, first)
    BY <2>2 DEF Follows
  <2> QED BY <1>1, <2>2, <2>3, Inserted
<1>2. CASE \E w \in Workflows :
             Exists(workflows[w]) /\ Save(w, again(w)) /\ txn' = Overtake({w})
  <2>1. PICK w \in Workflows :
          Exists(workflows[w]) /\ Save(w, again(w)) /\ txn' = Overtake({w})
    BY <1>2
  <2>2. workflows[w] \in Workflow /\ Follows(catalog, workflows[w])
    BY <2>1, RowShape DEF Inv, TypeOK
  <2> DEFINE row == again(w)
  <2>3. /\ row \in Workflow /\ row.marked = workflows[w].marked /\ row.prepared = workflows[w].prepared
        /\ row.source_template_version = workflows[w].source_template_version /\ row.drawn
    BY <1>0, <2>2 DEF Workflow
  <2>4. Save(w, row)
    BY <2>1
  <2> HIDE DEF row
  <2>5. Follows(catalog, row)
    BY <2>1, <2>2, <2>3 DEF Follows
  <2> QED BY <2>1, <2>3, <2>4, <2>5, Saved
<1> QED BY <1>1, <1>2 DEF SaveWorkflow

LEMMA CreateKeeps ==
  ASSUME Inv, NEW v \in Versions, CreateWorkflowFromTemplate(v)
  PROVE  Inv'
<1> DEFINE row == Draft(v, catalog[v].base, FALSE)
<1>1. row \in Workflow /\ row.marked = FALSE
  BY FormOK, DraftRow
<1>2. Insert(row) /\ UNCHANGED txn
  BY DEF CreateWorkflowFromTemplate
<1> HIDE DEF row
<1>3. Follows(catalog, row)
  BY <1>1 DEF Follows
<1> QED BY <1>1, <1>2, <1>3, Inserted

LEMMA PrepareKeeps ==
  ASSUME Inv, NEW v \in Versions, NEW values \in Submissions, NEW readable \in SUBSET DOMAIN AssetType,
         PrepareWorkflowFromTemplate(v, values, readable)
  PROVE  Inv'
<1>1. PICK config \in Filled(catalog[v].base, Form(v), values, readable) :
        Insert(Draft(v, config, TRUE)) /\ UNCHANGED txn
  BY DEF PrepareWorkflowFromTemplate
<1>2. \A id \in DOMAIN values : values[id] \in Raw
  BY DraftsAssumption
<1>3. /\ config \in Config /\ Allowed(Form(v), catalog[v].base, config)
      /\ Complete(Form(v), config) /\ Repeatable(Form(v), catalog[v].base, config)
  BY <1>2, FormOK, FilledForm, FilledRepeatable
<1> QED BY <1>1, <1>3, DraftFollows, Inserted

LEMMA RerunKeeps ==
  ASSUME Inv, NEW r \in Runs, NEW readable \in SUBSET DOMAIN AssetType,
         PrepareRerunFromRun(r, readable)
  PROVE  Inv'
<1> DEFINE v == runs[r].source_template_version
           row == workflows[runs[r].workflow]
           values == Extracted(row.config, Form(v))
<1>1. runs[r] \in Run /\ v # "none" /\ Exists(row)
  BY DEF PrepareRerunFromRun, Inv, TypeOK
<1>2. v \in Versions /\ runs[r].workflow \in Workflows
  BY <1>1 DEF Run
<1>3. row \in Workflow
  BY <1>1, <1>2, RowShape DEF Inv, TypeOK
<1>4. row.config \in Config
  BY <1>3 DEF Workflow
<1>5. PICK config \in IF Form(v) = <<>> THEN {catalog[v].base}
                      ELSE Filled(catalog[v].base, Form(v), values, readable) :
        Insert(Draft(v, config, TRUE)) /\ UNCHANGED txn
  BY DEF PrepareRerunFromRun
<1> HIDE DEF v, row
<1>6. \A id \in DOMAIN values : values[id] \in Raw
  BY <1>2, <1>4, FormOK, ExtractedRaw
<1> HIDE DEF values
<1>7. /\ config \in Config /\ Allowed(Form(v), catalog[v].base, config)
      /\ Complete(Form(v), config) /\ Repeatable(Form(v), catalog[v].base, config)
  <2>1. CASE Form(v) = <<>>
    <3>1. Complete(Form(v), config) /\ Repeatable(Form(v), catalog[v].base, config)
      BY <2>1 DEF Complete, Repeatable
    <3>2. config = catalog[v].base
      BY <1>5, <2>1
    <3> QED BY <1>2, <3>1, <3>2, FormOK
  <2>2. CASE Form(v) # <<>>
    <3>1. config \in Filled(catalog[v].base, Form(v), values, readable)
      BY <1>5, <2>2
    <3> QED BY <1>2, <1>6, <3>1, FormOK, FilledForm, FilledRepeatable
  <2> QED BY <2>1, <2>2
<1> QED BY <1>2, <1>5, <1>7, DraftFollows, Inserted

(* The draft an update saves is the one it read. *)
LEMMA UpdateSaves ==
  ASSUME Inv, NEW t \in Slots, NEW values \in Submissions, NEW readable \in SUBSET DOMAIN AssetType,
         UpdateRerunDraftValues(t, values, readable)
  PROVE  /\ txn[t].workflow \in Workflows /\ workflows[txn[t].workflow] \in Workflow
         /\ ~HasRun(txn[t].workflow)
         /\ workflows[txn[t].workflow].source_template_version \in Versions
         /\ Commit(t, {txn[t].workflow})
         /\ LET row == workflows[txn[t].workflow] IN
            \E config \in Filled(row.config, Form(row.source_template_version), values, readable) :
              Save(txn[t].workflow, [row EXCEPT !.config = config])
<1>1. txn[t] \in Txn \cup {Idle} /\ txn[t].service = "update" /\ ~txn[t].behind
  BY DEF UpdateRerunDraftValues, Serving, Latest, Inv, TypeOK
<1>2. txn[t].workflow \in Workflows
  BY <1>1, TxnShape
<1>3. /\ Exists(workflows[txn[t].workflow])
      /\ workflows[txn[t].workflow].source_template_version # "none" /\ ~HasRun(txn[t].workflow)
  BY <1>1 DEF Inv, Sound, HasRun
<1>4. workflows[txn[t].workflow] \in Workflow
  BY <1>2, <1>3, RowShape DEF Inv, TypeOK
<1> QED BY <1>2, <1>3, <1>4 DEF UpdateRerunDraftValues, Workflow

LEMMA UpdateKeeps ==
  ASSUME Inv, NEW t \in Slots, NEW values \in Submissions, NEW readable \in SUBSET DOMAIN AssetType,
         UpdateRerunDraftValues(t, values, readable)
  PROVE  Inv'
<1> DEFINE w == txn[t].workflow
           row == workflows[w]
           v == row.source_template_version
<1>1. w \in Workflows /\ row \in Workflow /\ v \in Versions /\ Commit(t, {w})
  BY UpdateSaves
<1>2. PICK config \in Filled(row.config, Form(v), values, readable) : Save(w, [row EXCEPT !.config = config])
  BY UpdateSaves
<1>3. Follows(catalog, row) /\ Exists(row)
  BY <1>1, RowShape DEF Inv
<1>4. \A id \in DOMAIN values : values[id] \in Raw
  BY DraftsAssumption
<1> DEFINE new == [row EXCEPT !.config = config]
<1>5. Save(w, new)
  BY <1>2
<1>6. row.config \in Config
  BY <1>1 DEF Workflow
<1> HIDE DEF w
<1>7. config \in Config
  <2> HIDE DEF row, v
  <2> QED BY <1>1, <1>2, <1>4, <1>6, FormOK, FilledConfig
<1>8. /\ new \in Workflow /\ new.config = config /\ new.source_template_version = v
      /\ new.marked = row.marked /\ new.drawn = row.drawn /\ new.prepared = row.prepared
  <2> HIDE DEF row
  <2> QED BY <1>1, <1>7 DEF Workflow, v
<1> HIDE DEF new
<1>9. Follows(catalog, new)
  <2>1. ASSUME row.marked, ~row.drawn
        PROVE  /\ Allowed(Form(v), catalog[v].base, config) /\ Complete(Form(v), config)
               /\ Repeatable(Form(v), catalog[v].base, config)
    <3>1. /\ Allowed(Form(v), catalog[v].base, row.config)
          /\ Repeatable(Form(v), catalog[v].base, row.config)
      BY <1>3, <2>1 DEF Follows, Form
    <3> HIDE DEF row, v
    <3> QED BY <1>1, <1>2, <1>4, <1>6, <3>1, FormOK, FilledForm, FilledRepeatable
  <2> HIDE DEF row, v
  <2> QED BY <1>1, <1>8, <2>1 DEF Follows, Form
<1> QED BY <1>1, <1>3, <1>5, <1>8, <1>9, Saved

(* A request begins, or ends without writing. *)
LEMMA TxnWritten ==
  ASSUME Inv, NEW t \in Slots, NEW tx \in Txn \cup {Idle}, Sound(tx, workflows, runs),
         txn' = [txn EXCEPT ![t] = tx], UNCHANGED <<catalog, workflows, older, runs>>
  PROVE  Inv'
<1>1. TypeOK'
  BY DEF Inv, TypeOK, Rows
<1>2. \A s \in Slots : Sound(txn'[s], workflows', runs')
  <2>1. \A s \in Slots : txn'[s] = IF s = t THEN tx ELSE txn[s]
    BY DEF Inv, TypeOK
  <2> QED BY <2>1 DEF Inv
<1>3. \A w \in Workflows : Follows(catalog', workflows'[w])
  BY DEF Inv
<1> QED BY <1>1, <1>2, <1>3 DEF Inv

LEMMA RaiseKeeps ==
  ASSUME Inv, NEW t \in Slots, Raise(t)
  PROVE  Inv'
<1>1. Sound(Idle, workflows, runs)
  BY DEF Sound, Idle
<1> QED BY <1>1, TxnWritten DEF Raise

LEMMA UpdateBeginKeeps ==
  ASSUME Inv, NEW t \in Slots, NEW w \in Workflows, UpdateBegin(t, w)
  PROVE  Inv'
<1> DEFINE tx == [service |-> "update", workflow |-> w, behind |-> FALSE]
<1>1. tx \in Txn
  BY DEF Txn
<1>2. Sound(tx, workflows, runs)
  BY DEF UpdateBegin, Unrun, HasRun, Sound
<1> QED BY <1>1, <1>2, TxnWritten DEF UpdateBegin, Begin

LEMMA StartBeginKeeps ==
  ASSUME Inv, NEW t \in Slots, NEW w \in Workflows, StartBegin(t, w)
  PROVE  Inv'
<1> DEFINE draft == [workflow |-> w, config |-> workflows[w].config,
                     source_template_version |-> workflows[w].source_template_version]
           tx == [service |-> "start", workflow |-> w, draft |-> draft]
<1>1. workflows[w] \in Workflow
  BY RowShape DEF StartBegin, Inv, TypeOK
<1>2. draft \in Run
  BY <1>1 DEF Run, Workflow
<1>3. tx \in Txn
  <2> HIDE DEF draft
  <2> QED BY <1>2 DEF Txn
<1>4. Sound(tx, workflows, runs)
  BY DEF Sound
<1>5. txn' = [txn EXCEPT ![t] = tx] /\ UNCHANGED <<catalog, workflows, older, runs>>
  BY DEF StartBegin, Begin
<1> HIDE DEF tx
<1> QED BY <1>3, <1>4, <1>5, TxnWritten

LEMMA CleanupBeginKeeps ==
  ASSUME Inv, NEW t \in Slots, CleanupBegin(t)
  PROVE  Inv'
<1> DEFINE gone == {w \in Batch : Disposable(w)}
           seen == {r \in Runs : runs[r] # NoRun}
           tx == [service |-> "cleanup", gone |-> gone, seen |-> seen]
<1>1. gone \subseteq Workflows /\ seen \subseteq Runs
  BY DEF Batch, Marked, Rows
<1>2. \A w \in gone : /\ workflows[w] # NoWorkflow /\ workflows[w].marked
                      /\ workflows[w].prepared = "stale" /\ ~HasRun(w)
  BY RowShape DEF Batch, Marked, Rows, Disposable
<1>3. \A r \in seen : r \in Runs /\ runs[r] # NoRun
  OBVIOUS
<1>4. txn' = [txn EXCEPT ![t] = tx] /\ UNCHANGED <<catalog, workflows, older, runs>>
  BY DEF CleanupBegin, Begin
<1> HIDE DEF gone, seen
<1>5. tx \in Txn
  BY <1>1 DEF Txn
<1>6. Sound(tx, workflows, runs)
  BY <1>2, <1>3 DEF Sound, HasRun
<1> HIDE DEF tx
<1> QED BY <1>4, <1>5, <1>6, TxnWritten

LEMMA StartRunKeeps ==
  ASSUME Inv, NEW t \in Slots, StartRun(t)
  PROVE  Inv'
<1> DEFINE w == txn[t].workflow
<1>1. txn[t] \in Txn \cup {Idle} /\ txn[t].service = "start" /\ Sound(txn[t], workflows, runs)
  BY DEF StartRun, Serving, Inv, TypeOK
<1>2. w \in Workflows /\ txn[t].draft \in Run /\ txn[t].draft.workflow = w
  BY <1>1, TxnShape DEF Sound
<1>3. PICK r \in Runs : runs[r] = NoRun /\ runs' = [runs EXCEPT ![r] = txn[t].draft]
  BY DEF StartRun
<1>4. /\ older' = IF Touched(w) = {} THEN older ELSE Youngest(w)
      /\ Commit(t, Touched(w)) /\ catalog' = catalog /\ workflows' = workflows
  BY DEF StartRun
<1> HIDE DEF w
<1>5. Touched(w) \in SUBSET Workflows /\ (Exists(workflows[w]) => w \in Touched(w))
  BY <1>2 DEF Touched
<1>6. txn' \in [Slots -> Txn \cup {Idle}] /\ \A s \in Slots : Later(txn[s], txn'[s], Touched(w))
  BY <1>4, <1>5, Overtaken DEF Inv
<1>7. \A q \in Runs : runs'[q] = IF q = r THEN txn[t].draft ELSE runs[q]
  BY <1>3 DEF Inv, TypeOK
<1>8. TypeOK'
  <2>1. runs' \in [Runs -> Run \cup {NoRun}]
    BY <1>2, <1>3 DEF Inv, TypeOK
  <2>2. InOrder(older, Rows) /\ Rows' = Rows
    BY <1>4 DEF Inv, TypeOK, InOrder, Rows
  <2>3. InOrder(older', Rows')
    <3>1. CASE Touched(w) = {}
      BY <1>4, <2>2, <3>1
    <3>2. CASE Touched(w) # {}
      <4>1. w \in Rows
        BY <1>2, <3>2 DEF Touched, Rows
      <4>2. Rows \cup {w} = Rows
        BY <4>1
      <4>3. InOrder(Youngest(w), Rows \cup {w})
        BY <2>2, YoungestInOrder DEF Youngest
      <4> QED BY <1>4, <2>2, <3>2, <4>2, <4>3
    <3> QED BY <3>1, <3>2
  <2> QED BY <1>4, <1>6, <2>1, <2>3 DEF Inv, TypeOK, InOrder
<1>9. \A x \in Workflows : Follows(catalog', workflows'[x])
  BY <1>4 DEF Inv
<1>10. ASSUME NEW s \in Slots PROVE Sound(txn'[s], workflows', runs')
  <2> DEFINE tx == txn[s]
  <2>1. tx \in Txn \cup {Idle} /\ Sound(tx, workflows, runs)
    BY DEF Inv, TypeOK
  <2>2. CASE txn'[s] = Idle
    BY <2>1, <2>2, TxnShape DEF Sound
  <2>3. CASE txn'[s] \in Txn /\ txn'[s].service = "update" /\ txn'[s].behind
    BY <2>3 DEF Sound
  <2>4. CASE txn'[s] = tx /\ (tx.service = "update" => tx.workflow \notin Touched(w))
    <3> HIDE DEF tx
    <3>1. tx.service = "update" /\ ~tx.behind =>
            /\ Exists(workflows[tx.workflow])
            /\ workflows[tx.workflow].source_template_version # "none"
            /\ \A q \in Runs : runs'[q].workflow # tx.workflow
      <4>1. tx.service = "update" /\ ~tx.behind => tx.workflow # w
        BY <1>5, <2>1, <2>4 DEF Sound
      <4> QED BY <1>2, <1>7, <2>1, <4>1 DEF Sound
    <3>2. tx.service = "start" => tx.draft.workflow = tx.workflow
      BY <2>1 DEF Sound
    <3>3. ASSUME tx.service = "cleanup", NEW x \in tx.gone
          PROVE  /\ workflows[x] # NoWorkflow
                 /\ Exists(workflows[x]) => workflows[x].marked /\ workflows[x].prepared = "stale"
                 /\ \A q \in tx.seen : runs'[q] # NoRun /\ runs'[q].workflow # x
      <4>1. tx.seen \subseteq Runs
        BY <2>1, <3>3, TxnShape
      <4>2. /\ workflows[x] # NoWorkflow
            /\ Exists(workflows[x]) => workflows[x].marked /\ workflows[x].prepared = "stale"
            /\ \A q \in tx.seen : runs[q] # NoRun /\ runs[q].workflow # x
        BY <2>1, <3>3 DEF Sound
      <4>3. r \notin tx.seen
        BY <1>3, <4>2
      <4> QED BY <1>7, <4>1, <4>2, <4>3
    <3>4. Sound(tx, workflows', runs')
      BY <1>4, <3>1, <3>2, <3>3 DEF Sound
    <3> QED BY <2>4, <3>4
  <2> QED BY <1>6, <2>2, <2>3, <2>4 DEF Later
<1> QED BY <1>8, <1>9, <1>10 DEF Inv

LEMMA CleanupKeeps ==
  ASSUME Inv, NEW t \in Slots, CleanupStaleToolDrafts(t)
  PROVE  Inv'
<1> DEFINE gone == txn[t].gone
<1>1. txn[t] \in Txn \cup {Idle} /\ txn[t].service = "cleanup"
  BY DEF CleanupStaleToolDrafts, Serving, Inv, TypeOK
<1>2. gone \in SUBSET Workflows
  BY <1>1, TxnShape
<1>3. /\ workflows' = [w \in Workflows |-> IF w \in gone THEN Deleted ELSE workflows[w]]
      /\ older' = {p \in older : p[1] \notin gone /\ p[2] \notin gone}
      /\ Commit(t, gone) /\ catalog' = catalog /\ runs' = runs
  BY DEF CleanupStaleToolDrafts
<1> HIDE DEF gone
<1>4. txn' \in [Slots -> Txn \cup {Idle}] /\ \A s \in Slots : Later(txn[s], txn'[s], gone)
  BY <1>2, <1>3, Overtaken DEF Inv
<1>5. \A x \in Workflows : workflows'[x] = IF x \in gone THEN Deleted ELSE workflows[x]
  BY <1>3
<1>6. TypeOK'
  <2>1. workflows' \in [Workflows -> Workflow \cup {NoWorkflow, Deleted}]
    BY <1>3 DEF Inv, TypeOK
  <2>2. InOrder(older, Rows)
    BY DEF Inv, TypeOK, InOrder
  <2>3. Rows' = Rows \ gone
    BY <1>5, RowShape DEF Rows
  <2>4. InOrder(older', Rows')
    <3>1. older' \subseteq Rows' \X Rows'
      BY <1>3, <2>2, <2>3 DEF InOrder
    <3>2. \A v, w \in Rows' : <<v, w>> \in older' <=> <<v, w>> \in older
      BY <1>3, <2>3
    <3> QED BY <2>2, <2>3, <3>1, <3>2 DEF InOrder
  <2> QED BY <1>3, <1>4, <2>1, <2>4 DEF Inv, TypeOK, InOrder
<1>7. \A x \in Workflows : Follows(catalog', workflows'[x])
  BY <1>3, <1>5, RowShape DEF Inv, Follows
<1>8. ASSUME NEW s \in Slots PROVE Sound(txn'[s], workflows', runs')
  <2> DEFINE tx == txn[s]
  <2>1. tx \in Txn \cup {Idle} /\ Sound(tx, workflows, runs)
    BY DEF Inv, TypeOK
  <2>2. CASE txn'[s] = Idle
    BY <2>1, <2>2, TxnShape DEF Sound
  <2>3. CASE txn'[s] \in Txn /\ txn'[s].service = "update" /\ txn'[s].behind
    BY <2>3 DEF Sound
  <2>4. CASE txn'[s] = tx /\ (tx.service = "update" => tx.workflow \notin gone)
    <3> HIDE DEF tx
    <3>1. tx.service = "update" /\ ~tx.behind =>
            /\ Exists(workflows'[tx.workflow])
            /\ workflows'[tx.workflow].source_template_version # "none"
            /\ \A q \in Runs : runs[q].workflow # tx.workflow
      BY <1>5, <2>1, <2>4, TxnShape DEF Sound
    <3>2. tx.service = "start" => tx.draft.workflow = tx.workflow
      BY <2>1 DEF Sound
    <3>3. ASSUME tx.service = "cleanup", NEW x \in tx.gone
          PROVE  /\ workflows'[x] # NoWorkflow
                 /\ Exists(workflows'[x]) => workflows'[x].marked /\ workflows'[x].prepared = "stale"
                 /\ \A q \in tx.seen : runs[q] # NoRun /\ runs[q].workflow # x
      <4>1. x \in Workflows
        BY <2>1, <3>3, TxnShape
      <4>2. /\ workflows[x] # NoWorkflow
            /\ Exists(workflows[x]) => workflows[x].marked /\ workflows[x].prepared = "stale"
            /\ \A q \in tx.seen : runs[q] # NoRun /\ runs[q].workflow # x
        BY <2>1, <3>3 DEF Sound
      <4> QED BY <1>5, <4>1, <4>2, RowShape
    <3>4. Sound(tx, workflows', runs')
      BY <1>3, <3>1, <3>2, <3>3 DEF Sound
    <3> QED BY <2>4, <3>4
  <2> QED BY <1>4, <2>2, <2>3, <2>4 DEF Later
<1> QED BY <1>6, <1>7, <1>8 DEF Inv

(* What ageing does to a row: nothing but its prepared. *)
LEMMA AgeRow ==
  ASSUME Inv, NEW w \in Workflows, Age(w), NEW x \in Workflows
  PROVE  /\ workflows'[x] \in Workflow \cup {NoWorkflow, Deleted}
         /\ Exists(workflows'[x]) <=> Exists(workflows[x])
         /\ workflows'[x] = NoWorkflow <=> workflows[x] = NoWorkflow
         /\ workflows'[x] = Deleted <=> workflows[x] = Deleted
         /\ Exists(workflows[x]) =>
              /\ workflows'[x].source_template_version = workflows[x].source_template_version
              /\ workflows'[x].marked = workflows[x].marked
              /\ workflows'[x].drawn = workflows[x].drawn
              /\ workflows'[x].config = workflows[x].config
              /\ workflows[x].prepared = "stale" => workflows'[x].prepared = "stale"
<1>1. workflows' = [workflows EXCEPT ![w].prepared = "stale"] /\ Exists(workflows[w])
  BY DEF Age
<1>2. workflows \in [Workflows -> Workflow \cup {NoWorkflow, Deleted}]
  BY DEF Inv, TypeOK
<1>3. workflows[w] \in Workflow
  BY <1>1, <1>2, RowShape
<1>4. workflows'[x] = IF x = w THEN [workflows[w] EXCEPT !.prepared = "stale"] ELSE workflows[x]
  BY <1>1, <1>2
<1> DEFINE row == [workflows[w] EXCEPT !.prepared = "stale"]
<1>5. /\ row \in Workflow /\ row.source_template_version = workflows[w].source_template_version
      /\ row.marked = workflows[w].marked /\ row.drawn = workflows[w].drawn
      /\ row.config = workflows[w].config /\ row.prepared = "stale"
  BY <1>3 DEF Workflow
<1>6. Exists(row) /\ row # NoWorkflow /\ row # Deleted
  <2> HIDE DEF row
  <2> QED BY <1>5, RowShape
<1>7. workflows'[x] = IF x = w THEN row ELSE workflows[x]
  BY <1>4
<1> HIDE DEF row
<1>8. workflows[w] # NoWorkflow /\ workflows[w] # Deleted
  BY <1>1, RowShape
<1>9. CASE x = w
  BY <1>1, <1>5, <1>6, <1>7, <1>8, <1>9
<1>10. CASE x # w
  BY <1>2, <1>7, <1>10
<1> QED BY <1>9, <1>10

LEMMA AgeKeeps ==
  ASSUME Inv, NEW w \in Workflows, Age(w)
  PROVE  Inv'
<1>0. UNCHANGED <<catalog, older, runs, txn>>
  BY DEF Age
<1>1. TypeOK'
  <2>1. workflows' \in [Workflows -> Workflow \cup {NoWorkflow, Deleted}]
    <3>1. DOMAIN workflows' = Workflows /\ workflows' = [x \in Workflows |-> workflows'[x]]
      BY DEF Age, Inv, TypeOK
    <3> QED BY <3>1, AgeRow
  <2>2. Rows' = Rows
    BY AgeRow DEF Rows
  <2> QED BY <1>0, <2>1, <2>2 DEF Inv, TypeOK
<1>2. \A x \in Workflows : Follows(catalog', workflows'[x])
  BY <1>0, AgeRow DEF Inv, Follows
<1>3. ASSUME NEW s \in Slots PROVE Sound(txn'[s], workflows', runs')
  <2> DEFINE tx == txn[s]
  <2>1. tx \in Txn \cup {Idle} /\ Sound(tx, workflows, runs) /\ txn'[s] = tx
    BY <1>0 DEF Inv, TypeOK
  <2> HIDE DEF tx
  <2>2. tx.service = "update" /\ ~tx.behind =>
          /\ Exists(workflows'[tx.workflow])
          /\ workflows'[tx.workflow].source_template_version # "none"
          /\ \A q \in Runs : runs[q].workflow # tx.workflow
    BY <2>1, TxnShape, AgeRow DEF Sound
  <2>3. tx.service = "start" => tx.draft.workflow = tx.workflow
    BY <2>1 DEF Sound
  <2>4. ASSUME tx.service = "cleanup", NEW x \in tx.gone
        PROVE  /\ workflows'[x] # NoWorkflow
               /\ Exists(workflows'[x]) => workflows'[x].marked /\ workflows'[x].prepared = "stale"
               /\ \A q \in tx.seen : runs[q] # NoRun /\ runs[q].workflow # x
    <3>1. x \in Workflows
      BY <2>1, <2>4, TxnShape
    <3>2. /\ workflows[x] # NoWorkflow
          /\ Exists(workflows[x]) => workflows[x].marked /\ workflows[x].prepared = "stale"
          /\ \A q \in tx.seen : runs[q] # NoRun /\ runs[q].workflow # x
      BY <2>1, <2>4 DEF Sound
    <3> QED BY <3>1, <3>2, AgeRow
  <2> QED BY <1>0, <2>1, <2>2, <2>3, <2>4 DEF Sound
<1> QED BY <1>1, <1>2, <1>3 DEF Inv

-----------------------------------------------------------------------------
LEMMA InitInv == Init => Inv
<1> SUFFICES ASSUME Init PROVE Inv
  OBVIOUS
<1>1. TypeOK
  BY RowShape DEF Init, TypeOK, Rows
<1>2. \A w \in Workflows : Follows(catalog, workflows[w])
  BY RowShape DEF Init, Follows
<1>3. \A t \in Slots : Sound(txn[t], workflows, runs)
  BY DEF Init, Sound, Idle
<1> QED BY <1>1, <1>2, <1>3 DEF Inv

LEMMA NextInv == Inv /\ [Next]_vars => Inv'
<1> SUFFICES ASSUME Inv, [Next]_vars PROVE Inv'
  OBVIOUS
<1>1. CASE UNCHANGED vars
  <2>1. TypeOK'
    BY <1>1 DEF Inv, TypeOK, Rows, vars
  <2>2. catalog' = catalog /\ workflows' = workflows /\ runs' = runs /\ txn' = txn
    BY <1>1 DEF vars
  <2> QED BY <2>1, <2>2 DEF Inv
<1>2. CASE \E drawing \in Drawings : SaveWorkflow(drawing)
  BY <1>2, SaveWorkflowKeeps
<1>3. CASE \E v \in Versions : CreateWorkflowFromTemplate(v)
  BY <1>3, CreateKeeps
<1>4. ASSUME NEW readable \in SUBSET DOMAIN AssetType,
             \/ \E v \in Versions, values \in Submissions :
                  PrepareWorkflowFromTemplate(v, values, readable)
             \/ \E r \in Runs : PrepareRerunFromRun(r, readable)
             \/ \E t \in Slots, values \in Submissions : UpdateRerunDraftValues(t, values, readable)
      PROVE  Inv'
  BY <1>4, PrepareKeeps, RerunKeeps, UpdateKeeps
<1>5. ASSUME NEW t \in Slots,
             \/ \E w \in Workflows : UpdateBegin(t, w) \/ StartBegin(t, w)
             \/ CleanupBegin(t) \/ StartRun(t) \/ CleanupStaleToolDrafts(t) \/ Raise(t)
      PROVE  Inv'
  BY <1>5, UpdateBeginKeeps, StartBeginKeeps, CleanupBeginKeeps, StartRunKeeps, CleanupKeeps, RaiseKeeps
<1>6. CASE \E w \in Workflows : Age(w)
  BY <1>6, AgeKeeps
<1> QED BY <1>1, <1>2, <1>3, <1>4, <1>5, <1>6 DEF Next

LEMMA Invariance == Spec => []Inv
BY InitInv, NextInv, PTL DEF Spec

(* Every reachable state has its types, and the rows are always in an      *)
(* order of modification.                                                  *)
THEOREM TypeCorrect == Spec => []TypeOK
<1>1. Inv => TypeOK
  BY DEF Inv
<1> QED BY <1>1, Invariance, PTL

(* However often a tool draft is filled, updated and rerun, it differs     *)
(* from its template version only where and how the form lets it, and no   *)
(* required input is blank.                                                *)
THEOREM FormFollowed == Spec => []DraftFollowsForm
<1>1. Inv => DraftFollowsForm
  <2> SUFFICES ASSUME Inv, NEW w \in Workflows,
                      Exists(workflows[w]) /\ workflows[w].marked /\ ~workflows[w].drawn
               PROVE  LET v == workflows[w].source_template_version
                          form == Form(v)
                          config == workflows[w].config
                      IN /\ \A t \in Targets : config[t] # catalog[v].base[t] =>
                              \/ \E i \in DOMAIN form :
                                   \/ /\ form[i].target = t
                                      /\ Accepted(form[i], config[t], DOMAIN AssetType)
                                      /\ Converted(form[i].type, config[t]) = config[t]
                                   \/ Beside[form[i].target] = t
                              \/ form = <<>> /\ LegacyKind[t] # "none" /\ t \notin Unsafe
                         /\ \A i \in DOMAIN form : form[i].required => ~Blank(config[form[i].target])
    BY DEF DraftFollowsForm
  <2> DEFINE v == workflows[w].source_template_version
             form == Form(v)
             config == workflows[w].config
  <2>1. Allowed(form, catalog[v].base, config) /\ Complete(form, config)
    BY DEF Inv, Follows, Form
  <2> HIDE DEF v, form, config
  <2>2. \A t \in Targets : config[t] # catalog[v].base[t] =>
          \/ \E i \in DOMAIN form :
               \/ /\ form[i].target = t
                  /\ Accepted(form[i], config[t], DOMAIN AssetType)
                  /\ Converted(form[i].type, config[t]) = config[t]
               \/ Beside[form[i].target] = t
          \/ form = <<>> /\ LegacyKind[t] # "none" /\ t \notin Unsafe
    BY <2>1 DEF Allowed, Entered
  <2>3. \A i \in DOMAIN form : form[i].required => ~Blank(config[form[i].target])
    BY <2>1 DEF Complete
  <2> QED BY <2>2, <2>3 DEF v, form, config
<1> QED BY <1>1, Invariance, PTL

(* One step of any request, and what it may change in the rows. *)
LEMMA RowsStep ==
  ASSUME Inv, Next, NEW w \in Workflows, Exists(workflows[w])
  PROVE  \/ workflows'[w] = workflows[w]
         \/ Exists(workflows'[w]) /\ workflows'[w].drawn
         \/ Exists(workflows'[w]) /\ ~HasRun(w)
         \/ Exists(workflows'[w]) /\ workflows'[w].config = workflows[w].config
         \/ /\ workflows'[w] = Deleted
            /\ \E t \in Slots : CleanupStaleToolDrafts(t) /\ w \in txn[t].gone
<1>0. workflows \in [Workflows -> Workflow \cup {NoWorkflow, Deleted}] /\ workflows[w] \in Workflow
  BY RowShape DEF Inv, TypeOK
<1>1. ASSUME NEW row \in Workflow, Insert(row) PROVE workflows'[w] = workflows[w]
  BY <1>0, <1>1, RowShape DEF Insert
<1>2. CASE \E drawing \in Drawings : SaveWorkflow(drawing)
  <2>1. PICK drawing \in Drawings : SaveWorkflow(drawing)
    BY <1>2
  <2>2. drawing.config \in Config /\ drawing.status \in {"DRAFT", "ACTIVE"}
    BY DraftsAssumption
  <2> DEFINE first == [Draft("none", drawing.config, FALSE) EXCEPT !.status = drawing.status, !.drawn = TRUE]
             again(x) == [workflows[x] EXCEPT !.config = drawing.config, !.status = drawing.status,
                                              !.drawn = TRUE]
  <2>3. CASE Insert(first)
    <3>1. Draft("none", drawing.config, FALSE) \in Workflow
      BY <2>2, DraftRow
    <3>2. first \in Workflow
      BY <2>2, <3>1 DEF Workflow
    <3> QED BY <1>1, <2>3, <3>2
  <2>4. CASE \E x \in Workflows : Exists(workflows[x]) /\ Save(x, again(x))
    <3>1. PICK x \in Workflows : Exists(workflows[x]) /\ workflows' = [workflows EXCEPT ![x] = again(x)]
      BY <2>4 DEF Save
    <3>2. CASE x = w
      <4>1. workflows'[w] = again(w)
        BY <1>0, <3>1, <3>2
      <4>2. again(w) \in Workflow /\ again(w).drawn
        BY <1>0, <2>2 DEF Workflow
      <4> HIDE DEF again
      <4> QED BY <4>1, <4>2, RowShape
    <3>3. CASE x # w
      BY <1>0, <3>1, <3>3
    <3> QED BY <3>2, <3>3
  <2> QED BY <2>1, <2>3, <2>4 DEF SaveWorkflow
<1>3. CASE \E v \in Versions : CreateWorkflowFromTemplate(v)
  <2>1. PICK v \in Versions : Insert(Draft(v, catalog[v].base, FALSE))
    BY <1>3 DEF CreateWorkflowFromTemplate
  <2>2. Draft(v, catalog[v].base, FALSE) \in Workflow
    BY FormOK, DraftRow
  <2> QED BY <1>1, <2>1, <2>2
<1>4. ASSUME NEW readable \in SUBSET DOMAIN AssetType, NEW v \in Versions, NEW values \in Submissions,
             PrepareWorkflowFromTemplate(v, values, readable)
      PROVE  workflows'[w] = workflows[w]
  BY <1>0, <1>4, RowShape DEF PrepareWorkflowFromTemplate, Insert
<1>5. ASSUME NEW readable \in SUBSET DOMAIN AssetType, NEW r \in Runs, PrepareRerunFromRun(r, readable)
      PROVE  workflows'[w] = workflows[w]
  BY <1>0, <1>5, RowShape DEF PrepareRerunFromRun, Insert
<1>6. ASSUME NEW readable \in SUBSET DOMAIN AssetType, NEW t \in Slots, NEW values \in Submissions,
             UpdateRerunDraftValues(t, values, readable)
      PROVE  workflows'[w] = workflows[w] \/ (Exists(workflows'[w]) /\ ~HasRun(w))
  <2> DEFINE x == txn[t].workflow
             new(config) == [workflows[x] EXCEPT !.config = config]
  <2>1. PICK config : Save(x, new(config))
    BY <1>6, UpdateSaves
  <2>2. x \in Workflows /\ workflows[x] \in Workflow /\ ~HasRun(x)
    BY <1>6, UpdateSaves
  <2>3. new(config).status = workflows[x].status /\ workflows[x].status \in {"DRAFT", "ACTIVE"}
    BY <2>2 DEF Workflow
  <2>4. Exists(new(config))
    BY <2>3 DEF Exists, NoWorkflow, Deleted
  <2> HIDE DEF new, x
  <2>5. workflows' = [workflows EXCEPT ![x] = new(config)]
    BY <2>1 DEF Save
  <2>6. CASE x = w
    BY <1>0, <2>2, <2>4, <2>5, <2>6
  <2>7. CASE x # w
    BY <1>0, <2>5, <2>7
  <2> QED BY <2>6, <2>7
<1>7. ASSUME NEW t \in Slots,
             \/ \E x \in Workflows : UpdateBegin(t, x) \/ StartBegin(t, x)
             \/ CleanupBegin(t) \/ StartRun(t) \/ Raise(t)
      PROVE  workflows'[w] = workflows[w]
  BY <1>7 DEF UpdateBegin, StartBegin, CleanupBegin, Begin, StartRun, Raise
<1>8. ASSUME NEW t \in Slots, CleanupStaleToolDrafts(t)
      PROVE  workflows'[w] = workflows[w] \/ (workflows'[w] = Deleted /\ w \in txn[t].gone)
  BY <1>8 DEF CleanupStaleToolDrafts
<1>9. ASSUME NEW x \in Workflows, Age(x)
      PROVE  Exists(workflows'[w]) /\ workflows'[w].config = workflows[w].config
  BY <1>9, AgeRow
<1> QED BY <1>2, <1>3, <1>4, <1>5, <1>6, <1>7, <1>8, <1>9 DEF Next

(* Of any number of overlapping updates and starts, none changes the       *)
(* form's values of a draft that has a run.                                *)
THEOREM NoUpdateAfterARun == Spec => UpdatedBeforeAnyRun
<1>1. Inv /\ [Next]_vars =>
        [\A w \in Workflows :
           Exists(workflows[w]) /\ Exists(workflows'[w]) /\ HasRun(w)
           /\ workflows'[w].config # workflows[w].config
             => workflows'[w].drawn]_vars
  BY RowsStep, RowShape
<1> QED BY <1>1, Invariance, PTL DEF Spec, UpdatedBeforeAnyRun

(* Of any number of overlapping clean-ups and starts, no clean-up deletes  *)
(* a draft that had a run when it began.                                   *)
THEOREM CleanupsSpare == Spec => CleanupSparesUsedDrafts
<1>1. ASSUME Inv, Next, NEW w \in Workflows, Exists(workflows[w]), workflows'[w] = Deleted
      PROVE  /\ workflows[w].marked /\ workflows[w].prepared = "stale"
             /\ \E t \in Slots :
                  /\ Serving(t, "cleanup") /\ txn'[t] = Idle
                  /\ \A r \in txn[t].seen : runs[r].workflow # w
  <2>1. ~Exists(workflows'[w]) /\ workflows'[w] # workflows[w]
    BY <1>1, RowShape
  <2>2. PICK t \in Slots : CleanupStaleToolDrafts(t) /\ w \in txn[t].gone
    BY <1>1, <2>1, RowsStep
  <2>3. Serving(t, "cleanup") /\ Sound(txn[t], workflows, runs)
    BY <1>1, <2>2 DEF CleanupStaleToolDrafts, Inv
  <2>4. txn'[t] = Idle
    BY <2>2 DEF CleanupStaleToolDrafts, Commit, Overtake
  <2> QED BY <1>1, <2>2, <2>3, <2>4 DEF Sound, Serving
<1>2. Inv /\ [Next]_vars =>
        [\A w \in Workflows :
           Exists(workflows[w]) /\ workflows'[w] = Deleted =>
             /\ workflows[w].marked /\ workflows[w].prepared = "stale"
             /\ \E t \in Slots :
                  /\ Serving(t, "cleanup") /\ txn'[t] = Idle
                  /\ \A r \in txn[t].seen : runs[r].workflow # w]_vars
  BY <1>1
<1> QED BY <1>2, Invariance, PTL DEF Spec, CleanupSparesUsedDrafts

-----------------------------------------------------------------------------
(* Runs and the drafts they were made of. *)

(* A run, or one about to start, is of the version its workflow is of, as  *)
(* long as there is one; no other workflow takes its name.                 *)
Origin(d, ws) ==
  /\ ws[d.workflow] # NoWorkflow
  /\ Exists(ws[d.workflow]) =>
       d.source_template_version = ws[d.workflow].source_template_version

OriginInv ==
  /\ \A r \in Runs : runs[r] # NoRun => Origin(runs[r], workflows)
  /\ \A t \in Slots : txn[t].service = "start" => Origin(txn[t].draft, workflows)

(* No step changes the version a row is of, or lets it vanish.             *)
LEMMA VersionKept ==
  ASSUME Inv, [Next]_vars, NEW w \in Workflows, workflows[w] # NoWorkflow
  PROVE  /\ workflows'[w] # NoWorkflow
         /\ Exists(workflows'[w]) =>
              /\ Exists(workflows[w])
              /\ workflows'[w].source_template_version = workflows[w].source_template_version
<1>0. workflows \in [Workflows -> Workflow \cup {NoWorkflow, Deleted}]
  BY DEF Inv, TypeOK
<1>1. ASSUME NEW row, Insert(row) PROVE workflows'[w] = workflows[w]
  BY <1>0, <1>1 DEF Insert
<1>2. ASSUME NEW x \in Workflows, Exists(workflows[x]), NEW row,
             workflows' = [workflows EXCEPT ![x] = row], row \in Workflow,
             row.source_template_version = workflows[x].source_template_version
      PROVE  /\ workflows'[w] # NoWorkflow
             /\ Exists(workflows'[w]) =>
                  /\ Exists(workflows[w])
                  /\ workflows'[w].source_template_version = workflows[w].source_template_version
  BY <1>0, <1>2, RowShape
<1>3. ASSUME NEW drawing \in Drawings, SaveWorkflow(drawing)
      PROVE  \/ workflows'[w] = workflows[w]
             \/ /\ workflows'[w] # NoWorkflow
                /\ Exists(workflows'[w]) =>
                     /\ Exists(workflows[w])
                     /\ workflows'[w].source_template_version = workflows[w].source_template_version
  <2> DEFINE first == [Draft("none", drawing.config, FALSE) EXCEPT !.status = drawing.status, !.drawn = TRUE]
             again(x) == [workflows[x] EXCEPT !.config = drawing.config, !.status = drawing.status,
                                              !.drawn = TRUE]
  <2>1. CASE Insert(first)
    BY <1>1, <2>1
  <2>2. CASE \E x \in Workflows : Exists(workflows[x]) /\ Save(x, again(x))
    <3>1. PICK x \in Workflows : Exists(workflows[x]) /\ workflows' = [workflows EXCEPT ![x] = again(x)]
      BY <2>2 DEF Save
    <3>2. workflows[x] \in Workflow /\ drawing.config \in Config /\ drawing.status \in {"DRAFT", "ACTIVE"}
      BY <1>0, <3>1, RowShape, DraftsAssumption
    <3>3. again(x) \in Workflow /\ again(x).source_template_version = workflows[x].source_template_version
      BY <3>2 DEF Workflow
    <3> HIDE DEF again
    <3> QED BY <1>2, <3>1, <3>3
  <2> QED BY <1>3, <2>1, <2>2 DEF SaveWorkflow
<1>4. ASSUME NEW v \in Versions, CreateWorkflowFromTemplate(v) PROVE workflows'[w] = workflows[w]
  BY <1>1, <1>4 DEF CreateWorkflowFromTemplate
<1>5. ASSUME NEW readable \in SUBSET DOMAIN AssetType, NEW v \in Versions, NEW values \in Submissions,
             PrepareWorkflowFromTemplate(v, values, readable)
      PROVE  workflows'[w] = workflows[w]
  BY <1>1, <1>5 DEF PrepareWorkflowFromTemplate
<1>6. ASSUME NEW readable \in SUBSET DOMAIN AssetType, NEW r \in Runs, PrepareRerunFromRun(r, readable)
      PROVE  workflows'[w] = workflows[w]
  BY <1>1, <1>6 DEF PrepareRerunFromRun
<1>7. ASSUME NEW readable \in SUBSET DOMAIN AssetType, NEW t \in Slots, NEW values \in Submissions,
             UpdateRerunDraftValues(t, values, readable)
      PROVE  /\ workflows'[w] # NoWorkflow
             /\ Exists(workflows'[w]) =>
                  /\ Exists(workflows[w])
                  /\ workflows'[w].source_template_version = workflows[w].source_template_version
  <2> DEFINE x == txn[t].workflow
             new(config) == [workflows[x] EXCEPT !.config = config]
  <2>1. PICK config \in Filled(workflows[x].config, Form(workflows[x].source_template_version), values, readable) :
          Save(x, new(config))
    BY <1>7, UpdateSaves
  <2>2. /\ x \in Workflows /\ workflows[x] \in Workflow
        /\ workflows[x].source_template_version \in Versions
    BY <1>7, UpdateSaves
  <2>3. \A id \in DOMAIN values : values[id] \in Raw
    BY DraftsAssumption
  <2>4. config \in Config
    BY <2>1, <2>2, <2>3, FormOK, FilledConfig DEF Workflow
  <2>5. /\ new(config) \in Workflow
        /\ new(config).source_template_version = workflows[x].source_template_version
    BY <2>2, <2>4 DEF Workflow
  <2>6. workflows' = [workflows EXCEPT ![x] = new(config)]
    BY <2>1 DEF Save
  <2> HIDE DEF new, x
  <2> QED BY <1>2, <2>2, <2>5, <2>6, RowShape
<1>8. ASSUME NEW t \in Slots,
             \/ \E x \in Workflows : UpdateBegin(t, x) \/ StartBegin(t, x)
             \/ CleanupBegin(t) \/ StartRun(t) \/ Raise(t)
      PROVE  workflows'[w] = workflows[w]
  BY <1>8 DEF UpdateBegin, StartBegin, CleanupBegin, Begin, StartRun, Raise
<1>9. ASSUME NEW t \in Slots, CleanupStaleToolDrafts(t)
      PROVE  workflows'[w] = workflows[w] \/ workflows'[w] = Deleted
  BY <1>9 DEF CleanupStaleToolDrafts
<1>10. ASSUME NEW x \in Workflows, Age(x)
       PROVE  /\ workflows'[w] # NoWorkflow
              /\ Exists(workflows'[w]) =>
                   /\ Exists(workflows[w])
                   /\ workflows'[w].source_template_version = workflows[w].source_template_version
  BY <1>10, AgeRow
<1>11. ASSUME UNCHANGED vars PROVE workflows'[w] = workflows[w]
  BY <1>11 DEF vars
<1> QED BY <1>3, <1>4, <1>5, <1>6, <1>7, <1>8, <1>9, <1>10, <1>11, RowShape DEF Next

(* A run comes of a start in flight, and that of a row there is.           *)
LEMMA OriginNext ==
  ASSUME Inv, OriginInv, [Next]_vars
  PROVE  OriginInv'
<1>1. ASSUME NEW d, d.workflow \in Workflows, Origin(d, workflows) PROVE Origin(d, workflows')
  BY <1>1, VersionKept DEF Origin
<1>2. ASSUME NEW t \in Slots, txn'[t].service = "start"
      PROVE  \/ txn'[t] = txn[t]
             \/ txn'[t].draft.workflow \in Workflows /\ Origin(txn'[t].draft, workflows)
  <2>0. txn \in [Slots -> Txn \cup {Idle}]
    BY DEF Inv, TypeOK
  <2>1. ASSUME NEW ws \in SUBSET Workflows, txn' = Overtake(ws)
        PROVE  txn'[t] = txn[t]
    <3>1. Later(txn[t], txn'[t], ws)
      BY <2>1, Overtaken DEF Inv
    <3>2. txn'[t] # Idle
      BY <1>2 DEF Idle
    <3> QED BY <1>2, <3>1, <3>2 DEF Later
  <2>2. ASSUME NEW ws \in SUBSET Workflows, NEW s \in Slots, Commit(s, ws)
        PROVE  txn'[t] = txn[t]
    <3>1. Later(txn[t], txn'[t], ws)
      BY <2>2, Overtaken DEF Inv
    <3>2. txn'[t] # Idle
      BY <1>2 DEF Idle
    <3> QED BY <1>2, <3>1, <3>2 DEF Later
  <2>3. ASSUME NEW s \in Slots, NEW w \in Workflows, StartBegin(s, w)
        PROVE  \/ txn'[t] = txn[t]
               \/ txn'[t].draft.workflow \in Workflows /\ Origin(txn'[t].draft, workflows)
    <3> DEFINE draft == [workflow |-> w, config |-> workflows[w].config,
                         source_template_version |-> workflows[w].source_template_version]
               tx == [service |-> "start", workflow |-> w, draft |-> draft]
    <3>1. draft.workflow = w /\ Origin(draft, workflows)
      BY <2>3, RowShape DEF StartBegin, Origin
    <3>2. tx.draft = draft
      OBVIOUS
    <3>3. txn' = [txn EXCEPT ![s] = tx]
      BY <2>3 DEF StartBegin, Begin
    <3> HIDE DEF tx, draft
    <3> QED BY <2>0, <3>1, <3>2, <3>3
  <2>4. ASSUME NEW s \in Slots,
               \/ \E w \in Workflows : UpdateBegin(s, w)
               \/ CleanupBegin(s) \/ Raise(s)
        PROVE  txn'[t] = txn[t]
    <3>1. CASE Raise(s)
      <4>1. txn' = [txn EXCEPT ![s] = Idle] /\ Idle.service # "start"
        BY <3>1 DEF Raise, Idle
      <4> QED BY <1>2, <2>0, <4>1
    <3>2. CASE CleanupBegin(s)
      <4> DEFINE tx == [service |-> "cleanup", gone |-> {w \in Batch : Disposable(w)},
                        seen |-> {r \in Runs : runs[r] # NoRun}]
      <4>1. tx.service # "start"
        OBVIOUS
      <4>2. txn' = [txn EXCEPT ![s] = tx]
        BY <3>2 DEF CleanupBegin, Begin
      <4> HIDE DEF tx
      <4> QED BY <1>2, <2>0, <4>1, <4>2
    <3>3. ASSUME NEW w \in Workflows, UpdateBegin(s, w) PROVE txn'[t] = txn[t]
      <4> DEFINE tx == [service |-> "update", workflow |-> w, behind |-> FALSE]
      <4>1. tx.service # "start"
        OBVIOUS
      <4>2. txn' = [txn EXCEPT ![s] = tx]
        BY <3>3 DEF UpdateBegin, Begin
      <4> HIDE DEF tx
      <4> QED BY <1>2, <2>0, <4>1, <4>2
    <3> QED BY <2>4, <3>1, <3>2, <3>3
  <2>5. ASSUME NEW s \in Slots, StartRun(s) \/ CleanupStaleToolDrafts(s) PROVE txn'[t] = txn[t]
    <3>1. CASE StartRun(s)
      <4> DEFINE ws == Touched(txn[s].workflow)
      <4>1. txn[s] \in Txn \cup {Idle} /\ txn[s].service = "start"
        BY <2>0, <3>1 DEF StartRun, Serving
      <4>2. txn[s].workflow \in Workflows
        BY <4>1, TxnShape
      <4>3. ws \in SUBSET Workflows
        BY <4>2 DEF Touched
      <4>4. Commit(s, ws)
        BY <3>1 DEF StartRun
      <4> HIDE DEF ws
      <4> QED BY <2>2, <4>3, <4>4
    <3>2. CASE CleanupStaleToolDrafts(s)
      <4> DEFINE ws == txn[s].gone
      <4>1. ws \in SUBSET Workflows
        BY <2>0, <3>2, TxnShape DEF CleanupStaleToolDrafts, Serving
      <4>2. Commit(s, ws)
        BY <3>2 DEF CleanupStaleToolDrafts
      <4> HIDE DEF ws
      <4> QED BY <2>2, <4>1, <4>2
    <3> QED BY <2>5, <3>1, <3>2
  <2>6. ASSUME NEW readable \in SUBSET DOMAIN AssetType, NEW s \in Slots, NEW values \in Submissions,
               UpdateRerunDraftValues(s, values, readable)
        PROVE  txn'[t] = txn[t]
    <3> DEFINE ws == {txn[s].workflow}
    <3>1. ws \in SUBSET Workflows /\ Commit(s, ws)
      BY <2>6, UpdateSaves
    <3> HIDE DEF ws
    <3> QED BY <2>2, <3>1
  <2>7. ASSUME NEW drawing \in Drawings, SaveWorkflow(drawing) PROVE txn'[t] = txn[t]
    <3>1. UNCHANGED txn \/ \E w \in Workflows : txn' = Overtake({w})
      BY <2>7 DEF SaveWorkflow
    <3> QED BY <2>1, <3>1
  <2>8. ASSUME UNCHANGED txn PROVE txn'[t] = txn[t]
    BY <2>8
  <2>9. ASSUME \/ \E v \in Versions : CreateWorkflowFromTemplate(v)
               \/ \E readable \in SUBSET DOMAIN AssetType :
                    \/ \E v \in Versions, values \in Submissions :
                         PrepareWorkflowFromTemplate(v, values, readable)
                    \/ \E r \in Runs : PrepareRerunFromRun(r, readable)
               \/ \E w \in Workflows : Age(w)
               \/ UNCHANGED vars
        PROVE  UNCHANGED txn
    BY <2>9 DEF CreateWorkflowFromTemplate, PrepareWorkflowFromTemplate, PrepareRerunFromRun, Age, vars
  <2> QED BY <2>3, <2>4, <2>5, <2>6, <2>7, <2>8, <2>9 DEF Next
<1>3. ASSUME NEW r \in Runs, runs'[r] # runs[r]
      PROVE  \E t \in Slots : txn[t].service = "start" /\ runs'[r] = txn[t].draft
  <2>1. ASSUME NEW t \in Slots, StartRun(t)
        PROVE  txn[t].service = "start" /\ runs'[r] = txn[t].draft
    BY <1>3, <2>1 DEF StartRun, Serving, Inv, TypeOK
  <2> QED BY <1>3, <2>1
       DEF Next, SaveWorkflow, CreateWorkflowFromTemplate, PrepareWorkflowFromTemplate, PrepareRerunFromRun,
           UpdateRerunDraftValues, UpdateBegin, StartBegin, CleanupBegin, Begin, CleanupStaleToolDrafts,
           Raise, Age, Insert, Save, vars
<1>4. ASSUME NEW t \in Slots, txn[t].service = "start" PROVE txn[t].draft.workflow \in Workflows
  <2>1. txn[t] \in Txn \cup {Idle}
    BY DEF Inv, TypeOK
  <2> QED BY <1>4, <2>1, TxnShape, RowShape
<1>5. ASSUME NEW r \in Runs, runs[r] # NoRun PROVE runs[r].workflow \in Workflows
  BY <1>5, RowShape DEF Inv, TypeOK
<1>6. ASSUME NEW t \in Slots, txn'[t].service = "start" PROVE Origin(txn'[t].draft, workflows')
  BY <1>1, <1>2, <1>4, <1>6 DEF OriginInv
<1>7. ASSUME NEW r \in Runs, runs'[r] # NoRun PROVE Origin(runs'[r], workflows')
  BY <1>1, <1>3, <1>4, <1>5, <1>7 DEF OriginInv
<1> QED BY <1>6, <1>7 DEF OriginInv

(* For every form, and after any sequence of preparations, updates and     *)
(* reruns: what is read back out of a run's draft is accepted again, and   *)
(* gives the config that was run.                                          *)
THEOREM RunsRepeat == Spec => []RunCanBeRepeated
<1>1. Init => OriginInv
  BY DEF Init, OriginInv, Idle
<1>2. Spec => [](Inv /\ OriginInv)
  BY <1>1, InitInv, NextInv, OriginNext, PTL DEF Spec
<1>3. Inv /\ OriginInv => RunCanBeRepeated
  <2> SUFFICES ASSUME Inv, OriginInv, NEW r \in Runs, runs[r] # NoRun
               PROVE  LET row == workflows[runs[r].workflow]
                          v == runs[r].source_template_version
                      IN Exists(row) /\ row.marked /\ ~row.drawn /\ row.config = runs[r].config
                         /\ OneWriter(Form(v)) /\ Form(v) # <<>> /\ Conforming(Form(v), catalog[v].base)
                           => LET values == Extracted(row.config, Form(v)) IN
                              /\ Applicable(catalog[v].base, Form(v), values, DOMAIN AssetType)
                              /\ Applied(catalog[v].base, Form(v), values) = runs[r].config
    BY DEF RunCanBeRepeated
  <2> DEFINE w == runs[r].workflow
             row == workflows[w]
             v == runs[r].source_template_version
  <2> SUFFICES ASSUME Exists(row), row.marked, ~row.drawn, row.config = runs[r].config,
                      OneWriter(Form(v)), Form(v) # <<>>, Conforming(Form(v), catalog[v].base)
               PROVE  /\ Applicable(catalog[v].base, Form(v), Extracted(row.config, Form(v)), DOMAIN AssetType)
                      /\ Applied(catalog[v].base, Form(v), Extracted(row.config, Form(v))) = row.config
    OBVIOUS
  <2>1. w \in Workflows
    BY RowShape DEF Inv, TypeOK
  <2>2. row \in Workflow /\ Follows(catalog, row)
    BY <2>1, RowShape DEF Inv, TypeOK
  <2>3. row.source_template_version = v
    BY DEF OriginInv, Origin
  <2> HIDE DEF w, row, v
  <2>4. /\ v \in Versions /\ Complete(Form(v), row.config)
        /\ Repeatable(Form(v), catalog[v].base, row.config)
    BY <2>2, <2>3 DEF Follows, Form
  <2>5. row.config \in Config
    BY <2>2 DEF Workflow
  <2>6. FormFor(Form(v), catalog[v].base) /\ catalog[v].base \in Config
    BY <2>4, FormOK
  <2> QED BY <2>4, <2>5, <2>6, Restored DEF Repeatable
<1> QED BY <1>2, <1>3, PTL
=============================================================================
