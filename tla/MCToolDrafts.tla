---------------------------- MODULE MCToolDrafts ----------------------------
(* Values for the constants of ToolDrafts: small catalogues of forms, each *)
(* with a case that forms get wrong.                                       *)
EXTENDS ToolDrafts, TLC

MCTexts == {"", "0", "2", "2.0", "x", "y", "m", "yes", "True", "False", "picture", "IMAGE", "VIDEO"}
MCTargets == {"prompt", "steps", "asset", "asset_type", "model"}
MCUnsafe == {"model"}
MCLegacyKind == [t \in MCTargets |->
  IF t = "prompt" THEN "text" ELSE IF t \in {"asset", "asset_type"} THEN t ELSE "none"]
MCBeside == [t \in MCTargets |-> IF t = "asset" THEN "asset_type" ELSE "none"]
MCNumerals == [n \in {"0", "2", "2.0"} |-> IF n = "2.0" THEN "2" ELSE n]
MCAssetType == [a \in {"picture"} |-> "IMAGE"]

F(id, type, target, required, default, accepts) ==
  [id |-> id, type |-> type, target |-> target, required |-> required,
   default |-> default, accepts |-> accepts]

Base(prompt, steps) ==
  [t \in MCTargets |-> CASE t = "prompt" -> prompt [] t = "steps" -> steps
     [] t = "asset" -> Str("") [] t = "asset_type" -> Str("VIDEO") [] t = "model" -> Str("m")]

Payload(fields, base) == [fields |-> fields, base |-> base]

(* A required text beside a number with a default and a range. *)
Plain == Payload(<<F("p", "TEXT", "prompt", TRUE, None, {}),
                   F("n", "NUMBER", "steps", FALSE, Num("2"), {Num("0"), Num("2")})>>,
                 Base(Str("x"), Num("2")))
(* An optional asset with its type beside it, and a switch that is on by default. *)
Media == Payload(<<F("a", "ASSET", "asset", FALSE, None, {"IMAGE"}),
                   F("s", "BOOLEAN", "steps", FALSE, Str("yes"), {})>>,
                 Base(Str("x"), Bool("False")))
(* Two fields of one target, and a base value its form would refuse. *)
Odd == Payload(<<F("n", "NUMBER", "prompt", FALSE, None, {Num("2")}),
                 F("p", "SELECT", "prompt", FALSE, None, {Str("2"), Str("x")})>>,
               Base(Str("y"), Num("2")))
Legacy == Payload(<<>>, Base(Str("x"), Num("2")))

MCCatalogs == {[v \in {"v1"} |-> payload] : payload \in {Plain, Media, Odd, Legacy}}

Only(id, raw) == [i \in {id} |-> raw]
MCSubmissions ==
  {[i \in {} |-> None], Only("p", Str("True")), Only("n", Str("2.0")), Only("asset", Str("picture")),
   [i \in {"p", "n"} |-> IF i = "p" THEN Str("2") ELSE Num("0")],
   [i \in {"a", "s"} |-> IF i = "a" THEN Str("picture") ELSE Bool("False")]}

MCDrawings ==
  {[status |-> "DRAFT",
    config |-> [Base(Num("2"), None) EXCEPT !["asset"] = NoKey, !["asset_type"] = NoNode]]}

Symmetry == Permutations(Slots)
=============================================================================
