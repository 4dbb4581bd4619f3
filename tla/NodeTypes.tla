------------------------------ MODULE NodeTypes ------------------------------
(***************************************************************************)
(* The node types of the default registry: the input ports, the config     *)
(* fields and the output ports each declares, and what its execution asks  *)
(* for and returns.  Pure operators.                                       *)
(*                                                                         *)
(* A config gives values to some keys; a value is "blank" (None or ""),    *)
(* "odd" (not of the declared type), or anything else.                     *)
(***************************************************************************)
EXTENDS Naturals

Field(required, options) == [required |-> required, options |-> options]

NoPorts == [port \in {} |-> "none"]
NoFields == [field \in {} |-> Field(FALSE, {})]
NoConfig == [key \in {} |-> "blank"]

(* Every type of asset, the text and the json an output node can show.     *)
AnyPort == [text |-> "TEXT", image |-> "IMAGE_ASSET", video |-> "VIDEO_ASSET",
            audio |-> "AUDIO_ASSET", mask |-> "MASK_ASSET", json |-> "JSON"]

TextPrompt ==
  [inputs |-> NoPorts, needs |-> {}, outputs |-> [text |-> "TEXT"],
   config |-> [text |-> Field(TRUE, {})], is_output |-> FALSE]

AssetTypes == {"IMAGE", "VIDEO", "AUDIO", "MASK"}

UploadAsset ==
  [inputs |-> NoPorts, needs |-> {},
   outputs |-> [image |-> "IMAGE_ASSET", video |-> "VIDEO_ASSET",
                audio |-> "AUDIO_ASSET", mask |-> "MASK_ASSET"],
   config |-> [asset |-> Field(TRUE, {}), asset_type |-> Field(TRUE, AssetTypes)],
   is_output |-> FALSE]

ExportOutput ==
  [inputs |-> AnyPort, needs |-> {}, outputs |-> NoPorts,
   config |-> [label |-> Field(FALSE, {})], is_output |-> TRUE]

ToolOutput ==
  [inputs |-> AnyPort, needs |-> {}, outputs |-> NoPorts,
   config |-> [output_name |-> Field(TRUE, {}), description |-> Field(FALSE, {}),
               schema |-> Field(FALSE, {})],
   is_output |-> TRUE]

ProviderNode(inputs, needs, outputs) ==
  [inputs |-> inputs, needs |-> needs, outputs |-> outputs,
   config |-> [provider |-> Field(TRUE, {}), model |-> Field(TRUE, {}),
               provider_account |-> Field(FALSE, {}), parameters |-> Field(FALSE, {})],
   is_output |-> FALSE]

Image == [image |-> "IMAGE_ASSET", result |-> "JSON"]
Video == [video |-> "VIDEO_ASSET", result |-> "JSON"]
Audio == [audio |-> "AUDIO_ASSET", result |-> "JSON"]

TextToImage == ProviderNode([prompt |-> "TEXT"], {"prompt"}, Image)

ImageToImage ==
  ProviderNode([prompt |-> "TEXT", image |-> "IMAGE_ASSET", mask |-> "MASK_ASSET"],
               {"prompt", "image"}, Image)

ImageToVideo ==
  ProviderNode([image |-> "IMAGE_ASSET", prompt |-> "TEXT"], {"image"}, Video)

StartEndToVideo ==
  ProviderNode([start_image |-> "IMAGE_ASSET", end_image |-> "IMAGE_ASSET", prompt |-> "TEXT"],
               {"start_image", "end_image"}, Video)

TextToSpeech == ProviderNode([text |-> "TEXT"], {"text"}, Audio)

(* create_default_registry. *)
Registry ==
  [text_prompt |-> TextPrompt, upload_asset |-> UploadAsset,
   provider_text_to_image |-> TextToImage, provider_image_to_image |-> ImageToImage,
   provider_image_to_video |-> ImageToVideo,
   provider_start_end_to_video |-> StartEndToVideo,
   provider_text_to_speech |-> TextToSpeech,
   export_output |-> ExportOutput, tool_output |-> ToolOutput]

-----------------------------------------------------------------------------
Value(config, key) == IF key \in DOMAIN config THEN config[key] ELSE "blank"

(* validate_config_schema. *)
ConfigFits(type, config) ==
  \A field \in DOMAIN Registry[type].config :
    LET schema == Registry[type].config[field]
        value  == Value(config, field)
    IN  IF value = "blank" THEN ~schema.required
        ELSE value # "odd" /\ (schema.options # {} => value \in schema.options)

(* _merge_configured_inputs: what arrives over an edge, else the config's  *)
(* key of that name.  No edge brings a blank: the fields the local nodes   *)
(* pass on are required ones.                                              *)
RuntimeInputs(type, config, fed) ==
  [port \in fed \cup (DOMAIN Registry[type].inputs \cap DOMAIN config) |->
     IF port \in fed THEN "fed" ELSE config[port]]

(* validate_inputs: the mixin's, and that of the output nodes. *)
InputsFit(type, inputs) ==
  IF Registry[type].is_output THEN DOMAIN inputs # {}
  ELSE \A port \in Registry[type].needs : Value(inputs, port) # "blank"

(* The ports a finished execution leaves values at.  An upload has one     *)
(* port of its four.                                                       *)
OutputPorts(type, config) ==
  CASE type = "text_prompt" -> {"text"}
    [] type = "upload_asset" ->
         {CASE config["asset_type"] = "IMAGE" -> "image"
            [] config["asset_type"] = "VIDEO" -> "video"
            [] config["asset_type"] = "AUDIO" -> "audio"
            [] config["asset_type"] = "MASK" -> "mask"}
    [] OTHER -> DOMAIN Registry[type].outputs
=============================================================================
