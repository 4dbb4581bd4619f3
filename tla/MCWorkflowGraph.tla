-------------------------- MODULE MCWorkflowGraph --------------------------
(* Graphs for WorkflowGraph: three nodes of the types that can disagree    *)
(* with their edges, under every short list of edges; and four nodes that  *)
(* could be in any order, under every list of edges that long.             *)
EXTENDS WorkflowGraph, TLC

N(id, type, config) == [id |-> id, type |-> type, config |-> config]

E(id, source, source_port, target, target_port) ==
  [id |-> id, source |-> source, source_port |-> source_port,
   target |-> target, target_port |-> target_port]

Model == [provider |-> "p", model |-> "m"]

Sources ==
  {N(1, "text_prompt", [text |-> "x"]), N(1, "text_prompt", [text |-> "blank"]),
   N(1, "upload_asset", [asset |-> "a", asset_type |-> "IMAGE"]),
   N(2, "upload_asset", [asset |-> "a", asset_type |-> "odd"])}

Makers ==
  {N(2, "provider_image_to_image", Model @@ [prompt |-> "x"]),
   N(2, "provider_image_to_image", Model @@ [prompt |-> "blank", image |-> "a"]),
   N(2, "provider_image_to_image", Model @@ [image |-> "a"]),
   N(2, "provider_text_to_speech", Model @@ [text |-> "odd"]),
   N(0, "provider_text_to_image", NoConfig), N(2, "checkpoint", NoConfig)}

Sinks ==
  {N(3, "export_output", [text |-> "x"]), N(3, "tool_output", [output_name |-> "x"]),
   N(3, "provider_image_to_video", Model @@ [image |-> "a"])}

Wires ==
  {E(1, 1, "text", 2, "prompt"), E(2, 1, "image", 2, "image"), E(3, 1, "video", 3, "video"),
   E(4, 2, "image", 2, "image"), E(5, 2, "image", 3, "image"), E(6, 2, "image", 3, "video"),
   E(7, 2, "audio", 3, "audio"), E(8, 2, "result", 4, "json"), E(9, 1, "text", 3, "text")}

SeqUpTo(S, n) == UNION {[1..k -> S] : k \in 0..n}

Wired ==
  [nodes : ({<<a, b, c>> : a \in Sources, b \in Makers, c \in Sinks}
            \cup {<<c, a>> : a \in Sources, c \in Sinks} \cup {<<>>}),
   edges : SeqUpTo(Wires, 2)]

(* Three nodes that may read each other, and an output. *)
Loop(id) == N(id, "provider_image_to_image", Model @@ [prompt |-> "x", image |-> "a"])

Links == ((1..3) \X (1..4)) \ {<<3, 3>>}

Link(i, link) ==
  E(i, link[1], "image", link[2], "image")

Linked ==
  {[nodes |-> nodes, edges |-> [i \in DOMAIN links |-> Link(i, links[i])]] :
     nodes \in {<<Loop(2), Loop(1), N(4, "export_output", NoConfig), Loop(3)>>},
     links \in SeqUpTo(Links, 4)}

MCGraphs == Wired \cup Linked
=============================================================================
