------------------------- MODULE MCComponentCatalog -------------------------
(* A comfy root, a servable and an official package; the dit of the        *)
(* servable package and the file of the comfy root may share an id.        *)
EXTENDS ComponentCatalog, TLC

CONSTANTS q1, q2, q3
MCSymmetry == Permutations({q1, q2, q3})

MCRoots == <<"comfy", "official", "servable">>
MCZone == [root \in {"comfy", "official", "servable"} |-> root]
MCName == ("comfy" :> "comfy") @@ ("official" :> "MiniMax-H3") @@ ("servable" :> "h3")

File(root, dirs, stem, hidden) == [root |-> root, dirs |-> dirs, stem |-> stem, hidden |-> hidden]

MCFiles ==
  { File("comfy", <<"diffusion_models">>, "h3", FALSE),
    File("comfy", <<"vae">>, "audio", FALSE),
    File("comfy", <<"loras">>, "part", TRUE),
    File("official", <<"Base", "transformer">>, "model", FALSE),
    File("servable", <<"transformer">>, "model", FALSE),
    File("servable", <<"transformer_ref">>, "model", FALSE) }

MCChangingFiles ==
  { File("comfy", <<"diffusion_models">>, "h3", FALSE),
    File("servable", <<"transformer_ref">>, "model", FALSE) }
=============================================================================
