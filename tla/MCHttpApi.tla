----------------------------- MODULE MCHttpApi -----------------------------
(* A small platform.  Every start may find other settings; three of them   *)
(* do not load.  Two models are declared, one of them with its digest.     *)
EXTENDS HttpApi, TLC

MCJobs == {1}

MCEngines == {1}

MCRemotes == {2}

MCProgress == {}

Weights == [key |-> "sd", url |-> "https://a/sd.safetensors",
            sha256 |-> "https://a/sd.safetensors"]

Adapter == [key |-> "canny", url |-> "https://a/", sha256 |-> None]

MCLastSegment == (Weights.url :> "sd.safetensors") @@ (Adapter.url :> None)

Engine(id, url, models) == [id |-> id, url |-> url, models |-> models]

Bearer ==
  [file |-> "decodes", engines |-> <<Engine(1, "ftp", {"sd"})>>, models |-> {"sd"},
   auth |-> "bearer", apiKey |-> "key", engineUrl |-> "http",
   downloads |-> {Weights, Adapter}]

MCDeployments ==
  {Bearer,
   [Bearer EXCEPT !.apiKey = ""],
   [Bearer EXCEPT !.engineUrl = None],
   [Bearer EXCEPT !.models = {"sd", "xl"}]}

MCBodies ==
  {[decodes |-> FALSE, model |-> "sd", exceeds |-> {}],
   [decodes |-> TRUE, model |-> "sd", exceeds |-> {}],
   [decodes |-> TRUE, model |-> "sd", exceeds |-> {"pixels"}],
   [decodes |-> TRUE, model |-> "xl", exceeds |-> {}]}

MCKeys == {"key", ""}

\* Two models from different places under one name, as published ones often
\* are: ".../model.safetensors".
Namesake == [key |-> "canny", url |-> "https://b/sd.safetensors",
             sha256 |-> "https://b/sd.safetensors"]

SharedLastSegment ==
  (Weights.url :> "sd.safetensors") @@ (Namesake.url :> "sd.safetensors")

SharedName == {[Bearer EXCEPT !.downloads = {Weights, Namesake}]}
=============================================================================
