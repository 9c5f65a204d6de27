-------------------------- MODULE MCPipelineWorker --------------------------
(* A small worker process: two constructing threads, a package of each     *)
(* route, a compiled schedule of two steps, two requests.  Two threads    *)
(* meet one change of the files, one thread two; requests are served in a  *)
(* cast of their own.                                                      *)
EXTENDS PipelineWorker, TLC
MCRoute == ("kb" :> "beta4") @@ ("kc" :> "curve") @@ ("ko" :> "official")
MCDocuments == <<"manifest", "plan", "index">>
MCDeclaring == {"manifest", "plan"}
MCShards == <<"m1", "m2">>
MCPaths == {"kb", "kc", "ko"} \X {"manifest", "plan", "index", "m1", "m2"}
MCRecorded == ("kb" :> "x") @@ ("kc" :> "plain") @@ ("ko" :> "plain")
MCSlotFile == ("s1" :> "m1") @@ ("s2" :> "m2")
Cast(one, two, edits, requests) ==
  [packages |-> ("t1" :> one) @@ ("t2" :> two), edits |-> edits, requests |-> requests]
MCCasts == { Cast({"kb", "kc", "ko"}, {"kb", "kc", "ko"}, 1, FALSE),
             Cast({"kb"}, {}, 2, FALSE),
             Cast({"ko"}, {}, 2, FALSE),
             Cast({"kc", "ko"}, {"kc", "ko"}, 0, TRUE) }
MCVideoT == <<0, 77>>
MCAudioT == <<0, 250>>
=============================================================================
