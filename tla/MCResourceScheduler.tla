------------------------ MODULE MCResourceScheduler ------------------------
(* Three GPU workers and a CPU worker, in both modes, with and without an  *)
(* exclusive worker, with groups that need not be transitive, a worker     *)
(* that may be unmeasured, and capacities that two or three workers fill   *)
(* exactly (6 + 3 + 1 = 10, 6 + 3 + 3 + 1 = 13) or that are not known.     *)
EXTENDS ResourceScheduler

MCWorkers == {"llm", "stt", "image", "cpu"}
MCGpu == {"llm", "stt", "image"}
MCPreference == <<"llm", "cpu", "stt", "image">>

MCConfigs ==
  { [mode |-> m, gpu |-> MCGpu, exclusive |-> x,
     vram |-> [llm |-> 6, stt |-> v, image |-> 3, cpu |-> 0],
     groups |-> [llm |-> g[1], stt |-> g[2], image |-> g[3], cpu |-> {}],
     total |-> capacity[1], headroom |-> capacity[2]] :
      m \in {"compatibility", "resource"},
      x \in {{}, {"image"}},
      v \in {3, Unknown},
      g \in {{"voice"}, {"voice", "media"}} \X {{"voice", "media"}, {"media"}}
              \X {{}, {"voice"}, {"media"}},
      capacity \in {<<10, 1>>, <<13, 1>>, <<Unknown, 1>>, <<13, Unknown>>} }
=============================================================================
