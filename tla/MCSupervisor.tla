---------------------------- MODULE MCSupervisor ----------------------------
(* Small instances of the supervisor, admitted by the ResourceScheduler    *)
(* model: in resource mode "llm" and "stt" may run together, "image" only  *)
(* alone; "vm" is a CPU worker.                                            *)
EXTENDS Supervisor, Integers

CONSTANT Calls  \* the calls of the instance: <<endpoint, service>> of each

MCRequests == DOMAIN Calls
MCKind == [r \in DOMAIN Calls |-> Calls[r][1]]
MCService == [r \in DOMAIN Calls |-> Calls[r][2]]

Voice == {"llm", "stt"}
VoiceAndCpu == {"llm", "stt", "vm"}
VoiceAndImage == {"llm", "stt", "image"}

Policy == [mode |-> Mode, gpu |-> GpuServices, exclusive |-> {"image"},
           vram |-> [s \in Services |-> 3],
           groups |-> [s \in Services |-> IF s \in Voice THEN {"voice"} ELSE {}],
           total |-> 9, headroom |-> 1]
RS == INSTANCE ResourceScheduler
        WITH Workers <- Services, Configs <- {Policy}, Unknown <- -1, Preference <- <<>>,
             config <- Policy, allocated <- {}
MCAdmit(s, S) == RS!Admits(Policy, s, S)
MCFits(S) == RS!ShareGpu(Policy, S)

\* Regular and exclusive acquires of two GPU workers, and an operator's stop.
Contended == [r1 |-> <<"acquire", "llm">>, r2 |-> <<"exclusive", "stt">>,
              r3 |-> <<"acquire", "stt">>, r4 |-> <<"stop", "stt">>]
\* Acquires that overlap, one that runs alone, and a preload.
Overlapping == [r1 |-> <<"acquire", "llm">>, r2 |-> <<"ensure", "stt">>,
                r3 |-> <<"acquire", "image">>]
=============================================================================
