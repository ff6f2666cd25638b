---------------------------- MODULE MCZenohAction ----------------------------
(* Two threads share one ActionClient; one of them also sends what the server *)
(* cannot decode.                                                            *)
EXTENDS ZenohAction

CONSTANTS k1, k2

MCServiceOf == [s \in Servers |-> s]
MCClientOf == [k \in Callers |-> "client"]
MCForms == [k \in Callers |-> IF k = k1 THEN {"ok"} ELSE {"ok", "garbled", "bare"}]
MCMaxCalls == [k \in Callers |-> IF k = k1 THEN 2 ELSE 1]
MCHears == [x \in Subscriptions |-> {x}]
=============================================================================
