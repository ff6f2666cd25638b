-------------------------- MODULE MCZenohParameters --------------------------
(* Two clients, one of which also sends what cannot be decoded, and a thread *)
(* of the application that sets parameters.                                  *)
EXTENDS ZenohParameters

CONSTANTS k1, k2

MCServiceOf == [s \in Servers |-> s]
MCClientOf == [k \in Callers |-> k]
MCForms == [k \in Callers |-> IF k = k1 THEN {"ok"} ELSE {"ok", "garbled"}]
MCAsks == [k \in Callers |->
             IF k = k1 THEN {Order[i] : i \in {1, 2, 5, 6}} \X {"ok"}
             ELSE {<<"set_parameters", "ok">>, <<"set_parameters_atomically", "ok">>,
                   <<"get_parameters", "garbled">>}]
MCMaxCalls == [k \in Callers |-> 1]
MCHears == [x \in Subscriptions |-> Publishers]
MCInitial == [n \in {"a"} |-> "1"]
MCTypeOf == [v \in {"1", "2", "false", "NotSet"} |->
               IF v = "NotSet" THEN "not_set" ELSE IF v = "false" THEN "bool" ELSE "integer"]
MCStartsWith == [p \in {"a", "b"} |-> {p}]
MCReads == {<<"a", "b">>}
MCWrites == {<< <<"a", "2">>, <<"b", "NotSet">> >>}
MCLocalWrites == {<<"a", "1">>}
=============================================================================
