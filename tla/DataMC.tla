------------------------------- MODULE DataMC -------------------------------
(* The memory and the data structures of the C runtime, one at a time. *)
EXTENDS HeapMC, TimerHeap, Dict, Text, Json

VARIABLE work   \* the structure at work

TestKeys == {"int4", "int12", "s", "sNulx", "sNuly"}
TestBucketOf == [k \in TestKeys |-> IF k = "s" \/ k = "sNuly" THEN 1 ELSE 4]
TestSeenAs == [k \in TestKeys |-> IF k \in {"sNulx", "sNuly"} THEN "s" ELSE k]
TestChars == {<<"a">>, <<",">>, <<"lead2", "x">>, <<"lead2", "y">>, <<"lead3", "x", "y">>}
TestWidth == [b \in {"a", ",", "x", "y", "lead2", "lead3"} |->
                IF b = "lead2" THEN 2 ELSE IF b = "lead3" THEN 3 ELSE 1]
TestContents == {<<>>, <<"a">>, <<"\"">>, <<"\\", "a">>, <<"nul", "a">>, <<"a", "\"", ",">>}

DataInit ==
  /\ work \in {"heap", "timers", "dict", "text", "json"}
  /\ Init /\ TimerInit /\ DictInit /\ TextInit /\ JsonInit
  /\ work # "json" => doc = JsonNull
  /\ work # "heap" => mem[dict] = "new" /\ mem[str] = "new"

DataNext ==
  /\ UNCHANGED work
  /\ \/ work = "heap" /\ Next /\ UNCHANGED <<timerVars, dictVars, textVars, jsonVars>>
     \/ work = "timers" /\ TimerNext /\ UNCHANGED <<vars, dictVars, textVars, jsonVars>>
     \/ work = "dict" /\ DictNext /\ UNCHANGED <<vars, timerVars, textVars, jsonVars>>
     \/ work = "text" /\ TextNext /\ UNCHANGED <<vars, timerVars, dictVars, jsonVars>>
     \/ work = "json" /\ JsonNext /\ UNCHANGED <<vars, timerVars, dictVars, textVars>>

DataSpec == DataInit /\ [][DataNext]_<<work, vars, timerVars, dictVars, textVars, jsonVars>>
=============================================================================
