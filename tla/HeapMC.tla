------------------------------- MODULE HeapMC -------------------------------
(* Heap with two threads.  The first owns two arrays and a dictionary, the
   second a result and a string, which the first gets only when it is handed
   over.  A run allocates one set of these objects.                          *)
EXTENDS Heap
CONSTANTS t1, t2, arr, list, dict, res, word, str
KindMC == [o \in Objects |->
  CASE o \in {arr, list} -> "sequence" [] o = dict -> "dict" [] o = res -> "pair" [] OTHER -> "string"]
OwnerMC == [o \in Objects |-> IF o \in {res, str} THEN t2 ELSE t1]
FitsMC == [o \in Objects |->
  CASE o = arr -> {dict, str} [] o = dict -> {str, word} [] o = res -> {str} [] OTHER -> {}]
TextMC == [o \in Objects |-> "text"]
ProgramsMC == {{dict, word, str}, {arr, dict, word}, {arr, list, str}, {res, str}}
=============================================================================
