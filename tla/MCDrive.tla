------------------------------- MODULE MCDrive -------------------------------
EXTENDS Drive, TLC

CONSTANT Length     \* the plan length of every workflow

LengthOf == [w \in Workflows |-> Length]

(* Which operations fail, and how, the others giving a result; and how the  *)
(* plan ends when it gets that far.                                         *)
Failing(bad, how, end) ==
    [verdict |-> [o \in Ops |-> IF <<o[2], o[3]>> \in bad THEN how ELSE "result"],
     ending |-> [w \in Workflows |-> end]]

SomeScenarios == {Failing({}, "result", "return"),
                  Failing({}, "result", "fail"),
                  Failing({<<Length, "op">>}, "refused", "return"),
                  Failing({<<Length, "op">>}, "malformed", "return"),
                  Failing({<<1, "cp">>}, "refused", "fail")}

AnyExecutor == Permutations(Executors)
=============================================================================
