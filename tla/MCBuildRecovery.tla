-------------------------- MODULE MCBuildRecovery --------------------------
(* One change, one application, a test suite read like pytest's.           *)
EXTENDS BuildRecovery, TLC

MCPolicy == [k \in Kinds |-> IF k = "TEST" THEN "pytest" ELSE "exit_zero"]
(* The broken source does not build and the repaired one does; a test may  *)
(* pass or fail on either.                                                 *)
MCChildCodes ==
  [k \in Kinds |-> [c \in Contents \cup {Gone} |->
     IF k = "TEST" THEN {"zero", "one"}
     ELSE IF c = "repaired" THEN {"zero"} ELSE {"one"}]]
(* A whole repair, a build with any two troubles, and two executions with  *)
(* the trouble that concerns more than one of them.                        *)
MCBudgets ==
  {[executions |-> 3, troubles |-> {}, meetings |-> 0, pipes |-> FALSE],
   [executions |-> 1, troubles |-> Troubles, meetings |-> 2, pipes |-> TRUE],
   [executions |-> 2, troubles |-> {"server death"}, meetings |-> 1,
    pipes |-> FALSE]}
=============================================================================
