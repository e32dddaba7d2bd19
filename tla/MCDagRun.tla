------------------------------ MODULE MCDagRun ------------------------------
(* Pipelines for TLC. *)
EXTENDS DagRun

CONSTANTS f1, f2

\* a -> b, a branch to c or d, joined in j, then x.
FlatOrder == <<"a", "b", "c", "d", "j", "x">>
FlatKind ==
  [s \in {"a", "b", "c", "d", "j", "x"} |->
     CASE s = "b" -> "Branch" [] s = "j" -> "Join" [] OTHER -> "Command"]
FlatPreds ==
  [s \in {"a", "b", "c", "d", "j", "x"} |->
     CASE s = "a" -> {} [] s = "b" -> {"a"} [] s \in {"c", "d"} -> {"b"}
       [] s = "j" -> {"c", "d"} [] s = "x" -> {"j"}]
FlatRoute ==
  [s \in {"a", "b", "c", "d", "j", "x"} |-> [f \in {f1, f2, Empty} |->
     IF s = "b" THEN (IF f = f2 THEN "d" ELSE "c") ELSE NoTarget]]
FlatPolicy ==
  [s \in {"a", "b", "c", "d", "j", "x"} |->
     CASE s = "c" -> {"RequireApproval"} [] s = "d" -> {"Allow", "RequireApproval"}
       [] s = "x" -> {"Allow", "Deny"} [] OTHER -> {"Allow"}]
FlatFailFast == {"a", "d", "x"}
FlatCompensable == {"a", "c", "x"}

\* The pipeline of the passing run meets the condition of the two theorems
\* about branches in DagRunProofs.
ASSUME FlatIsFlat == Order = FlatOrder => FlatBranches

\* a branch to x or to a second branch, which goes to c or d.
NestedOrder == <<"b", "x", "e", "c", "d">>
NestedKind ==
  [s \in {"b", "x", "e", "c", "d"} |-> IF s \in {"b", "e"} THEN "Branch" ELSE "Command"]
NestedPreds ==
  [s \in {"b", "x", "e", "c", "d"} |->
     CASE s = "b" -> {} [] s \in {"x", "e"} -> {"b"} [] OTHER -> {"e"}]
NestedRoute ==
  [s \in {"b", "x", "e", "c", "d"} |-> [f \in {f1, f2, Empty} |->
     CASE s = "b" -> IF f = f1 THEN "x" ELSE "e"
       [] s = "e" -> IF f = f1 THEN "c" ELSE "d"
       [] OTHER -> NoTarget]]
NestedPolicy == [s \in {"b", "x", "e", "c", "d"} |-> {"Allow"}]
=============================================================================
