------------------------------ MODULE MCQueryPath ------------------------------
(* The values of the constants of QueryPath for TLC. *)
EXTENDS QueryPath, TLC

CONSTANTS e1, e2, e3, e4, u1, q1, q2, q3, q4, q5, q6, v1

KindDef == (e1 :> "stored") @@ (e2 :> "guard") @@ (e3 :> "collector") @@ (e4 :> "collector") @@ (u1 :> "unknown")
RomDef == [e \in Events |-> IF e = e1 THEN 2 ELSE 0]
ApiDef == (q6 :> "byId") @@ (q1 :> "event") @@ (q5 :> "event") @@ (q2 :> "event") @@ (q3 :> "request") @@ (q4 :> "byId")
EnvDef == (q6 :> Native) @@ (q5 :> Native) @@ (q1 :> v1) @@ (q2 :> v1) @@ (q3 :> Native) @@ (q4 :> Native)
RulersDef == (q6 :> {e2}) @@ (q5 :> {e2}) @@ (q1 :> {e1, e2, e3}) @@ (q2 :> {e2, e4, u1}) @@ (q3 :> {e1, e2}) @@ (q4 :> {e1, e2, e4, u1})
WindowDef == (q6 :> <<0, 0>>) @@ (q5 :> <<0, 0>>) @@ (q1 :> <<1, 0>>) @@ (q2 :> <<0, 0>>) @@ (q3 :> <<0, 2>>) @@ (q4 :> <<0, 0>>)
GroupDef == (q6 :> "known") @@ (q1 :> "known") @@ (q2 :> "known") @@ (q5 :> "") @@ (q3 :> "known") @@ (q4 :> "known")
LibDef == [e \in Events |-> IF e = e3 THEN 2 ELSE 1]
YieldDef == [e \in Events |-> CASE e = e2 -> 3 [] e = e4 -> 4 [] OTHER -> 1]

StorePlan(v, f) == [version |-> v, feed |-> [e : {e1, u1}, d : {1, 2}], batch |-> 2, rows |-> 3, faults |-> f, starts |-> 2, queries |-> {}]
QueryPlan(Q, r, f) == [version |-> 1, feed |-> [e : {e1}, d : {1}], batch |-> 1, rows |-> r, faults |-> f, starts |-> 1, queries |-> Q]
PlansDef == {StorePlan(0, 2), StorePlan(1, 2), StorePlan(3, 2)}
            \cup {QueryPlan({q1, q2}, 0, 1), QueryPlan({q1}, 1, 1), QueryPlan({q3}, 2, 1), QueryPlan({q3, q4}, 0, 1), QueryPlan({q5, q6}, 0, 0)}
===============================================================================
