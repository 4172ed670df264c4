--------------------------- MODULE MCOrgLifecycle ---------------------------
(* Bounds for OrgLifecycle; requests are interchangeable.                  *)
EXTENDS OrgLifecycle, TLC

RequestSymmetry == Permutations(Req)

\* The audit row of the last commit is read by the action properties only.
WithoutEvent == <<org, rows, grant, hooks, req, erased, inserts>>
=============================================================================
