---------------------------- MODULE MCJobOrdering ----------------------------
(* TLC instance: three orders that compete for one number and two jobs, two of *)
(* them listing the jobs in opposite orders, and transitions of any job.       *)
EXTENDS JobOrdering, TLC
CONSTANTS c1, c2, c3, t1, t2, t3, t4, j1, j2, n1, n2
MCNumberOf == c1 :> n1 @@ c2 :> n2 @@ c3 :> n1
MCJobsOf == c1 :> <<j1, j2>> @@ c2 :> <<j2, j1>> @@ c3 :> <<j2>>
MCOneNumberOf == c1 :> n1
MCOneJobsOf == c1 :> <<j1>>
Symmetry == Permutations({t1, t2, t3, t4})
=============================================================================
