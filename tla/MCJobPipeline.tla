---------------------------- MODULE MCJobPipeline ----------------------------
(* Instances of JobPipeline for TLC.  One process: a source and the two     *)
(* sweeps on one job.  Two processes, in one of three situations: two       *)
(* sources of one deliver two jobs of one project, and it sweeps their      *)
(* rows; both deliver the same job; a job has a legacy row.                 *)
EXTENDS JobPipeline

CONSTANTS src, src2, src3, csw, nsw, p1, p2, j1, j2, j3, j4, proj

RolesOf(S) == [t \in S |-> CASE t \in {src, src2, src3} -> "source"
                             [] t = csw -> "classification"
                             [] t = nsw -> "notification"]

OneRole    == RolesOf({src, csw, nsw})
OneProc    == [t \in {src, csw, nsw} |-> p1]
OneGives   == [t \in {src, csw, nsw} |-> IF t = src THEN {j1} ELSE {}]
NoProject  == [j \in {j1} |-> None]

TwoTasks   == {src, src2, src3, nsw}
TwoRole    == RolesOf(TwoTasks)
TwoProc    == [t \in TwoTasks |-> IF t = src3 THEN p2 ELSE p1]
TwoGives   == [t \in TwoTasks |-> CASE t = src  -> {j1, j3, j4}
                                    [] t = src2 -> {j2}
                                    [] t = src3 -> {j3}
                                    [] t = nsw  -> {}]
OneProject == [j \in {j1, j2, j3, j4} |-> IF j \in {j1, j2} THEN proj ELSE None]

\* A situation is what is still to be delivered; the other jobs are known.
StillNew(S) == [t \in TwoTasks |-> TwoGives[t] \ S]
Situation(new, shapes) ==
  /\ InitKnowing(StillNew(new))
  /\ \A j \in Jobs : shape[j] \in IF j \in new THEN shapes ELSE {"direct"}
TwoInit ==
  \/ Situation({j1, j2}, {"ambiguous"})
  \/ \E j \in {j3, j4} : Situation({j}, {"direct", "ambiguous"})
TwoSpec == TwoInit /\ [][Next]_vars

\* A job in the middle of its rescue is lost by a crash (run lost_rescue), so
\* a behaviour with such a job starts with no crash to come.
SettleInit == Init /\ (crashes > 0 => \A j \in Jobs : Plain(j))
SettleSpec == SettleInit /\ [][Next]_vars /\ Fairness
=============================================================================
