--------------------------- MODULE DeliveryContract ---------------------------
(***************************************************************************)
(* What the pipeline promises the service that reads its stream, with      *)
(* nothing of how it keeps it: an event is streamed only for a job         *)
(* somebody entitled to it approved, two jobs for the same freelance       *)
(* project are not both streamed unless the project was forgotten, and a   *)
(* job is recorded Complete only once its event is in the stream.          *)
(* Delivery is at least once: a job may be reopened and streamed again.    *)
(***************************************************************************)
CONSTANTS Jobs, ProjectOf, None

VARIABLES approved, streamed, complete, forgotten

cvars == <<approved, streamed, complete, forgotten>>

SameProject(i, j) == ProjectOf[i] # None /\ ProjectOf[i] = ProjectOf[j]

Approve(j) == /\ approved' = approved \cup {j}
              /\ UNCHANGED <<streamed, complete, forgotten>>

Stream(j) == /\ j \in approved
             /\ \A i \in streamed : SameProject(i, j) => i = j \/ ProjectOf[j] \in forgotten
             /\ streamed' = streamed \cup {j}
             /\ UNCHANGED <<approved, complete, forgotten>>

Complete(j) == /\ j \in streamed
               /\ complete' = complete \cup {j}
               /\ UNCHANGED <<approved, streamed, forgotten>>

Reopen(j) == /\ complete' = complete \ {j}
             /\ UNCHANGED <<approved, streamed, forgotten>>

\* The record of which job a project belongs to does not last forever.
Forget == /\ forgotten \subseteq forgotten'
          /\ UNCHANGED <<approved, streamed, complete>>

\* Without a guard every job counts as approved from the start.
ContractInit == /\ approved \in {{}, Jobs}
                /\ streamed = {} /\ complete = {} /\ forgotten = {}

ContractNext == \/ Forget
                \/ \E j \in Jobs : Approve(j) \/ Stream(j) \/ Complete(j) \/ Reopen(j)

Contract == ContractInit /\ [][ContractNext]_cvars
=============================================================================
