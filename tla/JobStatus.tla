----------------------------- MODULE JobStatus ------------------------------
(***************************************************************************)
(* What can become of the status in the state.json files of a node: all    *)
(* that the control plane ever learns of a job.  JobRunner, with all its   *)
(* writers, implements this; JobManager is built on it, in the place of    *)
(* the node.                                                               *)
(*                                                                         *)
(* No status is final, because state.json is written without a lock: a     *)
(* --fail that read it earlier overwrites an outcome, and a job that is    *)
(* contested, failed by a --fail whose victim is still at work, can run,   *)
(* succeed or be canceled afterwards.  That is all: a success or a         *)
(* cancellation becomes nothing but a failure, and a failure nobody        *)
(* contests stays until the job is removed.                                *)
(***************************************************************************)

CONSTANT Jobs

VARIABLE status

Unsettled == {"queued", "running"}
Terminal  == {"succeeded", "failed", "canceled"}
Status    == {"absent", "contested", "gone"} \cup Unsettled \cup Terminal

\* Which status the processes on the node may replace by which.
Moves ==
    {<<"queued", "running">>, <<"running", "succeeded">>}
    \cup (Unsettled \X {"failed", "canceled", "contested"})
    \cup ({"contested"} \X ({"running"} \cup Terminal))
    \cup ({"succeeded", "canceled"} \X {"failed"})

\* The control plane creates a job, and removes one it takes for finished.
Submitted(j) == status[j] = "absent" /\ status'[j] = "queued"
Written(j)   == <<status[j], status'[j]>> \in Moves
Removed(j)   == status[j] \in Terminal \cup {"contested"} /\ status'[j] = "gone"

StatusInit == status = [j \in Jobs |-> "absent"]

\* A restart of the node ends all contests at once.
StatusNext ==
    /\ status' \in [Jobs -> Status]
    /\ \A j \in Jobs : Submitted(j) \/ Written(j) \/ Removed(j) \/ status'[j] = status[j]

StatusSpec == StatusInit /\ [][StatusNext]_status
=============================================================================
