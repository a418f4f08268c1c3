---------------------------- MODULE RunLifecycle ----------------------------
(***************************************************************************)
(* What the rest of the server may assume of pipeline runs, whoever moves  *)
(* them: a run is created once, claimed at most once, and closed once; a   *)
(* run that was never claimed cannot succeed; a closed run never moves.    *)
(* Several runs may close in one step (the start-up sweep).                *)
(* Source of the promise: the comments of CreatePipelineRun,               *)
(* ClaimPipelineRun, CancelPipelineRun and FinishPipelineRun in            *)
(* src/backend/internal/store/pipeline.go.                                 *)
(***************************************************************************)
CONSTANT Runs

VARIABLES status,  \* the row's status
          claims   \* the runs that were claimed

LInit == /\ status = [r \in Runs |-> "none"]
         /\ claims = {}

LCreate(r) == /\ status[r] = "none"
              /\ status' = [status EXCEPT ![r] = "pending"]
              /\ UNCHANGED claims

LClaim(r) == /\ status[r] = "pending" /\ r \notin claims
             /\ status' = [status EXCEPT ![r] = "running"]
             /\ claims' = claims \cup {r}

\* The runs of S end, each in a status of its own.
LClose(S) == /\ \A r \in S : status[r] \in {"pending", "running"}
             /\ \E end \in [S -> {"success", "failed", "cancelled"}] :
                  /\ \A r \in S : end[r] = "success" => r \in claims
                  /\ status' = [r \in Runs |-> IF r \in S THEN end[r] ELSE status[r]]
             /\ UNCHANGED claims

LNext == \/ \E r \in Runs : LCreate(r) \/ LClaim(r)
         \/ \E S \in SUBSET Runs : LClose(S)

LSpec == LInit /\ [][LNext]_<<status, claims>>
=============================================================================
