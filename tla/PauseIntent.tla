----------------------------- MODULE PauseIntent -----------------------------
(***************************************************************************)
(* WorkPipeline with a history variable that records whether the user has  *)
(* asked for mining to be paused.  It constrains no step.                  *)
(***************************************************************************)
EXTENDS WorkPipeline

VARIABLE userPaused   \* the pause request was answered and none to resume came

pvars == <<vars, userPaused>>

\* espminer_pause_handler returns, espminer_resume_handler is called.
UserPauses == \E c \in Controls :
    pc[c] = "quiesceClear" /\ after[c] = "idle" /\ pc'[c] = "idle"
UserResumes == \E c \in Controls :
    pc[c] = "idle" /\ pc'[c] = "quiesce" /\ after'[c] = "resume"

RecordUser == userPaused' = (UserPauses \/ (userPaused /\ ~UserResumes))

PSpec == Init /\ userPaused = FALSE /\ [][Next /\ RecordUser]_pvars

-----------------------------------------------------------------------------

\* "POST /api/system/pause: Pauses mining work dispatch": dispatch stays off
\* until the user resumes it.  (docs/json-endpoints.md:766)
UserPauseHolds == userPaused => paused

=============================================================================
