----------------------------- MODULE Collaboration -----------------------------
(***************************************************************************)
(* What members of an organization do around their tasks: attachments,     *)
(* teams, comments with their sockets, and the log all of them end in.     *)
(* The four keep separate rows and never read each other's (what a row of  *)
(* the log says is arbitrary), so a behaviour of this module is one of one *)
(* of them with the others at rest.                                        *)
(***************************************************************************)
EXTENDS Attachments, Teams, Comments, AuditChain

VARIABLE part   \* environment: the part that is exercised

collaborationVars == <<fileVars, teamVars, commentVars, logVars, part>>

Init ==
    /\ part \in {"files", "teams", "comments", "log"}
    /\ FileInit /\ TeamInit /\ CommentInit /\ LogInit
    /\ part # "files" => ~calm
    /\ part # "teams" => ~alone
    /\ part # "comments" => ~quiet /\ members = Users
    /\ part # "log" => logs = <<>>

Files ==
    /\ part = "files"
    /\ FileNext
    /\ UNCHANGED <<teamVars, commentVars, logVars, part>>

Team ==
    /\ part = "teams"
    /\ TeamNext
    /\ UNCHANGED <<fileVars, commentVars, logVars, part>>

Comment ==
    /\ part = "comments"
    /\ CommentNext
    /\ UNCHANGED <<fileVars, teamVars, logVars, part>>

Log ==
    /\ part = "log"
    /\ LogNext
    /\ UNCHANGED <<fileVars, teamVars, commentVars, part>>

Next == Files \/ Team \/ Comment \/ Log

Spec == Init /\ [][Next]_collaborationVars
=============================================================================
