--------------------------- MODULE MCControlPlane ---------------------------
(***************************************************************************)
(* Instances of ControlPlane for TLC.                                      *)
(***************************************************************************)
EXTENDS ControlPlane

CONSTANTS n1, n2, session, mark, webhook

\* A session (replaced), a read mark (replaced, refers to a notification) and
\* a webhook (upserted).  The seed node starts with the webhook and the session;
\* the other may insert the webhook and both may delete the mark by themselves.
MCNodes == {n1, n2}
MCReplaced == {session, mark}
MCUpserted == {webhook}
MCMarks == {mark}
MCSeedRows == {session, webhook}
MCWanted == {[op |-> "remove", row |-> session], [op |-> "add", row |-> mark]}

=============================================================================
