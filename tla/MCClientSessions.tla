-------------------------- MODULE MCClientSessions --------------------------
(* Instances of ClientSessions for TLC.                                    *)
EXTENDS ClientSessions, TLC

CONSTANTS c1, r1, d1, s1, s2, t1, t2, i1, i2

\* A create, a delete of the same session, and a resume of it; the server may choose
\* another id for a new session.
AskedIds   == c1 :> i1 @@ r1 :> i1 @@ d1 :> i1
OfferedIds == c1 :> {i1, i2} @@ r1 :> {i1}
\* The server names a new session i2, while it has events of the id i1 that was asked for.
RenamedAsked   == c1 :> i1 @@ r1 :> i1 @@ d1 :> i2
RenamedOffered == c1 :> {i2} @@ r1 :> {i1}
ToolAndPermission == t1 :> "tool" @@ t2 :> "permission"
OneTool    == t1 :> "tool"
OnePermission == t1 :> "permission"
=============================================================================
