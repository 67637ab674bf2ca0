--------------------------- MODULE SessionHostControl ---------------------------
(* The session host implements Control: the holder is the controller lease,    *)
(* the epoch is the index of the current token.                                *)
EXTENDS SessionHost

ControlPhase ==
    [s \in Session |-> IF record[s].state = "unissued" THEN "unopened"
                       ELSE IF token[s] = Retired THEN "sealed" ELSE "open"]

Abstract == INSTANCE Control WITH
    Holder <- AttachId, Nobody <- NoAttach,
    phase <- ControlPhase, epoch <- token, holder <- controller

\* Every behaviour of the host is one Control allows: a grant of control always
\* comes with a token no earlier holder had, and sealed control stays sealed.
ImplementsControl == Abstract!Spec
=============================================================================
