---------------------------- MODULE MCPtyOutput ----------------------------
(* Instances of PtyOutput for TLC: how much the panes' processes write.    *)
EXTENDS PtyOutput

\* One chunk more than a channel of four holds, and as many as two hold.
Burst == [p \in Pane |-> 5]
Flood == [p \in Pane |-> 8]

\* A quiet primary session next to a busy pane.
QuietAndBusy == [p \in Pane |-> IF p = 0 THEN 0 ELSE 3]
OneAndBusy == [p \in Pane |-> IF p = 0 THEN 1 ELSE 3]
=============================================================================
