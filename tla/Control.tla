-------------------------------- MODULE Control --------------------------------
(***************************************************************************)
(* What the session host promises about control of its sessions, whatever  *)
(* leases, expiry, stops and exits do underneath (lease/mod.rs, D-09).     *)
(* Control of a session is opened once, with its first token.  Each grant  *)
(* names one holder and moves to a later epoch, so no two grants share a   *)
(* token; vacating control keeps the epoch, and sealing it is final.       *)
(***************************************************************************)
EXTENDS Naturals

CONSTANTS Session, Holder, Nobody

VARIABLES
    phase,      \* "unopened", "open" or "sealed"
    epoch,      \* the current grant of control, 0 unless open
    holder      \* who holds control

vars == <<phase, epoch, holder>>

Init ==
    /\ phase = [s \in Session |-> "unopened"]
    /\ epoch = [s \in Session |-> 0]
    /\ holder = [s \in Session |-> Nobody]

Keep(s) ==
    phase'[s] = phase[s] /\ epoch'[s] = epoch[s] /\ holder'[s] = holder[s]

\* The session is created with a first token and nobody in control.
Open(s) ==
    /\ phase[s] = "unopened"
    /\ phase'[s] = "open"
    /\ epoch'[s] > 0
    /\ holder'[s] = Nobody

\* A claim or a transfer: another holder, in a later epoch.
Grant(s) ==
    /\ phase[s] = "open"
    /\ phase'[s] = "open"
    /\ epoch'[s] > epoch[s]
    /\ holder'[s] \in Holder \ {holder[s]}

\* The holder detached or expired.
Vacate(s) ==
    /\ phase[s] = "open"
    /\ phase'[s] = "open"
    /\ epoch'[s] = epoch[s]
    /\ holder'[s] = Nobody

\* Control was revoked, or the session ended.
Seal(s) ==
    /\ phase[s] = "open"
    /\ phase'[s] = "sealed"
    /\ epoch'[s] = 0
    /\ holder'[s] = Nobody

\* One call of the host may expire the controllers of many sessions.
Next == \A s \in Session : Keep(s) \/ Open(s) \/ Grant(s) \/ Vacate(s) \/ Seal(s)

Spec == Init /\ [][Next]_vars
=============================================================================
