----------------------------- MODULE AtMostOnce ------------------------------
(***************************************************************************)
(* What the idempotency stores promise about one key: the request it names *)
(* takes effect at most once.  A refusal applied nothing and may be        *)
(* forgotten, after which the key is free again; an effect is remembered   *)
(* until its session is over (`spent`), and is never repeated.             *)
(***************************************************************************)
CONSTANT Slot           \* a key of a store
VARIABLE outcome

Outcomes == {"none", "refused", "applied", "spent"}
Moves == {<<"none", "refused">>, <<"none", "applied">>, <<"refused", "none">>,
          <<"applied", "spent">>}

Init == outcome = [slot \in Slot |-> "none"]
Next ==
    /\ outcome' \in [Slot -> Outcomes]
    /\ \A slot \in Slot :
         outcome'[slot] # outcome[slot] => <<outcome[slot], outcome'[slot]>> \in Moves
Spec == Init /\ [][Next]_outcome
=============================================================================
