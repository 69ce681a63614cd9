-------------------------- MODULE SymbolOwnership --------------------------
(***************************************************************************)
(* What the design notes promise of symbol ownership                       *)
(* (docs/k8s-trading-agent-design.md, "Ownership Boundary"): at any time   *)
(* one worker process owns a tradable symbol.  A process takes only a      *)
(* symbol nobody owns, and gives up one or, when it dies, all of its own.  *)
(***************************************************************************)
CONSTANTS Pod, Symbol, Nobody

VARIABLE owner    \* [Symbol -> Pod \cup {Nobody}]

Init == owner = [s \in Symbol |-> Nobody]

Take(p, s) ==
    /\ owner[s] = Nobody
    /\ owner' = [owner EXCEPT ![s] = p]

GiveUp(p, s) ==
    /\ owner[s] = p
    /\ owner' = [owner EXCEPT ![s] = Nobody]

Die(p) ==
    owner' = [s \in Symbol |-> IF owner[s] = p THEN Nobody ELSE owner[s]]

Next ==
    \E p \in Pod :
        \/ Die(p)
        \/ \E s \in Symbol : Take(p, s) \/ GiveUp(p, s)

Spec == Init /\ [][Next]_owner
=============================================================================
