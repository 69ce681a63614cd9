--------------------------- MODULE LiveOwnership ---------------------------
(* The worker pods as an implementation of SymbolOwnership.                *)
EXTENDS LiveWorkers

CONSTANT Nobody    \* the owner of an unowned symbol

ASSUME LiveOwnershipAssumption == Nobody \notin Pod

\* The StatefulSet runs one pod per shard (deploy/k8s/base/statefulset-workers.yaml).
OnePodPerShard == \A p, q \in Pod : PodShard[p] = PodShard[q] => p = q

\* The process whose owned_symbols holds the symbol.
Owner(s) ==
    IF \E p \in Pod : s \in owned[p] THEN CHOOSE p \in Pod : s \in owned[p] ELSE Nobody

Ownership == INSTANCE SymbolOwnership WITH owner <- [s \in Symbol |-> Owner(s)]

\* With one pod per shard the pods implement exclusive ownership: no pod ever
\* takes a symbol another one still owns.
OwnershipIsExclusive == Ownership!Spec
=============================================================================
