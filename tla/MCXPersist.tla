---------------------------- MODULE MCXPersist ----------------------------
(* Model values for XPersist: two processes, a heap of two pages (page 1 *)
(* allocated below `end`, page 2 fresh for a superblock), two bytes per  *)
(* page, two transactions per process.                                   *)
EXTENDS XPersist, TLC

CONSTANTS p1, p2

MCProcs == {p1, p2}
MCPages == {1, 2}
MCBytes == {1, 2}
MCAllocated == {1}
MCOnePage == {1}
MCOneByte == {1}
MCNoneAllocated == {}
MCForcerP1 == {p1}
MCNoForcers == {}
MCLoadStore == {"R", "W"}
MCStoreOnly == {"W"}
MCSymmetry == Permutations(MCProcs)

\* Exploration up to the first commit: with no begin (MaxTx = 0) no access,
\* and so no recall, follows the barrier.
MCParallelPhase == \A p \in MCProcs : phase[p] \in {"run", "fence"}

\* The state as far as control depends on it: byte values (persistent,
\* priv, twin contents) and the ghosts of the serial semantics never
\* reach a guard, so states that differ only in them behave alike.
MCControlView ==
    <<owner, version, users, [g \in Pages |-> twin[g] = NoTwin], token, handed,
      pageInfo, prot, [p \in Procs |-> [g \in Pages |-> priv[p][g] = NoCopy]],
      dirty, cursor, owned, pending, op, fault, phase, tx, asserts>>
=============================================================================
