--------------------------- MODULE PageOwnership ---------------------------
(***************************************************************************)
(* What the ownership table of xpersist promises, without signals,        *)
(* twins or versions.  Each page of the region has an owner: nobody yet,  *)
(* one process, or everybody (shared).  Ownership only moves forward:     *)
(* unowned -> a process -> shared, or unowned -> shared, and a shared page *)
(* never becomes private again.  A process may store to a page without a  *)
(* fault (writable) only while the page is its own or shared; every other *)
(* process's store to an owned page must first take it from its owner.    *)
(***************************************************************************)
CONSTANTS
    Procs,      \* the processes sharing the region
    Pages,      \* the pages of the region
    SHARED,     \* the owner of a page every process may use
    UNOWNED     \* the owner of a page not handed out yet

Owners == Procs \cup {SHARED, UNOWNED}

VARIABLES
    owner,      \* owner[g]
    writable    \* writable[q]: the pages q may store to without faulting

vars == <<owner, writable>>

TypeOK ==
    /\ owner \in [Pages -> Owners]
    /\ writable \in [Procs -> SUBSET Pages]

\* A process may write a page it owns or a shared page.
MayWrite(q, g) == owner[g] \in {q, SHARED}

Init ==
    /\ owner \in [Pages -> {UNOWNED, SHARED}]
    /\ writable = [q \in Procs |-> {}]

\* Any step may take write permission away (a protection reset or a flush).
Shrinks == \A q \in Procs : writable'[q] \subseteq writable[q]

\* A process takes some unowned pages for itself at once (a superblock).
Claim(p, S) ==
    /\ S # {} /\ \A g \in S : owner[g] = UNOWNED
    /\ owner' = [g \in Pages |-> IF g \in S THEN p ELSE owner[g]]
    /\ writable' \in [Procs -> SUBSET Pages] /\ Shrinks

\* Some pages that are not shared yet become shared.
Share(S) ==
    /\ S # {} /\ \A g \in S : owner[g] # SHARED
    /\ owner' = [g \in Pages |-> IF g \in S THEN SHARED ELSE owner[g]]
    /\ writable' \in [Procs -> SUBSET Pages] /\ Shrinks

\* A process is allowed to store to a page it may write.
Grant(q, g) ==
    /\ MayWrite(q, g)
    /\ writable' = [writable EXCEPT ![q] = @ \cup {g}]
    /\ UNCHANGED owner

Revoke ==
    /\ writable' \in [Procs -> SUBSET Pages] /\ Shrinks
    /\ UNCHANGED owner

Next ==
    \/ \E p \in Procs, S \in SUBSET Pages : Claim(p, S)
    \/ \E p \in Procs, g \in Pages : Grant(p, g)
    \/ \E S \in SUBSET Pages : Share(S)
    \/ Revoke

Spec == Init /\ [][Next]_vars
=============================================================================
