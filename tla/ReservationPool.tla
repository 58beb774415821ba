--------------------------- MODULE ReservationPool ---------------------------
(***************************************************************************)
(* What loxbudget promises its callers about resources, with nothing of    *)
(* how: a pool that hands out multi-resource reservations in one step, all *)
(* or nothing, and takes back on release exactly what was handed out.      *)
(* There are no counters of what is reserved: the amount in use is what    *)
(* the holders hold.  LoxBudget implements this specification.             *)
(***************************************************************************)
EXTENDS Naturals, FiniteSets

CONSTANTS Holders, Things

VARIABLES
    limit,   \* how much there is of each thing
    spent,   \* how much of it is used up for good
    held     \* what each holder has in hand

poolVars == <<limit, spent, held>>

Nothing == [r \in Things |-> 0]

(* How much of r the reservations hs hand out: one unit for each number up *)
(* to a holder's amount.                                                   *)
Handed(hs, r) == Cardinality(UNION {{c} \X (1 .. hs[c][r]) : c \in Holders})

(* The reservations hs and the amounts sp spent fit in the pool. *)
Fits(hs, sp) ==
    \A r \in Things : Handed(hs, r) + sp[r] <= limit[r]

PoolInit ==
    /\ limit = Nothing /\ spent = Nothing
    /\ held = [c \in Holders |-> Nothing]

(* One holder obtains everything it asked for, or the step is not taken. *)
Acquire(c) ==
    /\ held[c] = Nothing
    /\ held' = [held EXCEPT ![c] = held'[c]]
    /\ \A r \in Things : spent'[r] >= spent[r]
    /\ Fits(held', spent')
    /\ UNCHANGED limit

(* A holder gives back all it holds; what is spent stays spent. *)
Release(c) ==
    /\ held' = [held EXCEPT ![c] = Nothing]
    /\ UNCHANGED <<limit, spent>>

(* The size of one thing is set anew while nobody holds anything. *)
Resize(r) ==
    /\ held = [c \in Holders |-> Nothing]
    /\ limit' = [limit EXCEPT ![r] = limit'[r]]
    /\ spent' = [spent EXCEPT ![r] = 0]
    /\ UNCHANGED held

(* The pool is closed: every reservation is void. *)
Close ==
    /\ held' = [c \in Holders |-> Nothing]
    /\ UNCHANGED <<limit, spent>>

(* The pool is opened anew, empty. *)
Open ==
    /\ limit' = Nothing /\ spent' = Nothing
    /\ held' = [c \in Holders |-> Nothing]

PoolNext ==
    \/ \E c \in Holders : Acquire(c) \/ Release(c)
    \/ \E r \in Things : Resize(r)
    \/ Close
    \/ Open

PoolSpec == PoolInit /\ [][PoolNext]_poolVars

=============================================================================
