------------------------------- MODULE LoxRate -------------------------------
(***************************************************************************)
(* The rate windows and lifetime limits of src/loxbudget_core.c            *)
(* (LOXBUDGET_ENABLE_RATE_WINDOWS), in both builds LOXBUDGET_RATE_IMPL     *)
(* selects: fixed windows and token buckets.                               *)
(*                                                                         *)
(* Only CONSUMABLE resources have rate state: the setters refuse the       *)
(* others, check and enter skip them.  What the rest of the decision       *)
(* engine (LoxBudget) contributes is left open: an entry of a need list    *)
(* may find no room in its resource, and an enter whose check passed may   *)
(* still fail in phase A or find no lease slot.  The millisecond clock     *)
(* runs on during a call: check reads it once, the commit reads it again   *)
(* for every entry.                                                        *)
(***************************************************************************)
EXTENDS Integers, Sequences, FiniteSetsExt

CONSTANTS
    U32_MAX,       \* largest uint32_t, of the clock and of the counters
    Q,             \* one token in the bucket's fixed point (2^16 in the code)
    Resources,     \* the configured CONSUMABLE resources
    Windows,       \* SECOND .. DAY, as numbers in the order of the code
    Duration,      \* lb__window_duration_ms_
    Ops,           \* the operations
    NeedList,      \* the need list of each
    Bypass,        \* those with OPF_BYPASS_RATE_LIMIT
    RateCalls,     \* arguments of set_rate_limit
    LifetimeCalls, \* arguments of set_lifetime_limit
    Impls          \* the values of LOXBUDGET_RATE_IMPL considered

Modulus == U32_MAX + 1
U32     == 0 .. U32_MAX

(* A need list names a resource once (NeedsDistinct of LoxBudget), and the *)
(* clock can count a whole window.                                         *)
ASSUME RateAssumption ==
    /\ U32_MAX \in Nat \ {0}
    /\ Q \in Nat \ {0}
    /\ Windows \subseteq Nat
    /\ Duration \in [Windows -> U32 \ {0}]
    /\ NeedList \in [Ops -> Seq([resource : Resources, amount : U32 \ {0}])]
    /\ \A o \in Ops : \A i, j \in 1 .. Len(NeedList[o]) :
         NeedList[o][i].resource = NeedList[o][j].resource => i = j
    /\ Bypass \subseteq Ops
    /\ RateCalls \subseteq Resources \X Windows \X U32
    /\ LifetimeCalls \subseteq Resources \X U32
    /\ Impls \subseteq {"fixed", "bucket"}

VARIABLES
    impl,    \* the build
    clock,   \* what now_ms returns
    win,     \* rs->windows[w] of each resource
    life,    \* rs->consumed_lifetime and rs->limit_lifetime
    todo,    \* the entries an admitted enter has still to commit
    obs      \* an observer: what one window granted during one duration

vars == <<impl, clock, win, life, todo, obs>>

-----------------------------------------------------------------------------
(* Types. *)

(* lb__rate_window_t.  In the bucket build consumed holds the tokens that  *)
(* are left and start the time of the last refill.                         *)
Window   == [start : U32, dur : U32, consumed : U32, limit : U32]
NoWindow == [start |-> 0, dur |-> 0, consumed |-> 0, limit |-> 0]
Lifetime == [consumed : U32, limit : U32]
NoLife   == [consumed |-> 0, limit |-> 0]
Observer == [res : Resources, win : Windows, left : U32 \ {0}, sum : Nat]
Nobody   == [left |-> 0]
Need     == [resource : Resources, amount : U32 \ {0}]

TypeOK ==
    /\ impl \in Impls
    /\ clock \in U32
    /\ win \in [Resources -> [Windows -> Window]]
    /\ life \in [Resources -> Lifetime]
    /\ todo \in Seq(Need)
    /\ obs \in Observer \cup {Nobody}

-----------------------------------------------------------------------------
(* One window. *)

(* set_rate_limit(0), and a window never set, limit nothing. *)
Unlimited(x) == x.limit = 0 \/ x.dur = 0

(* Mutant: the ages are compared without wrapping. *)
BugElapsed(x) == clock - x.start

(* now_ms - window_start_ms in uint32_t. *)
Elapsed(x) == (clock - x.start) % Modulus

Cap(x) == x.limit * Q

(* The tokens that came since: the product is a uint64_t and wraps.        *)
Refill(x) == ((Cap(x) * Elapsed(x)) % (Modulus * Modulus)) \div x.dur

(* Mutant: the bucket is refilled past its size. *)
BugRolled(x) ==
    CASE Unlimited(x) -> x
      [] impl = "fixed" /\ ~Unlimited(x) ->
           IF Elapsed(x) < x.dur THEN x
           ELSE [x EXCEPT !.start = clock, !.consumed = 0]
      [] impl = "bucket" /\ ~Unlimited(x) ->
           [x EXCEPT !.start = clock, !.consumed = (@ + Refill(x)) % Modulus]

(* Mutant: a window that is over is emptied but not started again. *)
BugRollFixed(x) ==
    CASE Unlimited(x) -> x
      [] impl = "fixed" /\ ~Unlimited(x) ->
           IF Elapsed(x) < x.dur THEN x ELSE [x EXCEPT !.consumed = 0]
      [] impl = "bucket" /\ ~Unlimited(x) ->
           [x EXCEPT !.start = clock, !.consumed = Cap(x) % Modulus]

(* The first half of lb__rate_roll_and_check_: a fixed window that is over *)
(* starts again; a bucket is refilled up to its size and truncated.        *)
Rolled(x) ==
    CASE Unlimited(x) -> x
      [] impl = "fixed" /\ ~Unlimited(x) ->
           IF Elapsed(x) < x.dur THEN x
           ELSE [x EXCEPT !.start = clock, !.consumed = 0]
      [] impl = "bucket" /\ ~Unlimited(x) ->
           [x EXCEPT !.start = clock,
                     !.consumed = (IF @ + Refill(x) > Cap(x) THEN Cap(x)
                                   ELSE @ + Refill(x)) % Modulus]

(* Its second half: whether the rolled window has room. *)
Admits(x, amount) ==
    \/ Unlimited(x)
    \/ IF impl = "fixed" THEN Rolled(x).consumed + amount =< x.limit
                         ELSE Rolled(x).consumed >= amount * Q

(* Mutant: the sum does not saturate. *)
BugSaturatingAdd(a, b) == a + b

(* The guarded sums of the commit. *)
SaturatingAdd(a, b) == IF U32_MAX - a < b THEN U32_MAX ELSE a + b

(* lb__rate_commit_: roll again, then add (saturating) or take tokens. *)
Charged(x, amount) ==
    LET y == Rolled(x)
    IN  IF Unlimited(x) THEN x
        ELSE IF impl = "fixed"
        THEN [y EXCEPT !.consumed = SaturatingAdd(@, amount)]
        ELSE [y EXCEPT !.consumed =
                IF @ >= amount * Q THEN @ - amount * Q ELSE 0]

-----------------------------------------------------------------------------
(* The rate stage of loxbudget_check. *)

(* The entries the stage looks at: none for an operation that bypasses. *)
Limited(o) == IF o \in Bypass THEN <<>> ELSE NeedList[o]

LifetimeBlocks(n) ==
    LET l == life[n.resource]
    IN  l.limit # 0 /\ (l.consumed > l.limit \/ n.amount > l.limit - l.consumed)

BlockingWindows(n) ==
    {w \in Windows : ~Admits(win[n.resource][w], n.amount)}

(* Mutant: the lifetime limit is not asked. *)
BugBlocked(n) == BlockingWindows(n) # {}

(* Mutant: one window with room is enough. *)
BugBlockedByAll(n) == LifetimeBlocks(n) \/ BlockingWindows(n) = Windows

Blocked(n) == LifetimeBlocks(n) \/ BlockingWindows(n) # {}

(* The entry that refuses when entry full has no room in its resource (0   *)
(* if all have); Len + 1 when check passes.                                *)
RefusingEntry(o, full) ==
    Min({i \in 1 .. Len(Limited(o)) : i = full \/ Blocked(Limited(o)[i])}
        \cup {Len(Limited(o)) + 1})

(* A window is rolled when the loops reach it: for every entry before the  *)
(* refusing one, and for that one up to the first window that blocks.      *)
Reached(o, full, r, w) ==
    \E i \in 1 .. Len(Limited(o)) :
       LET n == Limited(o)[i]
       IN  /\ n.resource = r
           /\ \/ i < RefusingEntry(o, full)
              \/ /\ i = RefusingEntry(o, full)
                 /\ i # full
                 /\ ~LifetimeBlocks(n)
                 /\ \A v \in BlockingWindows(n) : w =< v

RollReached(o, full) ==
    win' = [r \in Resources |-> [w \in Windows |->
              IF Reached(o, full, r, w) THEN Rolled(win[r][w])
                                        ELSE win[r][w]]]

-----------------------------------------------------------------------------

Init ==
    /\ impl \in Impls
    /\ clock \in U32
    /\ win = [r \in Resources |-> [w \in Windows |-> NoWindow]]
    /\ life = [r \in Resources |-> NoLife]
    /\ todo = <<>>
    /\ obs = Nobody

(* loxbudget_init clears the rate table with the rest of the storage. *)
Reinit ==
    /\ todo = <<>>
    /\ win' = [r \in Resources |-> [w \in Windows |-> NoWindow]]
    /\ life' = [r \in Resources |-> NoLife]
    /\ obs' = Nobody
    /\ UNCHANGED <<impl, clock, todo>>

(* loxbudget_set_rate_limit starts a fresh window, its bucket full. *)
SetRateLimit(r, w, limit) ==
    /\ todo = <<>>
    /\ win' = [win EXCEPT ![r][w] =
                 [start |-> clock, dur |-> Duration[w], limit |-> limit,
                  consumed |-> IF impl = "fixed" THEN 0
                               ELSE (limit * Q) % Modulus]]
    /\ obs' = Nobody
    /\ UNCHANGED <<impl, clock, life, todo>>

(* loxbudget_set_lifetime_limit keeps what was consumed. *)
SetLifetimeLimit(r, limit) ==
    /\ todo = <<>>
    /\ life' = [life EXCEPT ![r].limit = limit]
    /\ UNCHANGED <<impl, clock, win, todo, obs>>

(* loxbudget_check, and a loxbudget_enter refused by it, by phase A or for *)
(* want of a slot: the windows it reached stay rolled.                     *)
Check(o, full) ==
    /\ todo = <<>>
    /\ RollReached(o, full)
    /\ UNCHANGED <<impl, clock, life, todo, obs>>

(* loxbudget_enter got as far as its commit. *)
EnterAdmitted(o) ==
    /\ todo = <<>>
    /\ Limited(o) # <<>>
    /\ \A i \in 1 .. Len(Limited(o)) : ~Blocked(Limited(o)[i])
    /\ RollReached(o, 0)
    /\ todo' = Limited(o)
    /\ UNCHANGED <<impl, clock, life, obs>>

(* The commit of one entry, at the time it reads. *)
CommitEntry ==
    /\ todo # <<>>
    /\ LET n == Head(todo)
       IN  /\ win' = [win EXCEPT ![n.resource] =
                        [w \in Windows |-> Charged(@[w], n.amount)]]
           /\ life' = [life EXCEPT ![n.resource].consumed =
                         SaturatingAdd(@, n.amount)]
           /\ obs' = IF obs # Nobody /\ obs.res = n.resource
                     THEN [obs EXCEPT !.sum = @ + n.amount] ELSE obs
    /\ todo' = Tail(todo)
    /\ UNCHANGED <<impl, clock>>

(* A millisecond passes; it ends the observation when its time is over. *)
Tick ==
    /\ clock' = (clock + 1) % Modulus
    /\ obs' = IF obs = Nobody \/ obs.left = 1 THEN Nobody
              ELSE [obs EXCEPT !.left = @ - 1]
    /\ UNCHANGED <<impl, win, life, todo>>

(* The observer picks a limited window and watches it for its duration. *)
Observe(r, w) ==
    /\ obs = Nobody
    /\ ~Unlimited(win[r][w])
    /\ obs' = [res |-> r, win |-> w, left |-> win[r][w].dur, sum |-> 0]
    /\ UNCHANGED <<impl, clock, win, life, todo>>

Next ==
    \/ Reinit
    \/ \E c \in RateCalls : SetRateLimit(c[1], c[2], c[3])
    \/ \E c \in LifetimeCalls : SetLifetimeLimit(c[1], c[2])
    \/ \E o \in Ops : \E full \in 0 .. Len(NeedList[o]) : Check(o, full)
    \/ \E o \in Ops : EnterAdmitted(o)
    \/ CommitEntry
    \/ Tick
    \/ \E r \in Resources, w \in Windows : Observe(r, w)

Spec == Init /\ [][Next]_vars /\ WF_vars(Tick)

-----------------------------------------------------------------------------
(* Properties. *)

(* A window never counts more than its limit and a bucket never holds more *)
(* than its size, although the commit adds without asking again, at a time *)
(* when the windows check looked at may be over.                           *)
WithinLimit ==
    \A r \in Resources, w \in Windows :
       LET x == win[r][w]
       IN  ~Unlimited(x) =>
              x.consumed =< IF impl = "fixed" THEN x.limit ELSE Cap(x)

(* While enter commits, every entry it has not come to still has room in   *)
(* every fixed window, whatever time has passed since check.               *)
CommitHasRoom ==
    impl = "fixed" =>
       \A i \in 1 .. Len(todo), w \in Windows :
          Admits(win[todo[i].resource][w], todo[i].amount)

(* SPEC.md section 15: "allows up to 2x burst at window boundaries".  In no *)
(* interval of a window's duration, wherever it starts and whether or not  *)
(* the clock wraps in it, is more than twice the limit granted to          *)
(* operations that respect rate limits.                                    *)
BurstBound ==
    obs # Nobody => obs.sum =< 2 * win[obs.res][obs.win].limit

(* SPEC.md section 15: a lifetime count is "a simple monotonic counter".   *)
(* No call but loxbudget_init takes anything back, not set_lifetime_limit  *)
(* either, and no grant takes the count past the limit in force: once it   *)
(* is there nothing is granted until the limit is raised.  (That init      *)
(* clears the count is what the code does and SPEC.md does not say: see    *)
(* the README.)                                                            *)
LifetimeHolds ==
    [][Reinit \/ \A r \in Resources :
          /\ life'[r].consumed >= life[r].consumed
          /\ life'[r].consumed > life[r].consumed =>
                life[r].limit = 0 \/ life'[r].consumed =< life[r].limit]_vars

(* As long as time passes, a fixed window has its whole limit to give      *)
(* again and again, however often it is asked and also after the clock     *)
(* wrapped: an amount up to the limit is not refused for ever.             *)
RateRecovers ==
    \A r \in Resources, w \in Windows :
       []<>(impl = "fixed" => Admits(win[r][w], win[r][w].limit))

=============================================================================
