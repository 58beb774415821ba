# A TLA+ model of loxbudget

loxbudget is a C library for microcontrollers that decides whether an operation
may run now: it compares what the operation needs with resource budgets, the
system's pressure level and hardware preconditions, and hands out leases.  This
directory holds a model of its core, the TLC runs that check it on small
instances and the TLAPS proofs that hold for every size.

## The system

| part | source | state | operations |
|---|---|---|---|
| decision engine | `src/loxbudget_core.c` 737-1054 | the `total_*` counters | `check` |
| resources | core 640-658, 1071-1132, 1166-1180 | `limit`, `used`, `reserved`, `high_watermark`, `kind`, `res_cfg` | `set_resource`; commit in `enter`, release in `leave` |
| operations, needs | core 660-735 | profiles, `op_cfg`, need lists | `register_op`, `op_set_need` |
| leases | core 1056-1232 | slots (`active`, `magic`, `acquired_pressure`), the callers' tokens | `enter`, `leave`, `yield_check` |
| lifecycle | core 287-449 | `magic`, `lease_magic_base`, offsets | `init`, `deinit` |
| pressure | core 622-637 | `pressure` | `set_pressure`, `get_pressure` |
| HAL | `src/loxbudget_hal.c`, core 215-256 | callback table, strict flag | preconditions, critical section, clock |
| rate windows | core 488-619, 944-987, 1116-1130 | four windows and a lifetime count per resource | `set_rate_limit`, `set_lifetime_limit`; roll in `check`, charge in `enter` |
| audit trail | core 258-285, `src/loxbudget_audit.c` | ring, head, count | record, clear, get recent |
| causality | `src/loxbudget_causality.c`, core 991-1040 | edge table, one visited bitmap | `op_may_trigger` with its search; the cascade of `check` |
| calibration | `src/loxbudget_calibration.c` | a session per operation: five P-square estimators, maxima, outliers | `calibrate_begin`, `sample`, `end` |
| adapters | `adapters/` | one static context each | forward decisions from the hook, move the pressure |

The parts interact by calls and shared memory only.  `check` reads pressure, the
HAL callbacks, the need list and the resources in that order and counts its
decision; `enter` runs `check`, tests the needs a second time (phase A), then,
inside the HAL critical section, takes a slot and commits; `leave` validates a
token by value and, inside the section, releases what the operation's need list
says.  The library has no threads of its own.  The application may call it from
several contexts (interrupt handlers, tasks) if it supplies a critical section.

What is hard here: the room is tested outside the section it is used in; a
lease is a plain value that its owner can keep and pass again; tables can be
redefined under outstanding leases; a failed or repeated `init` wipes a live
instance; 16-bit sums are protected only by tests made earlier.  The clock of the
rate windows wraps and moves on between the test and the charge.  The graph walks
share a bitmap nobody guards and have a stack that can run out.  The estimators
work in fixed point close to the end of their types.  The adapters keep one context
for all instances and set the pressure from several callbacks.  `PROJECT.json` lists
these hazards with their lines and properties.

## Modules

| module | models |
|---|---|
| `LoxDecision` | types of `include/loxbudget.h` and the pure tests: availability, mapped action, HAL answer, the stages of `check`, commit and release of one need, the yield hint |
| `LoxBudget` | one instance used from one context: an action per public call that changes state |
| `ReservationPool` | what the accounting promises: an atomic pool of holders, spent amounts and limits; no counters, slots or tokens |
| `LoxPreempt` | `check`, `enter`, `leave`, `set_pressure` split into the accesses another context can come between |
| `LoxAudit` | the audit ring: record, clear, read newest first, across `init` and `deinit` |
| `AuditLog` | what the ring promises: a log that remembers a bounded number of decisions |
| `LoxRate` | rate windows and lifetime limits in both builds, over a wrapping clock that moves during a call |
| `LoxCausality` | `op_may_trigger` and the cascade stage of `check`, their walks one stack operation or edge at a time |
| `LoxCalibration` | calibration sessions and the integer P-square estimator |
| `LoxAdapters` | the decision hook, the adapters' static contexts, and the pressure calls of microhealth and microbus |
| `MCLoxBudget`, `MCLoxPreempt`, `MCLoxAudit`, `MCLoxRate`, `MCLoxCausality`, `MCLoxCalibration`, `MCLoxAdapters` | small instances |
| `LoxLayout` | the storage layout as operators: the offsets, twice, and the sizes; no state, no run |
| `LoxDecisionProofs` | lemmas about the operators of `LoxDecision`: wrapping sums, stages, commit and release of one need, and sums over a set of holders |
| `LoxBudgetProofs` | theorems about `LoxBudget`, its refinement of `ReservationPool`, and `LoxLayout` |
| `LoxPreemptProofs`, `LoxAuditProofs`, `LoxRateProofs`, `LoxCausalityProofs`, `LoxCalibrationProofs`, `LoxAdaptersProofs` | theorems about the module each is named after |

**LoxBudget.**  The variables are the fields of `loxbudget_t` and of its storage
tables, plus `lease` (the application's token variables), `hal` (what its
callbacks answer) and the history variable `holds`: what a granted, not yet
released lease reserved at the time.  A call that the code refuses without
writing anything is a stuttering step, so its conditions are guards.  `enter` has
three outcomes: `EnterDenied` (zeroes the token, except for an unknown operation),
`EnterRefused` (phase A or no slot; the grant stays counted) and `EnterGranted`.
The commit and release loops act on all entries at once, because a need list
names a resource once (`NeedsDistinct`).  A slot magic `base ^ id` is the pair of
the two: magics are compared only between tokens of one slot, where the two
tell the same tokens apart.  `InitNoSpace` zeroes the instance and leaves the
tables, as the code does.  Two constants describe the application:
`CallerMayReplay` (it may pass a lease it already released) and
`CallerMayReconfigure` (it may change resources and needs under outstanding
leases).  Only a caller that may replay also overwrites the token of a lease it
holds; HAL callbacks answer true or false.

**LoxPreempt.**  Each context has a program counter.  Steps: the read of the
pressure for the mapped action, the read for LOCKDOWN, the HAL tests, one entry of
the need list, the load and the store of each counter increment, one entry of
phase A, and the steps inside the section (slot scan, one entry of the commit or
release loop, publish or clear).  The tables are configured before the contexts
start.  `serial` is chosen initially: whether the application lets calls overlap.
A context that may `"replay"` passes its token to `leave` again after releasing it, which
reaches the refusal inside the section; the magic of a token tells only whether it is the
zeroed one (`magic`), which `leave` refuses before it asks for the section.
The history variable `seen` collects the pressures in force during a context's call.

**LoxAudit.**  The variables are `audit_size`, `audit_head`, `audit_count`, the
ring and what the last reader obtained.  Each of the three calls works inside one
critical section and is one step; a record is an opaque value.  It is a module of
its own: the ring reads nothing of the accounting but the decision it is given.

**LoxRate.**  The build (`impl`) is chosen initially.  A check rolls the windows its
loops reach, in their order, and leaves them rolled also when it refuses; a granted
enter then charges one entry per step, at whatever time the clock has reached.  What
`LoxBudget` decides is left open: any entry may find its resource without room.
`obs` is an observer that picks a window at any time and adds up what is granted
during one duration.  `Refill` is `limit * dt` in a `uint64_t`, as in the code: for limits of
65536 or more it can wrap after a long time, and then refills less.

**LoxCausality.**  A walk is a record with the stack, the operation being expanded
and the next edge.  `op_may_trigger` appends its edge first and searches then, as the
code does, so that a check in another context meets the edge.  The history `exact`
says that a walk had the bitmap for itself and dropped nothing, `tainted` that an
edge was accepted by a search that was not exact.  The resource tables are fixed; the
decision is taken from them with the tests of `LoxDecision`.  Operations are
registered before the module starts.

**LoxCalibration.**  `Q` is one unit of the fixed point, so that 2^16 and the widths
of the types shrink together.  The signed overflow of the marker positions is
undefined in C and taken to wrap, which is what a 32-bit addition stored back to
memory does on the supported targets.  Each estimator is a record of its buffer or its
markers.  A session takes fewer than 2^31 samples (`MaxSamples`): the code casts the
positions to `int32_t`.

**LoxAdapters.**  A decision has no state of its own: `Hears` says which sink gets it.
`asked` is what the application asked for last; `source` is who set the pressure.
`again` and `crossed` record the two ways in which the code gives no guarantee, and which
the properties exempt.  An adapter attached once more takes its one context away from the
instance that had it (`again`).  Of two overlapping pressure calls the one that began
first may finish last, and then the older value stands until the next call (`crossed`;
`late` holds the calls another one began after): a health percentage read before the
monitor called back, or a change announced out of order.  Calls that overlap and finish
in the order they began in are not exempt.  On LOCKDOWN loxguard also flushes its guard,
which is left out: it changes nothing of the library.  `Contexts` are the application's
contexts; `Main` configures and `Monitor` is the one microhealth is called back in.

**Refinement.**  `LoxBudget!ImplementsPool` maps `used` and the history of
reservations to `ReservationPool`, whose `Acquire` requires room in every
resource at once and whose `Release` returns exactly what was acquired.
`ReservedIsHeld` ties the code's `reserved` counters to the same history.
`LoxAudit!ImplementsLog` maps the places before the head, read backwards, to the
sequence of `AuditLog`.

## Runs

| run | result | shows |
|---|---|---|
| `budget` | passes | well-behaved callers: pool refinement, `reserved` equals what is held, slots and tokens paired, a second release is refused, phase A agrees with `check`, WAIT is answered only when someone can give back, consumption is not returned |
| `misuse` | passes | a caller that replays and loses leases and changes limits, kinds and needs under them, on strict, partly configured and lax HALs: limits, watermarks and types survive, preconditions fail closed, registration on a strict instance is enough, each decision is counted once |
| `preempt` | passes | two contexts, serialised or not: the pairing of leases and slots and the sum of reservations hold in every interleaving; limits hold when calls are serialised; a call that saw several pressures admits only what one of them admits |
| `preempt_live` | passes | with one slot, every call returns, NO_SPACE and the refused second `leave` included |
| `audit` | passes | rings of several sizes, wrapped, cleared and re-initialised between reads, return the newest decisions, newest first |
| `rate` | passes | no window counts more than its limit, what was admitted still has room when it is charged, no interval of a window's duration grants more than twice the limit, no grant passes a lifetime limit, a fixed window recovers; one bucket is truncated |
| `causality` | passes | the graph is acyclic as long as no search was disturbed or ran out of stack; a cascade that was not disturbed counts and decides within the bounds of a reference definition, on whatever graph; every walk ends |
| `calibration` | passes | markers stay at distinct positions, ordered, and within the observed samples, past the overflow; suggestions admit what was observed |
| `adapters` | passes | decisions reach the sink attached last; the pressure is what its last source says, unless of two overlapping calls the first finished last |
| `stale_lease` | violated | a released lease is accepted again once its slot is re-granted (`SPEC.md` section 27) |
| `overcommit` | violated | two contexts pass the test for the same room (`SPEC.md` section 9) |
| `cycle` | violated | the search drops an operation when its stack is full, and a cycle is accepted (`causality.c` 187) |

Each violated run states one sentence of the repository's documentation and is
explained under `findings` in `PROJECT.json`.

Other places where the documentation and the code differ, met while modelling and
not given a run: the weak HAL preconditions refuse, `docs/api.md` 148 calls the
defaults permissive; `init` zeroes the watermarks and the audit ring, `SPEC.md` 1089
says it preserves them; `init` also clears the lifetime counts (`core.c` 389), so that a
limit that was reached grants again after any restart or second `init`, while `core.c` 528
keeps the count "to support .noinit reuse" and `SPEC.md` 1282 has the resource "permanently
denied unless explicitly reset (reserved for OEM service mode)" (`LifetimeHolds` is what
remains true: between two inits the count only grows and no grant passes the limit);
`leave` returns what the need list says now, not what the
lease reserved (`loxbudget.h` 366), which matters once `op_set_need` is called under
a lease; the counters are not inside the critical section that `SPEC.md` 2139 says
surrounds all mutating operations; the "median of buffered samples"
(`calibration.c` 225) is taken of the samples padded with zeros to five;
`SPEC.md` 1184 promises a suggested limit with "breathing room" above every sample, but
`max * 105 / 100` is truncated to 16 bits and `max * 110` to 32, so that a maximum close
to the end of its type gives a small suggestion, which `SuggestionAdmitsObserved` leaves
out; `docs/adapters.md` 33 announces pressure changes, and microbus announces those made
through its own function only.

**Bounds.**  Two resources, two operations, two entries per list: enough for an
operation that needs two resources, for two operations that compete for one,
for a full list and for replacement in it.  Two slots and three callers in
`budget`, so that a caller can be refused while two hold leases and slots are
released in either order.  In `misuse` one caller and two slots: it can lose a token,
take the other slot and release either twice; there the pressure goes to LOCKDOWN and
back only by a new `init` (`budget` moves it both ways); two callers in `stale_lease`, so that a
token meets its slot re-granted.  `U16_MAX` is 3 in `budget` with a limit of 3: any
excess would wrap, and show as `reserved` no longer being what is held.  In `misuse`
it is 4 and in `LoxPreempt` 7, so that an excess over the limit is itself
representable.  `U32_MAX` is 0 where no checked property reads the counters (their
value is then constant, the increments remain steps) and 1 in `misuse`, where they
wrap at once.  `preempt` moves the pressure between
SURVIVAL and LOCKDOWN, where the two operations are treated differently, while both
contexts enter and leave; `preempt_live` has one slot, adds plain checks and a context
that leaves its lease again, and goes to LOCKDOWN only.  In `audit` the rings have 0, 1, 2 and 4 places and a size of 3 is
refused; every content with three decisions is reached, and readers ask for less and
for more than there is.

In `rate` the clock has five values and the windows last two and three, so that a wrap
falls into every phase of both; one resource has two windows and one operation needs
both resources, so that the clock moves within a commit; one bucket is larger than
a `uint32_t` and loses its upper half.  In `causality` four operations, six possible edges that close
three cycles, at most four of them in the table and a depth limit of two, so that the
table fills and paths are cut; a context checks while the other registers and checks.  `cycle`
needs seven operations: the smallest graph found in which a stack of `MAX_OPS`
entries loses the only path back; its thirteen edges are offered in one order and
each may be left out.  In `calibration` sessions of nine samples over four values,
the extremes and one duration that does not fit, with positions that overflow at the
eighth sample (`PosMax` stands for 2^15) and a baseline at the sixth.  In
`adapters` two instances and every adapter; the constraint `OneHalf` follows the hooks
or the pressure, which share only whether an instance is initialised, but not both in
one behaviour.  `budget` uses symmetry over callers and `audit` over
decisions; they check no liveness.

**Fairness.**  `preempt_live` assumes that a context inside a call is
eventually scheduled (weak fairness on its steps) and that one that asks for the
critical section eventually gets it (strong fairness on `Acquire`; interrupt
masking and RTOS mutexes give that, and the section has no loop that waits).
`rate` assumes that the clock ticks; nobody is obliged to call, and recovery is
stated for the next call whenever it comes.  `causality` assumes that a context in the
middle of a walk takes its next step.

## Theorems

TLAPS checks every theorem below to the last leaf, for every value of the constants
that their assumptions allow: any number of callers, contexts, resources, slots,
operations, windows, edges and samples, any width of the integers.  TLC evaluates the
assumptions (`SizesAssumption`, `InputsAssumption`, `ConfiguredAssumption`,
`RateAssumption` and so on) in the runs.  A theorem whose property a run checks has the
same statement as that run.

**Accounts** (`LoxBudgetProofs`; any misuse by the callers).  `TypeCorrect`,
`NeverOvercommitted`, `WatermarkCorrect` and `ConsumptionStays` follow from
`AccountsInv`: the types and, for each resource, `used + reserved <= limit` with both
within a `high_watermark` within `limit`.  Limit and types need each other, because
`(x + amount) % (U16_MAX + 1)` is a plain sum only within the limit.  `CommitSound` and
`ReleaseSound` do one resource, `CommittedSound` lifts it to the table through phase A.
The invariant does not rest on `check`: phase A alone is enough when calls do not
overlap.  `PhaseANeverDisagrees` and `FailsClosed` need no invariant: they follow from
the order of the stages in `Decide` (`AllowedStages`).  `CountersAlwaysBalance` is
inductive with the type, by arithmetic modulo 2^32.

**Leases** (`LoxBudgetProofs`).  `NeedListsDistinct`: `op_set_need` writes the one place
that names the resource.  `LeasesOwnSlots`, `DoubleLeavesDetected` and `LeasesAdmitted`
assume `~CallerMayReplay`; `stale_lease` shows that they must.  `LeaseInv` says that
each outstanding lease is accepted and alone in its slot, each slot in use has a
holder, and the holder's operation was allowed at the slot's `acquired_pressure`.
`StrictHalSuffices` follows from `HalInv`: a registered profile of a strict instance
has its callbacks.

**Sums and the pool** (`LoxBudgetProofs`).  `ReservedAlwaysHeld`, `WaitsAreHonest` and
`PoolImplemented` also assume `~CallerMayReconfigure`, as the API's contract does.
`PoolInv` adds to the two invariants above that a hold is what the need list says now
(`HeldIsShare`), that reusable resources have no consumption (`ReusableUnused`), and
the sum itself.  Sums over callers are the cardinality of a set of units
(`Units`, in `LoxDecisionProofs`), so that a change of one holder's amount is a lemma
about finite sets (`SumUpdate`) and not an induction.  For the refinement, `PoolStarts`
maps initial states and `PoolSimulates` each action to one of the pool or to a stutter:
a granted `enter` to `Acquire`, where phase A gives the pool its room, and `leave` to
`Release`.

**Layout** (`LoxBudgetProofs`).  For every configuration `init` accepts and every
combination of the build's switches: `TablesDisjoint`, the tables are aligned and share
no byte; `CausalityBlockFits`, the offset `loxbudget_causality.c` computes again from
literal sizes is the one `init` reached, and its block ends within the storage `init`
accepted; `RequiredSizeSuffices`, a buffer of `LOXBUDGET_REQUIRED_SIZE` is accepted, and
`RequiredWordsSuffice`, also when it is declared in words and the division rounds down.
`Offsets` shows that alignment adds nothing before the bitmap, because every table is
a whole number of words; the macro leaves alignment out, and the four bytes it counts
too many for each lease cover the at most three behind the bitmap.  It assumes that
`LOXBUDGET_CALIB_STATE_SIZE` is a multiple of four, which the static assertion in
`loxbudget_calibration.c` implies where words are aligned to four bytes.

**Preemption** (`LoxPreemptProofs`; any number of contexts, every interleaving).
`TypeCorrect` needs `Control`, which ties the program counter to the call and to what
the local variables may hold.  `LeasesAlwaysOwnSlots` rests on `OwnInv`: the section is
held by the context that is inside it (`Exclusive`), and the slot found stays free
until it is published, because nobody else is inside.  It assumes `NoReplay`, that no
context leaves a lease again, which `stale_lease` shows to be needed.  `GrantsAdmissible` uses
`SeenInv`, which keeps for each test already passed a pressure of the call at which it
passes.  `SerialNeverOvercommits` uses `SerialInv`: with one call at a time, the
entries of phase A already tested still fit, and so do those still to be committed.
`ReservedIsAlwaysHeld` uses `HandsInv`: at each step of the two loops `reserved` is the
sum of the holds plus what the context inside the section has committed or not yet
released.  It assumes `NoReplay`, and `NoWrap`, that what all contexts reserve together fits the
`uint16_t`: without it the counter wraps, since `overcommit` shows that the limit alone
does not stop them.  `MCLoxPreempt` assumes it for its instance.

**Audit** (`LoxAuditProofs`).  `AuditTypeCorrect`, and `RingImplementsLog`: for every
set of ring sizes the ring implements the log.  `AuditInv` says that every place a
reader is shown holds a decision, never a zeroed record; `HeadAdvances` that moving the
head makes the i-th newest the (i+1)-th, by cases on whether the head wraps;
`RecordAppends` and `GetRecentReads` lift that to the steps of `AuditLog`.

**Rates** (`LoxRateProofs`, both builds).  `RateInv` says that every window is within
its limit and that what is left to charge names each resource once and has room
without another roll (`HasRoom`).  This carries the room from the test to the charge
while the clock moves: a roll only empties a fixed window, and a bucket only fills.
It gives `RateTypeCorrect`, `WindowsWithinLimit`, `CommitsHaveRoom` and
`LifetimeLimitHolds`.  `BurstsBounded` adds `ObsInv`, an account of the observed
interval: of a fixed window, which part of the sum fell into the present one and that
at most one boundary was crossed; of a bucket, that grants plus level never exceed one
capacity plus the refill of the time that passed (multiplied by the duration, so that
the divisions of the fixed point only lose).

**Causality** (`LoxCausalityProofs`).  `GraphTypeCorrect`, and `GraphStaysAcyclic` from
`GraphInv`.  Its parts: a walk that is `exact` is alone (`ExactInv`); a search that was
not disturbed has seen the child of the new edge and not its parent, and every edge
that leaves a visited operation leads to one that is visited or on the stack, but for
those of the operation being expanded it has not come to (`SearchInv`).  When the stack
is empty the visited set is closed under edges, so the parent cannot be reached from
the child, and the edge closes no cycle (`AcyclicAppend`).  Acyclic is said of sets and
not of paths, so that no induction is needed: every non-empty set of operations has one
that triggers none of it.  If the set meets the closed one, an operation of their
common part does; if it does not, the new edge is not within it.

`CascadeStaysCounted` and `CascadeStaysDecided` use `WalkInv`, which adds `CountInv` to
`GraphInv`: every cascade that is still `exact` is `Traced` and `Charged`.  Let an
operation be met when its bit is set or it waits on the stack, and an edge be looked at
when it is live, leaves an operation with its bit set and is not ahead in the present
scan.  `Traced`: the origin is met; what is met is downstream of it; a live path as long
as the depth the walk notes leads to each operation on the stack and to the one being
expanded; and, if no live path is longer than `MaxDepth` (else the walk passes over
operations), what an edge looked at leads to is met.  `Charged`: for each resource the
accumulated need is at most the sum over the edges looked at, and at least the sum over
the operations met, each by its lightest edge.  When the stack is empty, the operations
met are closed under live edges and, by the last part of `Traced`, are `Downstream`, the
smallest closed set.  Sums are again cardinalities of sets of units, and saturating at
each addition gives what saturating the sum once gives.  Neither theorem asks that the
graph be acyclic or `tainted` be false.  `NoLongPath` is a hypothesis of the lower bound
only, as in the property: with a longer path the code cuts the cascade short by design.

**Calibration** (`LoxCalibrationProofs`, any fixed point, widths and samples).
`SessionInv` says for each estimator that it has seen every sample of its session, that
its markers are apart from position 1 to the number of samples (`Placed`), and what its
heights span (`Spans`): while the buffer fills, both extremes are in it; then the
heights are in order from one to the other.  `Sorted` proves the nine comparisons of
the sorting network; `HeightBetween` that the parabola is used only strictly between
the neighbours and that the line never passes the one it aims at, so that the
conversion to `uint32_t` loses nothing; `AdjustedKeeps` that a marker moves only into
room that is there.  They give `CalibrationTypeCorrect`, `MarkersStayDistinct` (no
division by zero, whatever the desired positions have overflowed to),
`HeightsStayOrdered` and `SuggestionsAdmit`.

**Adapters** (`LoxAdaptersProofs`).  `DecisionsAlwaysReachSink` from `HooksInv`: while no
second attach took an adapter's one context, an instance's hook and that context are
those of its last attach.  `PressureAlwaysSettled` from `HealthInv` and `BusInv`, which
say of the calls under way that the one no other began after carries the value that will
be in force.  Unlike the run, which has two contexts, the theorems hold for any set of
them with a `Main` and a `Monitor`, and without the constraint `OneHalf`.

Every invariant, action property and refinement that a passing run checks is also a
theorem.  Only model-checked are the liveness properties `RateRecovers`, `CallsReturn` and
`WalksEnd`, which are outside the prover's reach (they need the fairness of the actions,
hence `ENABLED`).  The violated properties are refuted by TLC.

## Not modelled, and the plan

Left out for good: diagnostic strings, examples, tools, benchmarks (no state of the
library); calls that only read (`snapshot`, `get_burn_rate`, `calibration_export`,
`causality_edge_count`); the text of microlog's lines; `microconf_load`, which is a
sequence of configuration calls that stops at the first error, each prefix of which
`LoxBudget` makes.  Argument validation is only a guard.

A token bucket that is asked more often than a token's worth of time loses the
remainder of each refill and may stay empty, so recovery is stated for fixed windows
only.  In the order of the edge table a cascade may count an operation by one of
several edges: the property bounds the result from both sides.  Once a cycle was let
in, a search that other contexts keep disturbing can go on for ever.

What is left: `NoWrap` as a condition on need lists and slots instead of contexts, and
the configuration load of `adapters/microconf` as a sequence of `LoxBudget`'s calls.
