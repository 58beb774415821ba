----------------------------- MODULE MCLoxPreempt -----------------------------
(* Small instances of LoxPreempt for TLC. *)
EXTENDS LoxPreempt, TLC

CONSTANTS main, isr

Map(n, e, c, s, l) ==
    (NORMAL :> n) @@ (ELEVATED :> e) @@ (CRITICAL :> c) @@ (SURVIVAL :> s)
    @@ (LOCKDOWN :> l)

(* Two operations that share resource 0; the second also consumes          *)
(* resource 1 and asks for a HAL precondition.                             *)
MCProfiles ==
    (0 :> [action |-> Map("ALLOW_FULL", "ALLOW_FULL", "ALLOW_DEGRADED",
                          "REJECT", "REJECT"), flags |-> {}])
 @@ (1 :> [action |-> Map("ALLOW_DEGRADED", "ALLOW_FULL", "ALLOW_FULL",
                          "ALLOW_FULL", "ALLOW_FULL"),
           flags |-> {"LOCKDOWN_PASS", "BOOT_PROVEN"}])

N(r, a) == [resource |-> r, amount |-> a]
MCNeedLists == (0 :> <<N(0, 2), NoNeed>>) @@ (1 :> <<N(1, 1), N(0, 1)>>)

R(k, l) == [cfg |-> TRUE, kind |-> k, limit |-> l, used |-> 0, reserved |-> 0,
            high_watermark |-> 0]
MCResourceTable == (0 :> R("REUSABLE", 2)) @@ (1 :> R("CONSUMABLE", 1))

(* The theorem about ReservedIsHeld asks for it. *)
ASSUME SmallNoWrap == NoWrap

BothEnter == [t \in Contexts |-> IF t = main THEN {"enter", "pressure"}
                                              ELSE {"enter"}]
LiveCalls == [t \in Contexts |-> IF t = main
                                THEN {"enter", "pressure", "replay"}
                                ELSE {"enter", "check"}]

=============================================================================
