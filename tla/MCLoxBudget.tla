----------------------------- MODULE MCLoxBudget -----------------------------
(* Small instances of LoxBudget for TLC. *)
EXTENDS LoxBudget, TLC

(* The action taken at NORMAL .. LOCKDOWN, as the columns of a profile. *)
Map(n, e, c, s, l) ==
    (NORMAL :> n) @@ (ELEVATED :> e) @@ (CRITICAL :> c) @@ (SURVIVAL :> s)
    @@ (LOCKDOWN :> l)

(* An ordinary operation, and one that must run in LOCKDOWN. *)
Worker == [action |-> Map("ALLOW_FULL", "ALLOW_FULL", "ALLOW_DEGRADED",
                          "WAIT", "ALLOW_FULL"),
           flags  |-> {"NETWORK_UP"}]
Dump   == [action |-> Map("ALLOW_FULL", "ALLOW_FULL", "REJECT", "ALLOW_FULL",
                          "ALLOW_DEGRADED"),
           flags  |-> {"BOOT_PROVEN", "LOCKDOWN_PASS"}]

MCProfileCalls  == {<<0, Worker>>, <<1, Dump>>}
MCNeedCalls     == {<<0, 0, 1>>, <<0, 1, 1>>, <<1, 0, 2>>}
AlteredNeedCalls == MCNeedCalls \cup {<<0, 0, 2>>}
MCResourceCalls == {<<0, 3, "REUSABLE">>, <<1, 2, "CONSUMABLE">>,
                    <<1, 0, "STATE">>}
AlteredResourceCalls == {<<0, 3, "REUSABLE">>, <<0, 2, "CONSUMABLE">>,
                         <<1, 2, "CONSUMABLE">>}
AllUp           == [x \in Preconds |-> TRUE]
NetDown         == [AllUp EXCEPT !["NETWORK_UP"] = FALSE]
OneHalState     == {AllUp}
TwoHalStates    == {AllUp, NetDown}
OneHalConfig    == {[strict |-> TRUE, callbacks |-> Preconds]}
HalChoices      == OneHalConfig \cup
                   {[strict |-> TRUE, callbacks |-> {"NETWORK_UP"}], NoHal}
CallerSymmetry  == Permutations(Callers)

=============================================================================
