----------------------------- MODULE MCPortMapping -----------------------------
(* PortMapping for TLC: ports a, b and c, and a sub-interface of each.     *)
EXTENDS PortMapping

N(b, u) == <<b, u>>
MCOrder == <<N("a", 0), N("a", 1), N("b", 0), N("b", 1), N("c", 0), N("c", 1)>>

Port(b, rank, role) == [name |-> N(b, 0), rank |-> rank, role |-> role]
Spots == {<<1, "access">>, <<2, "access">>, <<1, "mgmt">>}
At(b, spot) == Port(b, spot[1], spot[2])

(* A device with two ports, one with one, and ones that cannot be paired.  *)
Unpaired == {<<>>, <<Port("a", 1, "access"), Port("a", 1, "mgmt")>>}
MCSources ==
    {<<At("a", <<1, "access">>), At("b", s)>> : s \in Spots} \cup
    {<<At("a", <<1, "mgmt">>), At("b", <<1, "access">>)>>, <<At("b", <<1, "access">>)>>} \cup
    Unpaired
MCTargets ==
    {<<At(x, <<1, "access">>)>> : x \in {"a", "b", "c"}} \cup
    {<<At(p[1], s), At(p[2], t)>> :
        p \in {<<"a", "b">>, <<"b", "a">>, <<"c", "a">>},
        s, t \in {<<1, "access">>, <<2, "access">>}} \cup
    {<<>>}

(* The config has a; b, c and units as may be; c may be a logical name.    *)
MCConfigs ==
    {[names |-> {N("a", 0)} \cup s, logical |-> s \cap l] :
        s \in SUBSET {N("a", 1), N("b", 0), N("b", 1), N("c", 0)},
        l \in {{}, {N("c", 0)}}}
MCPortLike == {N("b", 0)}
==============================================================================
