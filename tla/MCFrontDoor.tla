---------------------------- MODULE MCFrontDoor ----------------------------
(***************************************************************************)
(* Addresses of three bits, of which networks shorter than /2 are broad.   *)
(* Firewalls hold one or two objects from every relation to the query, in  *)
(* groups that nest and loop; the roles are two branches of two levels.    *)
(***************************************************************************)
EXTENDS FrontDoor, TLC

MCNoRole == "no role"
MCMinMatch == 4 :> 2 @@ 6 :> 2
MCEnvironments ==
    "test" :> [ tag |-> "t", protected |-> FALSE, branch |-> "wired",
                vars |-> {"login", "netbox token", "firewall token"} ]
    @@ "prod" :> [ tag |-> "p", protected |-> TRUE, branch |-> "wired",
                   vars |-> {"login", "netbox token", "firewall token"} ]
    @@ "bare" :> [ tag |-> "t", protected |-> FALSE, branch |-> "lost",
                   vars |-> {"login", "netbox token"} ]
MCTree == "wired" :> MCNoRole @@ "core" :> "wired" @@ "edge" :> "core"
          @@ "wireless" :> MCNoRole @@ "ap" :> "wireless"
Dev(id, tag, role, chassis) ==
    [id |-> id, tag |-> tag, role |-> role, chassis |-> chassis]
\* 5 and 6 are one switch, of which 6 has neither the tag nor the role.
MCDevices == { Dev(1, "t", "edge", NoChassis), Dev(2, "p", "core", NoChassis),
               Dev(3, "p", "wireless", "b"), Dev(4, "t", "ap", "b"),
               Dev(5, "p", "edge", "a"), Dev(6, "t", "ap", "a") }
MCTags == {NoTag, "p"}
MCRoles == {NoRole, "core", "ap"}

Net(n, fam, lo, len) ==
    [name |-> n, kind |-> "net", fam |-> fam, lo |-> lo, len |-> len,
     hi |-> 0, ours |-> FALSE]
Rng(n, lo, hi) ==
    [name |-> n, kind |-> "range", fam |-> 4, lo |-> lo, len |-> 0,
     hi |-> hi, ours |-> FALSE]
Fqdn == [Net("d", 4, 0, 0) EXCEPT !.kind = "fqdn"]

As == { Net("a", 4, 3, len) : len \in 0 .. 3 } \cup { Net("a", 4, 5, 2) }
      \cup { Rng("a", r[1], r[2]) : r \in {<<0, 7>>, <<0, 2>>, <<1, 3>>, <<3, 3>>,
                                          <<3, 6>>, <<4, 5>>, <<1, 6>>} }
      \cup { Net("a", 6, 2, 2), Fqdn }
Bs == { Net("d", 4, 2, 2), Net("d", 4, 0, 1) }
Nested == "g" :> {"a"} @@ "h" :> {"g", "k"} @@ "k" :> {"h"}
Flat == "g" :> {"d"} @@ "h" :> {}
Ifaces == {[fam |-> 4, lo |-> 2, len |-> 2], [fam |-> 4, lo |-> 0, len |-> 2]}

Fw(objects, groups, policy, security) ==
    [objects |-> objects, groups |-> groups, policy |-> policy,
     security |-> security, ifaces |-> Ifaces]
MCFirewalls ==
    { Fw({a}, Nested, {"k"}, {}) : a \in As }
    \cup { Fw({Rng("a", 1, 3), b}, Flat, {}, {"g"}) : b \in Bs }
Q(lo, len) == [fam |-> 4, lo |-> lo, len |-> len]
MCInputs ==
    (MCFirewalls \X {Q(2, 2)})
    \cup ({f \in MCFirewalls : \E o \in f.objects : o.kind = "range"} \X {Q(3, 3)})
    \cup ({f \in MCFirewalls : \E o \in f.objects : o.kind = "net" /\ o.len = 1}
            \X {Q(0, 1)})

\* A range of just the addresses of a broad query.
MCInputsSame ==
    MCInputs \cup {<<Fw({Rng("a", 0, 3)}, Nested, {"k"}, {}), Q(0, 1)>>}
MCOthers == {Net("d", 4, 2, 3)}
=============================================================================
