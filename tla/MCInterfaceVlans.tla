-------------------------- MODULE MCInterfaceVlans --------------------------
(***************************************************************************)
(* Three VLAN numbers; number 2 is on two VLANs of which the site's one is *)
(* nearer, number 3 on two that only the voice address tells apart.        *)
(***************************************************************************)
EXTENDS InterfaceVlans

V(id, vid, rank, svi) == [id |-> id, vid |-> vid, rank |-> rank, svi |-> svi]
MCVlans == { V(1, 1, 0, FALSE), V(2, 2, 60, FALSE), V(3, 2, 0, FALSE),
             V(4, 3, 60, TRUE), V(5, 3, 60, FALSE) }
Without(ids) == {v \in MCVlans : v.id \notin ids}
MCHeld == { MCVlans, Without({2, 5}), Without({4, 5}) }

P(mode, access, voice, native, allowed, tagNative, agg, listed, up) ==
    [ mode |-> mode, access |-> access, voice |-> voice, native |-> native,
      allowed |-> allowed, tagNative |-> tagNative, agg |-> agg,
      listed |-> listed, up |-> up, status |-> "connected", text |-> "ab",
      short |-> "a", described |-> up ]

All == << {<<1, 3>>} >>
Policies == {"tagged", "access"} \X {"clear", "untagged"}
AccessPorts == { P("access", a, v, 1, All, FALSE, g, TRUE, TRUE) :
                   a \in {1, 2}, v \in {0, 3}, g \in BOOLEAN }
               \cup { P("access", 2, 0, 1, All, FALSE, FALSE, FALSE, TRUE),
                      P("access", 2, 3, 1, All, FALSE, FALSE, FALSE, TRUE),
                      P("access", 2, 2, 1, All, FALSE, FALSE, TRUE, TRUE) }
Trunk(n, l, t, g, s, u) == P("trunk", 1, 0, n, l, t, g, s, u)
Trunks ==
    { Trunk(n, l, t, g, TRUE, u) :
        n \in {1, 2}, l \in {All, << {<<2, 3>>} >>}, t \in BOOLEAN,
        g \in {FALSE}, u \in BOOLEAN }
    \cup { Trunk(2, << {<<1, 1>>}, {<<3, 3>>} >>, FALSE, TRUE, TRUE, u) :
             u \in BOOLEAN }
    \cup { Trunk(1, << {<<3, 2>>} >>, FALSE, FALSE, FALSE, TRUE),
           Trunk(1, << {<<1, 2>>} >>, TRUE, FALSE, FALSE, TRUE),
           Trunk(2, << {<<2, 3>>} >>, FALSE, FALSE, FALSE, FALSE),
           Trunk(1, << {} >>, FALSE, TRUE, FALSE, FALSE) }
Routed == [P("routed", 1, 0, 1, All, FALSE, TRUE, TRUE, TRUE)
             EXCEPT !.text = "", !.short = "", !.status = "disabled"]
MCInputs == (AccessPorts \X Policies)
            \cup ((Trunks \cup {Routed}) \X {<<"tagged", "clear">>})

R(mode, untagged, tagged, enabled, text) ==
    [ mode |-> mode, untagged |-> untagged, tagged |-> tagged,
      enabled |-> enabled, text |-> text ]
MCRecords ==
    { R("access", 0, {}, "no", ""), R("access", 3, {}, "yes", "ab"),
      R("tagged", 0, {4}, "yes", "b"), R("tagged", 2, {3, 5}, "no", "ab"),
      R("tagged", 1, {2, 3, 4, 5}, "yes", "ab"), R("tagged-all", 1, {}, "no", "b"),
      R("tagged", 4, {2, 3, 5}, "yes", "ab") }
=============================================================================
