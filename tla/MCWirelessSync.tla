---------------------------- MODULE MCWirelessSync ----------------------------
(***************************************************************************)
(* WirelessSync for TLC: two devices reported of a WLC and three APs, over *)
(* a NetBox that knows nothing, something or everything about them.        *)
(***************************************************************************)
EXTENDS WirelessSync

Wlc == [name |-> "W", serial |-> "sW", kind |-> "wlc", ip |-> "ip2", uplinks |-> {},
        ssids |-> {}, fits |-> TRUE, template |-> {}, lacks |-> {},
        skips |-> {}]
ApA == [name |-> "A", serial |-> "sA", kind |-> "ap", ip |-> "ip1", uplinks |-> {"e0", "e1"},
        ssids |-> {"corp"}, fits |-> TRUE, template |-> Ports, lacks |-> {},
        skips |-> {}]
ApB == [name |-> "B", serial |-> "", kind |-> "ap", ip |-> "ip1", uplinks |-> {"e0"},
        ssids |-> {"corp"}, fits |-> TRUE, template |-> {}, lacks |-> {},
        skips |-> {}]

(* The last reports have a port the AP's type lacks, an AP whose type has  *)
(* no interfaces, one of no type, one of an unknown version, one whose     *)
(* type has no radios, one with a channel or a radio that is passed over.  *)
(* No two devices of a report match one NetBox device.                     *)
MCReports ==
  {<<Wlc, ApA>>,
   <<[Wlc EXCEPT !.template = Ports], [ApA EXCEPT !.uplinks = {"e0"}]>>,
   <<ApA, ApB>>,
   <<[ApA EXCEPT !.template = {"e0"}], [ApB EXCEPT !.ip = NoIp, !.uplinks = Ports, !.ssids = {}]>>,
   <<[ApB EXCEPT !.fits = FALSE], ApA>>,
   <<[ApA EXCEPT !.lacks = {"platform"}]>>, <<[ApA EXCEPT !.lacks = {"radio"}]>>,
   <<[ApA EXCEPT !.skips = {"channel"}]>>, <<[ApA EXCEPT !.skips = {"radio"}, !.lacks = {"radio"}]>>}

Linked2(lag, bridge) == [lag |-> lag, bridge |-> bridge]

Unlinked == [p \in Ports |-> Bare]

(* How far the interfaces of A may be.                                     *)
IfsOfA ==
  LET two(e0, e1) == [p \in Ports |-> IF p = "e0" THEN e0 ELSE e1]
      and(ifs, name, link) ==
        [n \in DOMAIN ifs \cup {name} |-> IF n = name THEN link ELSE ifs[n]]
      direct == Linked2(NoName, "br0")
      member == Linked2("bond0", NoName) IN
  {two(Bare, Bare),
   and(two(direct, Bare), "br0", Bare),
   and(and(two(direct, Bare), "br0", Bare), "bond0", Bare),
   and(and(two(member, direct), "br0", Bare), "bond0", Linked2(NoName, "br0"))}

(* X is no wireless device; A is known by its serial or by its name.       *)
X == [name |-> "X", serial |-> "sX", wrong |-> {}, primary |-> NoIp, ifs |-> [n \in {"e0"} |-> Bare]]
KnownA(name, serial, wrong, ifs) ==
  [name |-> name, serial |-> serial, wrong |-> wrong, primary |-> NoIp, ifs |-> ifs]

Addressed(place) == [ip \in {"ip1", "ip2"} |-> IF ip = "ip1" THEN place ELSE Absent]

(* A NetBox with one wireless LAN and the tag; the others are as they can  *)
(* be when A is known in one way.                                          *)
Box(ds, place, count, tag) ==
  [devices |-> ds, addresses |-> Addressed(place), lans |-> [ssid \in {"corp"} |-> count],
   tagged |-> tag]

MCNetBoxes ==
  LET known == {KnownA("A", "", Fields, ifs) : ifs \in IfsOfA}
               \cup {KnownA("old A", "sA", {"radio", "lan"}, ifs) : ifs \in IfsOfA}
      unknown == {Absent, Unassigned, Unfit, <<1, "e0">>} IN
  {Box(<<X>>, p, 1, TRUE) : p \in unknown}
    \cup {Box(<<X>>, Absent, count, FALSE) : count \in {0, 2}}
    \cup {Box(<<X, KnownA("A", "", Fields, Unlinked)>>, Absent, count, FALSE) : count \in {0, 2}}
    \cup {Box(<<X, a>>, p, 1, TRUE) : a \in known, p \in {Absent, <<1, "e0">>, <<2, "e0">>}}
    \cup {Box(<<[X EXCEPT !.primary = "ip1"], a>>, <<1, "e0">>, 1, TRUE) : a \in known}
    \cup {Box(<<X, [a EXCEPT !.primary = "ip1"]>>, <<2, "e0">>, 1, TRUE) : a \in known}

(* What WirelessSyncProofs takes for granted of reports and NetBoxes.      *)
ASSUME OnePerDeviceAssumption == OnePerDevice

(* A plan and an apply, or three applies; the cables differ between a plan  *)
(* and its apply, are an issue, or are changed at first.                   *)
Run(do, cables_) == [apply |-> do, cables |-> cables_]
MCModes ==
  {<<Run(FALSE, c), Run(TRUE, c)>> : c \in Cables}
    \cup {<<Run(FALSE, "issue"), Run(TRUE, "changed")>>,
          <<Run(TRUE, "changed"), Run(TRUE, "issue"), Run(TRUE, "in sync")>>}

=============================================================================
