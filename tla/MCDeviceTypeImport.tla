------------------------- MODULE MCDeviceTypeImport -------------------------
(***************************************************************************)
(* Folders of up to three files that share manufacturers, names of ports   *)
(* and a slug, one of them not to be read or decoded or without a slug for *)
(* its manufacturer, over a NetBox that has none, some or all of their     *)
(* objects.                                                                *)
(***************************************************************************)
EXTENDS DeviceTypeImport

I(cat, name, ref) == [cat |-> cat, name |-> name, ref |-> ref]
F(slug, manufacturer, items) ==
    [ text |-> TRUE, yaml |-> TRUE, slug |-> slug, manufacturer |-> manufacturer,
      items |-> items ]

Outlets == << I("power-outlets", "o", "p"), I("power-ports", "p", "") >>
Panel   == << I("front-ports", "f", "r"), I("rear-ports", "r", ""),
              I("interfaces", "p", "") >>
Strip   == << I("power-outlets", "o", "p"), I("power-outlets", "q", "x") >>

A == F("a", "m", Outlets)
B == F("b", "m", Outlets)
C == F("c", "n", Panel)
D == F("b", "m", Strip)
Bad == F("a", "m", << I("interfaces", "", "") >>)
NoYaml == [F("", "", << >>) EXCEPT !.yaml = FALSE]
NoText == [B EXCEPT !.text = FALSE]
Twice == F("a", "m", << I("interfaces", "e", ""), I("interfaces", "e", "") >>)
MCFolders == { <<A, B>>, <<A, D, C>>, <<C, Bad, A>>, <<A, F("a", "n", Panel), C>>,
               <<NoYaml>>, <<F("c", "m", << >>), B>>, <<D, B>>, <<A, NoText, B>>,
               <<F("b", NoSlug, Outlets), B, A>>, <<Twice, B>> }

T(slug, cat, name, ref) ==
    [id |-> <<slug, cat, name>>,
     ref |-> IF ref = "" THEN NoRef ELSE <<slug, RefCategory(cat), ref>>]
N(manufacturers, types, templates) ==
    [manufacturers |-> manufacturers, types |-> types, templates |-> templates]
MCContents ==
    { N({}, {}, {}), N({"m"}, {"a", "b"}, {T("a", "power-ports", "p", "")}),
      N({"m", "n"}, {"b", "c"}, {T("b", "power-ports", "x", ""),
                                 T("b", "power-outlets", "q", "x"),
                                 T("c", "rear-ports", "r", "")}) }
=============================================================================
