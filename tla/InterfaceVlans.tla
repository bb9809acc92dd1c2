--------------------------- MODULE InterfaceVlans ---------------------------
(***************************************************************************)
(* The sync step of `wired interfaces` on one switch port, from what the   *)
(* switch prints to what NetBox holds (sync/engine.py): the VLAN state put *)
(* together from four show commands, the resolution of VLAN numbers to     *)
(* NetBox VLANs, of which several may carry one number, and the update     *)
(* with its read back, while somebody else edits NetBox.                   *)
(*                                                                         *)
(* A VLAN of NetBox is a record [id, vid, rank, svi]: rank is that of its  *)
(* scope for the port's device (-1 when the scope is not the device's) and *)
(* svi says whether a prefix linked to it holds the address of the         *)
(* switch's VLAN interface.  A VLAN expression is a set of ranges.         *)
(***************************************************************************)
EXTENDS Integers, FiniteSets, Sequences, SequencesExt

CONSTANTS
    TopVid,         \* the highest VLAN number (4094)
    Inputs,         \* pairs: a configuration of the port on the switch, and
                    \* the options --voice-vlan-model, --access-vlan-placement
    Vlans,          \* the VLANs NetBox may hold
    Held,           \* the sets of VLANs NetBox may hold at first
    Records,        \* what NetBox may hold of the port at first
    MaxMishaps,     \* bound: requests that fail, edits by somebody else
    MaxRuns         \* bound: runs one after the other

ASSUME TopVidAssumption == TopVid \in Nat \ {0}
ASSUME VlansAssumption ==
    /\ IsFiniteSet(Vlans) /\ \A held \in Held : held \subseteq Vlans
    /\ \A v, w \in Vlans : /\ v.vid \in 1 .. TopVid
                           /\ v.id \in Nat \ {0}
                           /\ v.id = w.id => v = w
ASSUME RecordsAssumption ==
    \A r \in Records : DOMAIN r = {"mode", "untagged", "tagged", "enabled", "text"}
ASSUME BoundsAssumption == MaxMishaps \in Nat /\ MaxRuns \in Nat

None == 0           \* no VLAN: VLAN numbers and NetBox ids start at 1

-----------------------------------------------------------------------------
(* What the switch prints of a port p.                                     *)

\* A trunk that is down is listed under its access VLAN.
VlanBrief(p) ==
    CASE p.mode = "access" -> {p.access, p.voice} \ {None}
      [] p.mode = "trunk" /\ ~p.up -> {p.access}
      [] OTHER -> {}

\* show running-config interface port-channel N
RunningConfig(p) ==
    CASE ~p.agg -> << >>
      [] p.agg /\ p.mode = "routed" -> << <<"no switchport">> >>
      [] p.agg /\ p.mode = "access" -> << <<"access", p.access>>, <<"mode", "access">> >>
      [] OTHER -> << <<"native", p.native>>, <<"allowed", Head(p.allowed)>> >>
                  \o [i \in 1 .. Len(p.allowed) - 1 |->
                         <<"allowed add", p.allowed[i + 1]>>]
                  \o << <<"mode", "trunk">> >>

\* An open end, as in "10-", is no range; a reversed range is turned round.
ExpandVlanList(ranges) ==
    UNION { IF r[1] <= r[2] THEN r[1] .. r[2] ELSE r[2] .. r[1] : r \in ranges }

\* A trunk that carries every VLAN is printed as the whole range, in one row.
\* The table of the switchports can leave a port out, whatever its mode.
IsPort(p) ==
    /\ p.mode \in {"routed", "access", "trunk"}
    /\ p.access \in 1 .. TopVid /\ p.native \in 1 .. TopVid
    /\ p.voice \in 0 .. TopVid
    /\ p.allowed \in Seq(SUBSET ((1 .. TopVid) \X (1 .. TopVid)))
    /\ p.allowed # << >>
    /\ {p.up, p.agg, p.listed, p.tagNative} \subseteq BOOLEAN
    /\ p.mode = "trunk" =>
         (UNION { ExpandVlanList(p.allowed[i]) : i \in DOMAIN p.allowed } = 1 .. TopVid
          => p.allowed = << {<<1, TopVid>>} >>)

ASSUME InputsAssumption ==
    \A input \in Inputs :
        IsPort(input[1])
        /\ input[2] \in {"tagged", "access"} \X {"clear", "untagged"}

-----------------------------------------------------------------------------
(* Parsing: from the output to the state of one port.                      *)

AllowsAll(ranges) == ranges = {<<1, TopVid>>}

\* The rows come by VLAN number and a port listed twice keeps the last one.
ParseVlanBrief(p) ==
    IF VlanBrief(p) = {} THEN None
    ELSE CHOOSE v \in VlanBrief(p) : \A w \in VlanBrief(p) : w <= v

\* Mutant of ParseTrunks: a wrapped list keeps its last row only.
ParseTrunksLastRow(p) ==
    [ trunk |-> p.mode = "trunk" /\ p.up, native |-> p.native,
      all   |-> AllowsAll(Last(p.allowed)),
      vlans |-> ExpandVlanList(Last(p.allowed)) ]

\* A wrapped list comes in several expressions, which add up.
ParseTrunks(p) ==
    [ trunk  |-> p.mode = "trunk" /\ p.up,
      native |-> p.native,
      all    |-> \E i \in DOMAIN p.allowed : AllowsAll(p.allowed[i]),
      vlans  |-> UNION { ExpandVlanList(p.allowed[i]) : i \in DOMAIN p.allowed } ]

NoSwitchport ==
    [ admin |-> "", access |-> None, voice |-> None, native |-> None,
      seen |-> FALSE, all |-> FALSE, vlans |-> {}, nativeTagged |-> FALSE ]

\* The line "Trunking VLANs Enabled" is never wrapped, and an access port
\* has one too.  A Port-Channel that the global output leaves out is asked
\* for by itself.
ParseSwitchports(p) ==
    IF p.mode = "routed" \/ ~(p.listed \/ p.agg) THEN NoSwitchport
    ELSE LET enabled == UNION Range(p.allowed) IN
         [ admin |-> p.mode, access |-> p.access, voice |-> p.voice,
           native |-> p.native, seen |-> TRUE, all |-> AllowsAll(enabled),
           vlans |-> ExpandVlanList(enabled), nativeTagged |-> p.tagNative ]

ConfigLine(state, line) ==
    CASE line[1] = "no switchport" -> [NoSwitchport EXCEPT !.admin = "routed"]
      [] line[1] = "mode" -> [state EXCEPT !.admin = line[2]]
      [] line[1] = "access" -> [state EXCEPT !.access = line[2]]
      [] line[1] = "native" -> [state EXCEPT !.native = line[2]]
      [] line[1] = "allowed" -> [state EXCEPT !.seen = TRUE,
                                              !.all = AllowsAll(line[2]),
                                              !.vlans = ExpandVlanList(line[2])]
      [] line[1] = "allowed add" ->
            [state EXCEPT !.seen = TRUE, !.all = AllowsAll(line[2]),
                          !.vlans = @ \cup ExpandVlanList(line[2])]

ParsePortChannelRunningConfig(p) ==
    LET lines == RunningConfig(p)
        state[n \in 0 .. Len(lines)] ==
            IF n = 0 THEN NoSwitchport ELSE ConfigLine(state[n - 1], lines[n])
        parsed == state[Len(lines)]
    IN  IF parsed.admin = "access" /\ parsed.access = None
        THEN [parsed EXCEPT !.access = 1] ELSE parsed

-----------------------------------------------------------------------------
(* build_collected_state: one VLAN state of the port, or none.             *)

NoState == [mode |-> "none", untagged |-> None, tagged |-> {}, voice |-> None]

\* The running configuration is authoritative for what it sets; the list of
\* VLANs of a trunk is only taken from it when no other output had one.
Switchport(p) ==
    LET live == ParseSwitchports(p)
        conf == ParsePortChannelRunningConfig(p)
        Set(f) == IF conf[f] # None THEN conf[f] ELSE live[f]
    IN  [ live EXCEPT
            !.admin  = IF conf.admin # "" THEN conf.admin ELSE @,
            !.access = Set("access"), !.voice = Set("voice"),
            !.native = Set("native"),
            !.seen   = @ \/ conf.seen,
            !.all    = IF ~live.seen /\ conf.seen THEN conf.all ELSE @,
            !.vlans  = IF ~live.seen /\ conf.seen THEN conf.vlans ELSE @ ]

FromVlanBrief(p, policy) ==
    IF ParseVlanBrief(p) = None THEN NoState
    ELSE [NoState EXCEPT !.mode = "access",
            !.untagged = IF policy[2] = "untagged" THEN ParseVlanBrief(p) ELSE None]

TrunkState(p, policy) ==
    LET live   == ParseTrunks(p)
        port   == Switchport(p)
        all    == IF live.trunk THEN live.all ELSE port.all
        vlans  == IF live.trunk THEN live.vlans ELSE port.vlans
        native == IF live.trunk THEN live.native ELSE port.native
        tagged == IF all THEN {} ELSE vlans
    IN  IF ~live.trunk /\ ~port.seen THEN FromVlanBrief(p, policy)
        ELSE [ mode |-> IF all THEN "tagged-all" ELSE "tagged",
               untagged |-> IF port.nativeTagged THEN None ELSE native,
               tagged |-> IF port.nativeTagged THEN tagged ELSE tagged \ {native},
               voice |-> None ]

AccessState(p, policy) ==
    LET port     == Switchport(p)
        phone    == policy[1] = "tagged" /\ port.voice # None
        untagged == IF \/ policy[2] = "untagged"
                       \/ p.agg /\ port.voice = None
                    THEN port.access ELSE None
        tagged   == (IF phone THEN {port.voice} ELSE {})
                    \cup (IF phone /\ policy[2] = "clear" THEN {port.access} ELSE {})
    IN  IF port.access = None /\ port.voice = None
        THEN FromVlanBrief(p, policy)
        ELSE [ mode |-> IF tagged \ {untagged, None} = {} THEN "access" ELSE "tagged",
               untagged |-> untagged,
               tagged |-> tagged \ {untagged, None},
               voice |-> port.voice ]

BuildCollectedState(p, policy) ==
    IF ParseTrunks(p).trunk \/ Switchport(p).admin = "trunk"
    THEN TrunkState(p, policy) ELSE AccessState(p, policy)

\* What the port carries, said from its configuration: the reference for
\* BuildCollectedState.
Carried(p, policy) ==
    LET vlans == UNION { ExpandVlanList(p.allowed[i]) : i \in DOMAIN p.allowed }
        phone == p.voice # None /\ policy[1] = "tagged"
        data  == IF policy[2] = "untagged" \/ (p.agg /\ p.voice = None)
                 THEN p.access ELSE None
    IN  CASE p.mode = "routed" -> NoState
          [] p.mode = "trunk" ->
                [ mode |-> IF vlans = 1 .. TopVid THEN "tagged-all" ELSE "tagged",
                  untagged |-> IF p.tagNative THEN None ELSE p.native,
                  tagged |-> IF vlans = 1 .. TopVid THEN {}
                             ELSE vlans \ (IF p.tagNative THEN {} ELSE {p.native}),
                  voice |-> None ]
          [] p.mode = "access" ->
                LET tagged == IF phone THEN {p.voice, p.access} \ {data} ELSE {} IN
                [ mode |-> IF tagged = {} THEN "access" ELSE "tagged",
                  untagged |-> data, tagged |-> tagged, voice |-> p.voice ]

\* Only a link that is connected or not says whether the port is enabled.
ReportedEnabled(p) ==
    CASE p.status = "connected" -> "yes"
      [] p.status = "notconnect" -> "no"
      [] OTHER -> "unknown"

\* The status table's name is cut off: it only stands in for a description
\* table that does not have the port.  No text means: not managed.
ReportedText(p) == IF p.described THEN p.text ELSE p.short

-----------------------------------------------------------------------------
(* Resolution of VLAN numbers, in the VLANs cache as read for the run.     *)

Candidates(cache, vid) == {v \in cache : v.vid = vid}

BestRanked(vs) ==
    LET inScope == {v \in vs : v.rank >= 0} IN
    {v \in inScope : \A w \in inScope : w.rank <= v.rank}

Sole(vs) == IF Cardinality(vs) = 1 THEN vs ELSE {}

BySviAddress(vs) == Sole({v \in vs : v.svi})

\* Mutant of ResolveVlan: a VLAN of the interface is kept whatever its number.
ResolveVlanAnyPreferred(cache, vid, preferred, voice) ==
    LET chosen == {v \in cache : v.id \in preferred} IN
    IF Cardinality(chosen) = 1 THEN chosen ELSE Sole(Candidates(cache, vid))

\* The VLAN as a singleton, or the empty set: missing, ambiguous or out of
\* scope.  An ambiguous voice VLAN is decided by its address alone; voice is
\* None where an untagged VLAN is looked for.
ResolveVlan(cache, vid, preferred, voice) ==
    LET cands  == Candidates(cache, vid)
        chosen == {v \in cands : v.id \in preferred}
    IN  IF Cardinality(cands) > 1 /\ vid = voice THEN BySviAddress(cands)
        ELSE IF Cardinality(chosen) = 1 THEN chosen
        ELSE IF Cardinality(cands) = 1 THEN cands
        ELSE Sole(BestRanked(cands))

VlanFields(r) == [mode |-> r.mode, untagged |-> r.untagged, tagged |-> r.tagged]
MetaFields(r) == [enabled |-> r.enabled, text |-> r.text]

\* Mutant of DesiredNetboxState: what cannot be resolved is taken off.
DesiredNetboxStateDrops(cache, state, current) ==
    LET Of(vid) == ResolveVlan(cache, vid, current.tagged, state.voice)
        Untagged == ResolveVlan(cache, state.untagged, {}, None)
    IN  [ fatal |-> state.untagged # None /\ Untagged = {},
          partial |-> \E vid \in state.tagged : Of(vid) = {},
          fields |-> [ mode |-> state.mode,
                       untagged |-> IF Untagged = {} THEN None
                                    ELSE (CHOOSE v \in Untagged : TRUE).id,
                       tagged |-> { v.id : v \in UNION { Of(vid) :
                                                  vid \in state.tagged } } ] ]

\* desired_netbox_state: the fields to hold, whether they can be told at
\* all, and whether some tagged VLAN was left out.
DesiredNetboxState(cache, state, current) ==
    LET preferred == (current.tagged \cup {current.untagged}) \ {None}
        Of(vid) == ResolveVlan(cache, vid, preferred, state.voice)
        Untagged == ResolveVlan(cache, state.untagged, preferred, None)
        Ids(vids) == { v.id : v \in UNION { Of(vid) : vid \in vids } }
        missing == {vid \in state.tagged : Of(vid) = {}}
    IN  [ fatal |-> \/ state.untagged # None /\ Untagged = {}
                    \/ state.voice \in missing,
          partial |-> missing # {},
          fields |-> [ mode |-> state.mode,
                       untagged |-> IF Untagged = {} THEN None
                                    ELSE (CHOOSE v \in Untagged : TRUE).id,
                       tagged |-> Ids(state.tagged) \cup
                                  (IF missing # {} THEN current.tagged ELSE {}) ] ]

DesiredMetadata(p, current) ==
    [ enabled |-> IF ReportedEnabled(p) = "unknown" THEN current.enabled
                  ELSE ReportedEnabled(p),
      text |-> IF ReportedText(p) = "" THEN current.text ELSE ReportedText(p) ]

-----------------------------------------------------------------------------
VARIABLES
    port,       \* the port's configuration on the switch
    policy,     \* the two options of the run
    vlans,      \* the VLANs in NetBox
    iface,      \* the interface in NetBox
    pc,         \* where the run is
    apply,      \* --apply
    cache,      \* VlanCache
    found,      \* the collected VLAN state
    loaded,     \* the interface as read with its device
    report,     \* SyncSummary: changes, errors and warnings
    last,       \* the report of the run before, and whether it applied
    edits,      \* the kinds of edits made since the run before ended; those of
                \* the interface by where the run was
    mishaps,    \* requests failed and edits made so far
    run         \* the number of the run

vars == <<port, policy, vlans, iface, pc, apply, cache, found, loaded, report,
          last, edits, mishaps, run>>
Fixed == UNCHANGED <<port, policy>>

NoReport == [vlan |-> {}, meta |-> {}, errors |-> {}, warned |-> FALSE]

Init ==
    /\ \E input \in Inputs : port = input[1] /\ policy = input[2]
    /\ vlans \in Held /\ iface \in Records
    /\ iface.tagged \cup {iface.untagged} \subseteq {v.id : v \in vlans} \cup {None}
    /\ pc = "idle" /\ apply = FALSE /\ cache = {} /\ found = NoState
    /\ loaded = iface /\ report = NoReport
    /\ last = [of |-> NoReport, applied |-> FALSE]
    /\ edits = {} /\ mishaps = 0 /\ run = 0

\* The VLANs are read before the switches are asked.
StartRun ==
    /\ pc = "idle" /\ run < MaxRuns
    /\ apply' \in (IF run = 0 THEN BOOLEAN ELSE {TRUE})
    /\ cache' = vlans
    /\ report' = NoReport
    /\ run' = run + 1
    /\ pc' = "collect"
    /\ UNCHANGED <<vlans, iface, found, loaded, last, edits, mishaps>> /\ Fixed

Collect ==
    /\ pc = "collect"
    /\ found' = BuildCollectedState(port, policy)
    /\ pc' = "scope"
    /\ UNCHANGED <<vlans, iface, apply, cache, loaded, report, last, edits,
                   mishaps, run>> /\ Fixed

\* Mutant of LoadScope: the interfaces are read in the first run only.
LoadScopeOnce ==
    /\ pc = "scope"
    /\ loaded' = IF run = 1 THEN iface ELSE loaded
    /\ pc' = "vlan"
    /\ UNCHANGED <<vlans, iface, apply, cache, found, report, last, edits,
                   mishaps, run>> /\ Fixed

\* The interfaces of a device are read at once, before the first is compared.
LoadScope ==
    /\ pc = "scope"
    /\ loaded' = iface
    /\ pc' = "vlan"
    /\ UNCHANGED <<vlans, iface, apply, cache, found, report, last, edits,
                   mishaps, run>> /\ Fixed

Want == DesiredNetboxState(cache, found, VlanFields(loaded))
WantMeta == DesiredMetadata(port, MetaFields(loaded))

\* Mutant of CompareVlans: an error of the VLANs ends the port.
CompareVlansStops ==
    /\ pc = "vlan"
    /\ LET blocked == found # NoState /\ Want.fatal
           done    == found = NoState \/ Want.fields = VlanFields(loaded)
       IN  /\ blocked \/ done \/ ~apply
           /\ report' = [report EXCEPT
                           !.errors = IF blocked THEN {"vlan"} ELSE @,
                           !.vlan = IF done \/ blocked THEN @ ELSE {Want.fields}]
           /\ pc' = IF blocked THEN "done" ELSE "meta"
    /\ UNCHANGED <<vlans, iface, apply, cache, found, loaded, last, edits,
                   mishaps, run>> /\ Fixed

\* What the run does with the VLANs short of a request.
CompareVlans ==
    /\ pc = "vlan"
    /\ LET blocked == found # NoState /\ Want.fatal
           done    == found = NoState \/ Want.fields = VlanFields(loaded)
       IN  /\ blocked \/ done \/ ~apply
           /\ report' = IF blocked THEN [report EXCEPT !.errors = @ \cup {"vlan"}]
                        ELSE [report EXCEPT
                                !.warned = found # NoState /\ Want.partial,
                                !.vlan = IF done THEN @ ELSE {Want.fields}]
    /\ pc' = "meta"
    /\ UNCHANGED <<vlans, iface, apply, cache, found, loaded, last, edits,
                   mishaps, run>> /\ Fixed

MustWrite(pass) ==
    /\ pc = pass /\ apply
    /\ IF pass = "vlan"
       THEN /\ found # NoState /\ ~Want.fatal
            /\ Want.fields # VlanFields(loaded)
       ELSE WantMeta # MetaFields(loaded)

Known == {v.id : v \in vlans} \cup {None}

With(pass) ==
    IF pass = "vlan"
    THEN [iface EXCEPT !.mode = Want.fields.mode, !.tagged = Want.fields.tagged,
                       !.untagged = Want.fields.untagged]
    ELSE LET meta == DesiredMetadata(port, MetaFields(iface))
         IN  [iface EXCEPT !.enabled = meta.enabled, !.text = meta.text]

Warned(pass) == report.warned \/ (pass = "vlan" /\ Want.partial)
After(pass) == IF pass = "vlan" THEN "meta" ELSE "done"

\* NetBox takes the update; it is still to be read back.
Update(pass) ==
    /\ MustWrite(pass)
    /\ With(pass).tagged \cup {With(pass).untagged} \subseteq Known
    /\ iface' = With(pass)
    /\ report' = [report EXCEPT !.warned = Warned(pass)]
    /\ pc' = IF pass = "vlan" THEN "vlan read" ELSE "meta read"
    /\ UNCHANGED <<vlans, apply, cache, found, loaded, last, edits, mishaps, run>>
    /\ Fixed

\* The update is refused, or its answer is lost: the pass goes on.
UpdateFails(pass) ==
    /\ MustWrite(pass)
    /\ \/ /\ ~(With(pass).tagged \cup {With(pass).untagged} \subseteq Known)
          /\ UNCHANGED <<iface, mishaps>>
       \/ /\ mishaps < MaxMishaps
          /\ mishaps' = mishaps + 1
          /\ \/ UNCHANGED iface
             \/ /\ With(pass).tagged \cup {With(pass).untagged} \subseteq Known
                /\ iface' = With(pass)
    /\ report' = [report EXCEPT !.warned = Warned(pass), !.errors = @ \cup {pass}]
    /\ pc' = After(pass)
    /\ UNCHANGED <<vlans, apply, cache, found, loaded, last, edits, run>> /\ Fixed

\* Verified only when the record read back is what was wanted.
ReadBack(pass) ==
    /\ pc = (IF pass = "vlan" THEN "vlan read" ELSE "meta read")
    /\ LET good == IF pass = "vlan" THEN VlanFields(iface) = Want.fields
                   ELSE DesiredMetadata(port, MetaFields(iface)) = MetaFields(iface)
       IN report' = CASE ~good -> [report EXCEPT !.errors = @ \cup {pass}]
                      [] good /\ pass = "vlan" ->
                            [report EXCEPT !.vlan = {Want.fields}]
                      [] OTHER -> [report EXCEPT !.meta = {WantMeta}]
    /\ pc' = After(pass)
    /\ UNCHANGED <<vlans, iface, apply, cache, found, loaded, last, edits,
                   mishaps, run>> /\ Fixed

\* Metadata is compared whatever became of the VLANs.
CompareMetadata ==
    /\ pc = "meta"
    /\ WantMeta = MetaFields(loaded) \/ ~apply
    /\ report' = [report EXCEPT !.meta = IF WantMeta = MetaFields(loaded)
                                         THEN @ ELSE {WantMeta}]
    /\ pc' = "done"
    /\ UNCHANGED <<vlans, iface, apply, cache, found, loaded, last, edits,
                   mishaps, run>> /\ Fixed

Return ==
    /\ pc = "done"
    /\ last' = [of |-> report, applied |-> apply]
    /\ edits' = {}
    /\ pc' = "idle"
    /\ UNCHANGED <<vlans, iface, apply, cache, found, loaded, report, mishaps, run>>
    /\ Fixed

-----------------------------------------------------------------------------
(* Somebody else at NetBox.                                                *)

\* Deleting a VLAN takes it from every interface.
CreateVlan == \E v \in Vlans \ vlans :
    /\ vlans' = vlans \cup {v} /\ edits' = edits \cup {"create"}
    /\ UNCHANGED iface

DeleteVlan == \E v \in vlans :
    /\ vlans' = vlans \ {v} /\ edits' = edits \cup {"delete"}
    /\ iface' = [iface EXCEPT !.tagged = @ \ {v.id},
                              !.untagged = IF @ = v.id THEN None ELSE @]

\* An edit the run has yet to read: with the device, or after its own update.
EditKind ==
    CASE pc \in {"idle", "collect", "scope"} -> "edit before"
      [] pc = "vlan read" -> "edit of vlans written"
      [] pc = "meta read" -> "edit of metadata written"
      [] OTHER -> "edit"

EditInterface == \E r \in Records :
    /\ r # iface /\ r.tagged \cup {r.untagged} \subseteq Known
    /\ iface' = r /\ edits' = edits \cup {EditKind}
    /\ UNCHANGED vlans

SomebodyEdits ==
    /\ run > 0 /\ mishaps < MaxMishaps
    /\ mishaps' = mishaps + 1
    /\ CreateVlan \/ DeleteVlan \/ EditInterface
    /\ UNCHANGED <<pc, apply, cache, found, loaded, report, last, run>>
    /\ Fixed

Next ==
    \/ StartRun \/ Collect \/ LoadScope
    \/ CompareVlans \/ CompareMetadata
    \/ \E pass \in {"vlan", "meta"} :
          Update(pass) \/ UpdateFails(pass) \/ ReadBack(pass)
    \/ Return \/ SomebodyEdits

Spec == Init /\ [][Next]_vars

-----------------------------------------------------------------------------
TypeOK ==
    /\ pc \in {"idle", "collect", "scope", "vlan", "vlan read", "meta",
               "meta read", "done"}
    /\ vlans \subseteq Vlans /\ cache \subseteq Vlans
    /\ iface.tagged \cup {iface.untagged} \subseteq Known
    /\ run \in 0 .. MaxRuns /\ mishaps \in 0 .. MaxMishaps

Vids(ids) == {v.vid : v \in {w \in Vlans : w.id \in ids}}
Assigned(r) == Vids(r.tagged \cup {r.untagged})

\* The output tells a port in full when it is in the table of the switchports
\* or has a configuration of its own.  Of a port that has neither, the table of
\* the trunks does not tell whether the native VLAN is tagged, nor that a trunk
\* is one while it is down, and the table of the VLANs not which is the phone's.
ToldInFull(p) ==
    \/ p.listed \/ p.agg \/ p.mode = "routed"
    \/ p.mode = "trunk" /\ p.up /\ ~p.tagNative
    \/ p.mode = "access" /\ p.voice = None

(* What the four show commands are put together to is what the port        *)
(* carries, however the outputs overlap, are wrapped or leave the port     *)
(* out, as long as they tell it in full (build_collected_state).           *)
CollectedIsCarried ==
    pc \notin {"idle", "collect"} /\ ToldInFull(port) => found = Carried(port, policy)

(* An apply that ends without an error or a warning has left the interface *)
(* with the VLAN numbers collected from the port, whichever NetBox VLANs   *)
(* stand for them: although VLANs were created since they were read, and   *)
(* although somebody changed the interface before it was read or between   *)
(* the update and its read back, which is told as an error.                *)
QuietMeansCarried ==
    (/\ pc = "done" /\ apply /\ found # NoState
     /\ report.errors = {} /\ ~report.warned
     /\ edits \subseteq {"create", "edit before", "edit of vlans written"})
    => /\ iface.mode = found.mode
       /\ Vids({iface.untagged}) = {found.untagged} \ {None}
       /\ Vids(iface.tagged) = found.tagged

(* No update takes from the interface a VLAN number that the port carries  *)
(* and the interface had when it was read, by a VLAN the run knows: one    *)
(* that is missing or ambiguous cannot remove anything                     *)
(* (desired_netbox_state).  An untagged VLAN made since the VLANs were     *)
(* read is not known, and is replaced.                                     *)
KeepsCarried ==
    [][ Update("vlan") =>
          \A v \in cache :
             /\ v.id \in loaded.tagged \cup {loaded.untagged}
             /\ v.vid \in found.tagged \cup {found.untagged}
             => v.vid \in Assigned(iface') ]_vars

(* Whatever becomes of the VLANs, status and description reach NetBox: an  *)
(* apply in which no request on them failed leaves the values reported,    *)
(* unless somebody changed the interface after it was read, and not just   *)
(* before the metadata was read back.                                      *)
MetadataNotHeldBack ==
    (/\ pc = "done" /\ apply /\ "meta" \notin report.errors
     /\ edits \cap {"edit", "edit of vlans written"} = {})
    => DesiredMetadata(port, MetaFields(iface)) = MetaFields(iface)

(* An apply that nobody disturbs does what the plan before it listed.      *)
(* After an apply it finds the same errors and no metadata to write, and   *)
(* no VLANs unless that one warned: an ambiguous VLAN it left out can have *)
(* become clear by what it did write.                                      *)
NextRunFollows ==
    (/\ pc = "done" /\ run > 1 /\ mishaps = 0)
    => IF last.applied
       THEN /\ report.meta = {} /\ report.errors = last.of.errors
            /\ ~last.of.warned => report.vlan = {}
       ELSE report = last.of

(* "A NetBox VLAN cannot be both tagged and untagged on one port"          *)
(* (engine.py:859): no update asks for that.                               *)
NoVlanTwice ==
    [][Update("vlan") => iface'.untagged \notin iface'.tagged]_vars

(* "the configured native VLAN is carried tagged and must never be sent as *)
(* NetBox untagged_vlan" (engine.py:822): a port that tags it is collected *)
(* without an untagged VLAN.                                               *)
NativeTaggedIsTagged ==
    pc \notin {"idle", "collect"} /\ port.mode = "trunk" /\ port.tagNative
    => found.untagged = None
=============================================================================
