------------------------------ MODULE WirelessSync ------------------------------
(***************************************************************************)
(* Runs of `wireless sync` (tools/wireless/sync.py): each device the       *)
(* Conductor reports is matched to NetBox or created, and then brought in  *)
(* line: its tag, serial, role, platform and radios (netbox/radios.py); an *)
(* access point's bridge and bond (netbox/bridging.py); its primary IP     *)
(* (netbox/ipam.py).  Before the devices the run makes what they share:    *)
(* the tag and the wireless LANs.  The cables are in NeighborCables.       *)
(*                                                                         *)
(* Every device takes a sequence of writes, each of which may fail or      *)
(* reach NetBox without an answer, and later runs, which start again from  *)
(* what NetBox holds.  A plan walks the same path and writes nothing.      *)
(* Fields no later decision depends on are one word each in `wrong`.       *)
(***************************************************************************)
EXTENDS Naturals, FiniteSets, Sequences, SequencesExt, Functions

CONSTANTS
  Reports,     (* what the Conductor and the WLCs may report, device by    *)
               (* device, the same in every run                            *)
  NetBoxes,    (* what NetBox may hold at first                            *)
  Modes,       (* the runs explored: for each of them, with --apply or     *)
               (* not, and what the cables come to in it                   *)
  Faults       (* how many requests may go wrong                           *)

(* A reported device: name, serial, kind ("ap" or "wlc"), ip, uplinks (the *)
(* AP's ports with an LLDP neighbor), ssids (what its radios send), fits   *)
(* (its device type and site are known), template (the interfaces its      *)
(* device type has), lacks (the fields NetBox has nothing for: no such     *)
(* platform, no radio interface) and skips (what is left as it is with a   *)
(* note: the "radio" of a band no row or two radios are reported on, a     *)
(* "channel" NetBox has no value for).                                     *)
(*                                                                         *)
(* A NetBox device: name, serial, wrong (fields of Fields that are not as  *)
(* reported), primary (its primary IP, or NoIp) and ifs, which gives each  *)
(* interface its LAG and its bridge, or NoName.  A radio has the fields    *)
(* "radio" (its role and power), "channel" and "lan" (its wireless LANs).  *)
Fields == {"role", "tag", "platform", "radio", "channel", "lan"}
FieldsOf(kind) == IF kind = "ap" THEN Fields ELSE {"tag"}
Ports == {"e0", "e1"}                  \* the wired ones
NoName == "none"
NoIp == "no ip"
Bare == [lag |-> NoName, bridge |-> NoName]

(* An address is recorded at an interface, <<id of its device, name>>, or: *)
NoDevice == 0
Absent == <<NoDevice, "absent">>            \* NetBox has no such address
Unassigned == <<NoDevice, "unassigned">>    \* it has, on no interface
Unfit == <<NoDevice, "unfit">>              \* twice in its VRF, a virtual machine's,
                                            \* or in no one prefix
Places == {Absent, Unassigned, Unfit}

(* The cables are of NeighborCables; here they are in sync, changed or an   *)
(* issue, in each run anew.                                                *)
Cables == {"in sync", "changed", "issue"}
ASSUME ModesAssumption ==
  Modes \subseteq Seq([apply : BOOLEAN, cables : Cables]) /\ Faults \in Nat
ASSUME ReportsAssumption ==
  \A r \in Reports :
    /\ r \in Seq(Range(r)) /\ IsFiniteSet(UNION {d.ssids : d \in Range(r)})
    /\ \A d \in Range(r) : /\ d.uplinks \subseteq Ports /\ d.lacks \subseteq {"platform", "radio"}
                           /\ d.skips \subseteq {"radio", "channel"}
(* NetBox links a device's interfaces to each other only, and takes for a  *)
(* primary IP only one that is on an interface of the device; an interface *)
(* with an address is one of a device it has.                              *)
ASSUME NetBoxesAssumption ==
  \A nb \in NetBoxes :
    /\ nb.devices \in Seq(Range(nb.devices))
    /\ \A i \in DOMAIN nb.devices :
         LET d == nb.devices[i] IN
         /\ DOMAIN d = {"name", "serial", "wrong", "primary", "ifs"}
         /\ \A n \in DOMAIN d.ifs : {d.ifs[n].lag, d.ifs[n].bridge} \ {NoName} \subseteq DOMAIN d.ifs
         /\ d.primary # NoIp => /\ d.primary \in DOMAIN nb.addresses
                                /\ nb.addresses[d.primary] \notin Places
                                /\ nb.addresses[d.primary][1] = i
    /\ \A ip \in DOMAIN nb.addresses :
         nb.addresses[ip] \notin Places => nb.addresses[ip][1] \in DOMAIN nb.devices
    /\ \A r \in Reports : \A d \in Range(r) : d.ip \in DOMAIN nb.addresses \cup {NoIp}

VARIABLES
  report,      (* one of Reports                                           *)
  modes,       (* one of Modes                                             *)
  devices,     (* NetBox's devices; a device's id is its place             *)
  addresses,   (* where each address is recorded in NetBox                 *)
  lans,        (* how many wireless LANs NetBox has with each SSID         *)
  tagged,      (* NetBox has the tag of the environment                    *)
  stage,       (* what is done next                                        *)
  matches,     (* for each reported device, its action and NetBox id       *)
  at,          (* the reported device being synced                         *)
  device,      (* its id in NetBox, Preview in a plan of a new one         *)
  queue,       (* the writes of this stage, in order                       *)
  noBridge,    (* the bridge could not be created                          *)
  noLans,      (* the SSIDs whose wireless LAN could not be created        *)
  unread,      (* some WLC could not be queried: live.failed               *)
  silent,      (* the APs whose LLDP could not be read: live.lldp_unread   *)
  failed,      (* some device could not be created                         *)
  issues,      (* some device's report has an issue                        *)
  changes,     (* a change was made, or would be                           *)
  ended,       (* history: the statuses of the runs                        *)
  faults,      (* history: requests gone wrong, in all                     *)
  faulty,      (* history: one went wrong in this run                      *)
  stunted,     (* history: devices that were to get wired interfaces, of   *)
               (* which one was not made, or not known to be, and that     *)
               (* have some                                                *)
  blocked      (* history: an issue of this run that a person must settle  *)

netbox == <<devices, addresses, lans, tagged>>
live == <<unread, silent>>
outcome == <<failed, issues, changes>>
vars == <<report, modes, netbox, stage, matches, at, device, queue, noBridge,
          noLans, live, outcome, ended, faults, faulty, stunted, blocked>>

Preview == 0
apply == modes[Len(ended) + 1].apply
cables == modes[Len(ended) + 1].cables
Reported == report[at]

-----------------------------------------------------------------------------
(* _existing: the devices NetBox has with the serial of one reported or,    *)
(* when it has none, with its name.                                        *)
Existing(ds, d) ==
  LET serial == {i \in DOMAIN ds : d.serial # "" /\ ds[i].serial = d.serial} IN
  IF serial # {} THEN serial ELSE {i \in DOMAIN ds : ds[i].name = d.name}

(* _classify, of the devices read when the run began.                      *)
Classify(d) ==
  LET found == Existing(devices, d) IN
  IF found # {} THEN [action |-> "update", id |-> CHOOSE i \in found : TRUE]
  ELSE [action |-> IF d.fits THEN "create" ELSE "blocked", id |-> Preview]

-----------------------------------------------------------------------------
(* A write of NetBox.  A failure of one "alone" leaves the writes behind it *)
(* in the queue; one of a "chain" drops them.                              *)
Write(op, on, lag, bridge, after) ==
  [op |-> op, on |-> on, lag |-> lag, bridge |-> bridge, after |-> after]
Set(op, on) == Write(op, on, NoName, NoName, "alone")
Interface(name, bridge) == Write("interface", name, NoName, bridge, "chain")
Address(op, on) == Write(op, on, NoName, NoName, "chain")

(* Mutant of Link: a failed step is passed over.                           *)
LinkAlone(name, lag, bridge) == Write("link", name, lag, bridge, "alone")

Link(name, lag, bridge) == Write("link", name, lag, bridge, "chain")

When(condition, write) == IF condition THEN <<write>> ELSE <<>>
Each(Op(_), names) == [i \in DOMAIN names |-> Op(names[i])]

(* Mutant of This: nothing is known of what a new device would have.       *)
ThisWithoutTemplate ==
  IF device # Preview THEN devices[device]
  ELSE [name |-> Reported.name, serial |-> Reported.serial, wrong |-> {},
        primary |-> NoIp, ifs |-> [n \in {} |-> Bare]]

(* The device a stage works on; in a plan, a new one has its template.     *)
This ==
  IF device # Preview THEN devices[device]
  ELSE [name |-> Reported.name, serial |-> Reported.serial, wrong |-> {},
        primary |-> NoIp, ifs |-> [n \in Reported.template |-> Bare]]

Has(name) == name \in DOMAIN This.ifs
Wired == DOMAIN This.ifs \cap Ports

(* _update_identity and _sync_platform: the fields to correct, in order.   *)
IdentityWrites ==
  LET fields == (This.wrong \cap FieldsOf(Reported.kind)) \ Reported.lacks
      Correct(f) == When(f \in fields, Set("field", f)) IN
  Correct("role") \o Correct("tag")
    \o When(Reported.serial \notin {"", This.serial}, Set("serial", NoName))
    \o Correct("platform")

-----------------------------------------------------------------------------
(* plan_uplink_bridge.  A device without wired interfaces gets the ports   *)
(* reported of it; others have those they have.                            *)
Order(ports) == When("e0" \in ports, "e0") \o When("e1" \in ports, "e1")
NewPorts(uplinks) == IF Wired = {} THEN uplinks ELSE {}
Linked(uplinks) == uplinks \cap (Wired \cup NewPorts(uplinks))
LinkOf(p) == IF Has(p) THEN This.ifs[p] ELSE Bare

(* One port: it is in the bridge itself.                                   *)
PortWrites(uplinks) ==
  LET In(p) == Has("br0") /\ LinkOf(p).bridge = "br0"
      Join(p) == Link(p, LinkOf(p).lag, "br0") IN
  Each(Join, Order({p \in Linked(uplinks) : ~In(p)}))

Member(p) == Link(p, "bond0", NoName)

(* Mutant of Bond: it is made whether it is there or not.                  *)
BondAnew == <<Interface("bond0", "br0")>>

Bond ==
  IF ~Has("bond0") THEN <<Interface("bond0", "br0")>>
  ELSE When(~Has("br0") \/ This.ifs["bond0"].bridge # "br0", Link("bond0", NoName, "br0"))

(* Two ports, or a bond that is there: its members, the bond in the bridge. *)
BondWrites(uplinks) ==
  LET In(p) == Has("bond0") /\ LinkOf(p) = [lag |-> "bond0", bridge |-> NoName] IN
  Bond \o Each(Member, Order({p \in Linked(uplinks) : ~In(p)}))

BridgeWrites(uplinks) ==
  LET Create(name) == Interface(name, NoName) IN
  When(~Has("br0"), Create("br0"))
    \o Each(Create, Order(NewPorts(uplinks)))
    \o (IF Linked(uplinks) = {} THEN <<>>
        ELSE IF Has("bond0") \/ Cardinality(Linked(uplinks)) > 1 THEN BondWrites(uplinks)
        ELSE PortWrites(uplinks))

-----------------------------------------------------------------------------
(* Mutant of IpBlocked: an address of another device is taken over.        *)
IpBlockedTakesOver(ip) == addresses[ip] = Unfit

(* find_prefix and plan_primary_ip: addresses that are left alone.         *)
IpBlocked(ip) ==
  \/ addresses[ip] = Unfit
  \/ addresses[ip] \notin Places /\ addresses[ip][1] # device

IpTarget ==
  IF Reported.kind = "ap" THEN "br0"
  ELSE IF Wired = {} THEN "Ethernet0"
  ELSE Head(Order(Wired))

(* Mutant of IpWrites: an address NetBox has is taken to be primary.       *)
IpWritesOnlyNew(ip) ==
  When(~Has(IpTarget), Interface(IpTarget, NoName))
    \o (IF addresses[ip] = Absent THEN <<Address("address", ip), Address("primary", ip)>>
        ELSE When(addresses[ip] # <<device, IpTarget>>, Address("assign", ip)))

(* apply_ip_plan of what is not in sync: the interface, the address on it, *)
(* the device's primary IP.                                                *)
IpWrites(ip) ==
  LET absent == addresses[ip] = Absent IN
  When(~Has(IpTarget), Interface(IpTarget, NoName))
    \o When(absent, Address("address", ip))
    \o When(~absent /\ addresses[ip] # <<device, IpTarget>>, Address("assign", ip))
    \o When(absent \/ This.primary # ip, Address("primary", ip))

-----------------------------------------------------------------------------
Init ==
  /\ report \in Reports
  /\ modes \in Modes
  /\ \E nb \in NetBoxes :
       /\ devices = nb.devices /\ addresses = nb.addresses
       /\ lans = nb.lans /\ tagged = nb.tagged
  /\ stage = "start"
  /\ matches = <<>>
  /\ at = 1
  /\ device = Preview
  /\ queue = <<>>
  /\ noBridge = FALSE
  /\ noLans = {}
  /\ unread = FALSE
  /\ silent = {}
  /\ failed = FALSE
  /\ issues = FALSE
  /\ changes = FALSE
  /\ ended = <<>>
  /\ faults = 0
  /\ faulty = FALSE
  /\ stunted = {}
  /\ blocked = FALSE

(* What the WLCs tell: all of it; nothing of the APs, when one cannot be   *)
(* queried; or all but one AP's neighbors, when a WLC's table is broken and *)
(* each AP is asked on its own (_read_lldp).                               *)
QueryWlcs ==
  \/ unread' = FALSE /\ silent' = {} /\ UNCHANGED faults /\ faulty' = FALSE
  \/ /\ faults < Faults
     /\ faults' = faults + 1
     /\ faulty' = TRUE
     /\ \/ unread' = TRUE /\ silent' = {}
        \/ \E i \in DOMAIN report : /\ report[i].uplinks # {}
                                  /\ unread' = FALSE /\ silent' = {i}

(* The Conductor is asked, each WLC too, and every device is matched with  *)
(* what NetBox holds.                                                      *)
StartRun ==
  /\ stage = "start"
  /\ Len(ended) < Len(modes)
  /\ matches' = [i \in 1..Len(report) |-> Classify(report[i])]
  /\ QueryWlcs
  /\ at' = 1
  /\ stage' = "tag"
  /\ noLans' = {}
  /\ failed' = FALSE
  /\ issues' = FALSE
  /\ changes' = FALSE
  /\ blocked' = FALSE
  /\ UNCHANGED <<report, modes, netbox, device, queue, noBridge, ended, stunted>>

(* What a stage's writes come to in a plan: they are only told of.         *)
Enqueue(writes, nextStage) ==
  /\ queue' = IF apply THEN writes ELSE <<>>
  /\ changes' = (changes \/ (~apply /\ writes # <<>>))
  /\ stage' = nextStage

(* The tag, when some device is to get it and NetBox has none.             *)
SyncTag ==
  /\ stage = "tag"
  /\ LET needed == \E i \in DOMAIN matches :
                     \/ matches[i].action = "create"
                     \/ matches[i].action = "update" /\ "tag" \in devices[matches[i].id].wrong
     IN Enqueue(When(needed /\ ~tagged, Set("tag", NoName)), "lans")
  /\ UNCHANGED <<report, modes, netbox, matches, at, device, noBridge, noLans,
                 live, failed, issues, ended, faults, faulty, stunted, blocked>>

(* _sync_wireless_lans: one for each SSID reported that has none.  Of two   *)
(* with one SSID neither is picked.                                        *)
SyncLans ==
  /\ stage = "lans"
  /\ queue = <<>>
  /\ LET ssids == IF unread THEN {} ELSE UNION {d.ssids : d \in Range(report)}
         Create(ssid) == Set("lan", ssid) IN
     Enqueue(Each(Create, SetToSeq({ssid \in ssids : lans[ssid] = 0})), "device")
  /\ UNCHANGED <<report, modes, netbox, matches, at, device, noBridge, noLans,
                 live, failed, issues, ended, faults, faulty, stunted, blocked>>

(* _sync_device begins.                                                    *)
StartDevice ==
  /\ stage = "device"
  /\ queue = <<>>
  /\ at <= Len(report)
  /\ noBridge' = FALSE
  /\ device' = matches[at].id
  /\ CASE matches[at].action = "blocked" ->
            /\ failed' = TRUE
            /\ blocked' = TRUE
            /\ stage' = "next"
            /\ UNCHANGED <<queue, changes>>
       [] matches[at].action = "create" ->
            /\ Enqueue(<<Set("device", NoName)>>, "identity")
            /\ UNCHANGED <<failed, blocked>>
       [] OTHER ->
            /\ stage' = "identity"
            /\ UNCHANGED <<queue, changes, failed, blocked>>
  /\ UNCHANGED <<report, modes, netbox, matches, at, noLans, live, issues, ended,
                 faults, faulty, stunted>>

SyncIdentity ==
  /\ stage = "identity"
  /\ queue = <<>>
  /\ Enqueue(IdentityWrites, IF Reported.kind = "ap" THEN "bridge" ELSE "ip")
  /\ issues' = (issues \/ "platform" \in Reported.lacks)
  /\ blocked' = (blocked \/ "platform" \in Reported.lacks)
  /\ UNCHANGED <<report, modes, netbox, matches, at, device, noBridge, noLans,
                 live, failed, ended, faults, faulty, stunted>>

(* The LLDP neighbors come from the WLCs: none when they were not read.    *)
Uplinks == IF unread \/ at \in silent THEN {} ELSE Reported.uplinks

SyncBridge ==
  /\ stage = "bridge"
  /\ queue = <<>>
  /\ Enqueue(BridgeWrites(Uplinks), "ip")
  /\ UNCHANGED <<report, modes, netbox, matches, at, device, noBridge, noLans,
                 live, failed, issues, ended, faults, faulty, stunted, blocked>>

(* _sync_ip, one change of up to three writes.  Of the cables, only that   *)
(* of a port NetBox lacks, or of neighbors that were not read, is here: an *)
(* issue, before the IP or after; the others are in Status.                *)
SyncIp ==
  /\ stage = "ip"
  /\ queue = <<>>
  /\ LET wanted == Reported.ip # NoIp /\ (Reported.kind = "ap" \/ matches[at].action = "create")
         portless == /\ Reported.kind = "ap"
                     /\ Uplinks \ DOMAIN This.ifs # {}
                     /\ DOMAIN This.ifs \cap Ports # {}
         refused == wanted /\ ~noBridge /\ IpBlocked(Reported.ip) IN
     /\ issues' = (issues \/ refused \/ portless \/ (wanted /\ noBridge) \/ at \in silent)
     /\ blocked' = (blocked \/ refused \/ (portless /\ device \notin stunted))
     /\ IF wanted /\ ~noBridge /\ ~refused
        THEN Enqueue(IpWrites(Reported.ip), "radio")
        ELSE stage' = "radio" /\ UNCHANGED <<queue, changes>>
  /\ UNCHANGED <<report, modes, netbox, matches, at, device, noBridge, noLans,
                 live, failed, ended, faults, faulty, stunted>>

(* The radios are known from the WLCs.  One left out with a note goes no   *)
(* further; else its band may have no interface, an issue.  One update sets *)
(* all that is wrong of it, but not a channel NetBox has no value for, nor *)
(* its wireless LANs when one of them was not created, an issue, or is     *)
(* ambiguous, a note.                                                      *)
SyncRadios ==
  /\ stage = "radio"
  /\ queue = <<>>
  /\ LET reported == Reported.kind = "ap" /\ ~unread /\ "radio" \notin Reported.skips
         lacking == reported /\ "radio" \in Reported.lacks
         lost == Reported.ssids \cap noLans
         ambiguous == {ssid \in Reported.ssids : lans[ssid] > 1}
         fields == ({"radio", "channel"} \ Reported.skips)
                     \cup (IF lost \cup ambiguous = {} THEN {"lan"} ELSE {}) IN
     /\ Enqueue(When(reported /\ ~lacking /\ This.wrong \cap fields # {},
                     Set("radio", IF "lan" \in fields THEN "lan" ELSE "radio")),
                "next")
     /\ issues' = (issues \/ lacking \/ (reported /\ lost # {}))
     /\ blocked' = (blocked \/ lacking)
  /\ UNCHANGED <<report, modes, netbox, matches, at, device, noBridge, noLans,
                 live, failed, ended, faults, faulty, stunted>>

NextDevice ==
  /\ stage = "next"
  /\ queue = <<>>
  /\ at' = at + 1
  /\ stage' = "device"
  /\ UNCHANGED <<report, modes, netbox, matches, device, queue, noBridge,
                 noLans, live, outcome, ended, faults, faulty, stunted, blocked>>

-----------------------------------------------------------------------------
(* NetBox after a write; interfaces come with a device from its type.      *)
WithIf(d, name, link) ==
  [d EXCEPT !.ifs = [n \in DOMAIN @ \cup {name} |-> IF n = name THEN link ELSE @[n]]]

Devices(w) ==
  CASE w.op = "device" ->
         Append(devices, [name |-> Reported.name, serial |-> Reported.serial,
                          wrong |-> FieldsOf(Reported.kind) \ {"tag", "role"},
                          primary |-> NoIp, ifs |-> [n \in Reported.template |-> Bare]])
    [] w.op = "field" -> [devices EXCEPT ![device].wrong = @ \ {w.on}]
    [] w.op = "radio" ->
         [devices EXCEPT ![device].wrong = @ \ ({"radio", "channel", w.on} \ Reported.skips)]
    [] w.op = "serial" -> [devices EXCEPT ![device].serial = Reported.serial]
    [] w.op \in {"interface", "link"} ->
         [devices EXCEPT ![device] = WithIf(@, w.on, [lag |-> w.lag, bridge |-> w.bridge])]
    [] w.op = "primary" -> [devices EXCEPT ![device].primary = w.on]
    [] OTHER -> devices

Addresses(w) ==
  IF w.op \in {"address", "assign"}
  THEN [addresses EXCEPT ![w.on] = <<device, IpTarget>>] ELSE addresses

Carried(w) ==
  /\ devices' = Devices(w)
  /\ addresses' = Addresses(w)
  /\ lans' = IF w.op = "lan" THEN [lans EXCEPT ![w.on] = @ + 1] ELSE lans
  /\ tagged' = (tagged \/ w.op = "tag")

(* A link to an interface the device has no record of raises LookupError;  *)
(* NetBox refuses a second interface of one name.  The order of the chains *)
(* is what keeps a run from coming to either.                              *)
Possible(w) ==
  /\ w.op \in {"interface", "link"} => {w.lag, w.bridge} \ {NoName} \subseteq DOMAIN This.ifs
  /\ w.op = "interface" => ~Has(w.on)

WriteOk ==
  /\ queue # <<>>
  /\ Possible(Head(queue))
  /\ Carried(Head(queue))
  /\ device' = IF Head(queue).op = "device" THEN Len(devices) + 1 ELSE device
  /\ queue' = Tail(queue)
  /\ changes' = TRUE
  /\ UNCHANGED <<report, modes, stage, matches, at, noBridge, noLans, live,
                 failed, issues, ended, faults, faulty, stunted, blocked>>

(* The request fails, or NetBox carries it out and the answer is lost.  A  *)
(* device that could not be created is done with; one with some of its     *)
(* wired interfaces gets no more of them in any run (NewPorts).            *)
WriteFails ==
  /\ queue # <<>>
  /\ LET w == Head(queue) IN
     /\ w.op # "tag"
     /\ \/ ~Possible(w) /\ UNCHANGED <<netbox, faults, faulty>>
        \/ /\ faults < Faults
           /\ faults' = faults + 1
           /\ faulty' = TRUE
           /\ \/ UNCHANGED netbox
              \/ Possible(w) /\ Carried(w)
     /\ queue' = IF w.after = "chain" THEN <<>> ELSE Tail(queue)
     /\ stage' = IF w.op = "device" THEN "next" ELSE stage
     /\ failed' = (failed \/ w.op = "device")
     /\ issues' = (issues \/ w.op \notin {"device", "lan"})
     /\ noBridge' = (noBridge \/ (w.op = "interface" /\ w.on = "br0"))
     /\ noLans' = noLans \cup (IF w.op = "lan" THEN {w.on} ELSE {})
     /\ UNCHANGED <<report, modes, matches, at, device, live, changes, ended, blocked>>
     /\ stunted' = IF w.op = "interface" /\ w.on \in Ports /\ Wired' # {}
                   THEN stunted \cup {device} ELSE stunted

(* The tag could not be created: nothing catches that in the tool, and the *)
(* run ends there.                                                         *)
TagFails ==
  /\ queue # <<>>
  /\ Head(queue).op = "tag"
  /\ faults < Faults
  /\ faults' = faults + 1
  /\ faulty' = TRUE
  /\ UNCHANGED netbox \/ Carried(Head(queue))
  /\ queue' = <<>>
  /\ ended' = Append(ended, "error")
  /\ stage' = "start"
  /\ UNCHANGED <<report, modes, matches, at, device, noBridge, noLans, live,
                 outcome, stunted, blocked>>

Status ==
  IF failed THEN "error"
  ELSE IF issues \/ unread \/ cables = "issue" THEN "partial"
  ELSE IF changes \/ cables = "changed" THEN IF apply THEN "changed" ELSE "drift"
  ELSE "ok"

EndRun ==
  /\ stage = "device"
  /\ queue = <<>>
  /\ at > Len(report)
  /\ ended' = Append(ended, Status)
  /\ stage' = "start"
  /\ UNCHANGED <<report, modes, netbox, matches, at, device, queue, noBridge,
                 noLans, live, outcome, faults, faulty, stunted, blocked>>

Next ==
  \/ StartRun \/ SyncTag \/ SyncLans
  \/ StartDevice \/ SyncIdentity \/ SyncBridge \/ SyncIp \/ SyncRadios \/ NextDevice
  \/ WriteOk \/ WriteFails \/ TagFails
  \/ EndRun

Spec == Init /\ [][Next]_vars

-----------------------------------------------------------------------------
Links == {NoName, "br0", "bond0"}
Ips == DOMAIN addresses
Interfaces == Ports \cup {"br0", "bond0", "Ethernet0"}
(* Types; and a write that is about to be made is one on a device that is  *)
(* there.                                                                  *)
TypeOK ==
  /\ modes \in Modes
  /\ \A d \in Range(devices) :
       /\ d.wrong \subseteq Fields
       /\ d.primary \in Ips \cup {NoIp}
       /\ DOMAIN d.ifs \subseteq Interfaces
       /\ \A n \in DOMAIN d.ifs : {d.ifs[n].lag, d.ifs[n].bridge} \subseteq Links
  /\ \A ip \in Ips : addresses[ip] \in Places \cup ((DOMAIN devices) \X Interfaces)
  /\ stage \in {"start", "tag", "lans", "device", "identity", "bridge", "ip", "radio", "next"}
  /\ at \in 1..(Len(report) + 1)
  /\ device \in {Preview} \cup DOMAIN devices
  /\ queue # <<>> /\ stage \notin {"lans", "device"} =>
       apply /\ (Head(queue).op = "device" <=> device = Preview)
  /\ Range(lans) \subseteq Nat /\ noLans \subseteq DOMAIN lans
  /\ silent \subseteq DOMAIN report /\ stunted \subseteq DOMAIN devices
  /\ faults \in 0..Faults
  /\ {noBridge, tagged, unread, failed, issues, changes, faulty, blocked} \subseteq BOOLEAN
  /\ ended \in Seq({"ok", "drift", "changed", "partial", "error"})

(* A port of a device carries its br0: by itself, or as a member of bond0. *)
Attached(d, port) ==
  /\ {port, "br0"} \subseteq DOMAIN d.ifs
  /\ \/ d.ifs[port].bridge = "br0"
     \/ d.ifs[port].lag = "bond0" /\ "bond0" \in DOMAIN d.ifs /\ d.ifs["bond0"].bridge = "br0"

(* What a green run leaves as it is, with no more than a note.             *)
Noted(d) ==
  IF "radio" \in d.skips THEN {"radio", "channel", "lan"}
  ELSE d.skips \cup (IF \E ssid \in d.ssids : lans[ssid] > 1 THEN {"lan"} ELSE {})

(* The device with id i is what was reported of d.                         *)
InNetBox(i, d) ==
  /\ d.serial # "" => devices[i].serial = d.serial
  /\ devices[i].wrong \cap FieldsOf(d.kind) \subseteq Noted(d)
  /\ d.kind = "ap" =>
       /\ \A port \in d.uplinks : Attached(devices[i], port)
       /\ d.ip # NoIp => addresses[d.ip] = <<i, "br0">> /\ devices[i].primary = d.ip

(* The address reported of d is the primary IP of the device with id i.    *)
HoldsAddress(i, d) ==
  d.ip # NoIp => /\ addresses[d.ip] \notin Places /\ addresses[d.ip][1] = i
                 /\ devices[i].primary = d.ip

Green == {"ok", "changed"}

(* No two devices reported are one device of NetBox: neither the records   *)
(* NetBox has at first (the second would write its serial over the         *)
(* first's), nor the one that would be made of them.                       *)
OnePerDevice ==
  \A r \in Reports : \A j, k \in DOMAIN r :
    j # k =>
      /\ r[j].name # r[k].name
      /\ r[j].serial # "" => r[j].serial # r[k].serial
      /\ \A nb \in NetBoxes : Existing(nb.devices, r[j]) \cap Existing(nb.devices, r[k]) = {}

(* "green: everything the network reported is in NetBox" (sync.py:95): a   *)
(* run ends OK, or CHANGED, only when each device reported is there, with  *)
(* its serial, fields and uplinks and, for an AP or a WLC this run made,   *)
(* its IP - whatever failed in this run or an earlier one.  Of the radios, *)
(* what is noted is left out: one without one row of its band, a channel   *)
(* NetBox has no value for, wireless LANs of an SSID that has two.         *)
GreenMeansInNetBox ==
  (stage = "start" /\ ended # <<>> /\ Last(ended) \in Green) =>
    \A j \in DOMAIN report : \E i \in Existing(devices, report[j]) :
      /\ InNetBox(i, report[j])
      /\ matches[j].action = "create" => HoldsAddress(i, report[j])

(* A run that was cut short anywhere is taken up by the next one: only     *)
(* what a person has to settle, a request that goes wrong in this very     *)
(* run, or a cable keeps a run from being green - or a device that an      *)
(* earlier run gave one of its two wired interfaces but not the other.     *)
ResumesAlone ==
  (stage = "start" /\ ended # <<>> /\ Last(ended) \in {"partial", "error"}) =>
    \/ faulty \/ blocked
    \/ modes[Len(ended)].cables = "issue"
    \/ \E j \in DOMAIN report : matches[j].action = "update" /\ matches[j].id \in stunted

(* A device's primary IP is on an interface of its own: an address is not  *)
(* taken from the device whose primary IP it is ("never taken over",       *)
(* ipam.py:139), though several devices report it.                         *)
PrimaryIsOwn ==
  \A i \in DOMAIN devices :
    devices[i].primary # NoIp =>
      /\ addresses[devices[i].primary] \notin Places
      /\ addresses[devices[i].primary][1] = i

(* No step takes a port off its bridge: the bond is in the bridge before a *)
(* bridged port moves into the bond, also when a step in between fails     *)
(* ("Nothing is ever removed or unlinked", bridging.py:21).                *)
UplinksStayAttached ==
  [][\A i \in DOMAIN devices :
       \A port \in Ports : Attached(devices[i], port) => Attached(devices'[i], port)]_vars

(* A plan tells what an apply after it comes to, of devices and ports that *)
(* do not exist yet too - if the cables come to the same in both, and      *)
(* unless two devices report one address, which the plan gives to both.  A *)
(* plan records no cable (sync.py:906), so that of two neighbors in each   *)
(* other's way it may find an issue where the apply finds a change.        *)
AfterPlan == [ok |-> "ok", drift |-> "changed", partial |-> "partial", error |-> "error"]
PlanForetells ==
  (/\ stage = "start" /\ Len(ended) = 2
   /\ ~modes[1].apply /\ modes[2].apply
   /\ modes[1].cables = modes[2].cables
   /\ faults = 0
   /\ \A i, j \in DOMAIN report : i # j => report[i].ip # report[j].ip) =>
    ended[2] = AfterPlan[ended[1]]

-----------------------------------------------------------------------------
(* Claims of the documentation that the code does not keep.                *)

(* Green with the address of each device, as "green: everything the        *)
(* network reported is in NetBox" (sync.py:95) has it: not of a WLC whose  *)
(* address could not be written when it was made, since only the run that  *)
(* makes it writes it (sync.py:55-61, 650).                                *)
GreenMeansAddressed ==
  (stage = "start" /\ ended # <<>> /\ Last(ended) \in Green) =>
    \A d \in Range(report) : \E i \in Existing(devices, d) :
      InNetBox(i, d) /\ HoldsAddress(i, d)

(* Devices that get their wired interfaces from LLDP, "so its cables have  *)
(* somewhere to land" (bridging.py:71), get the rest of them after a       *)
(* failure: not when one of two was made (bridging.py:83).                 *)
PortsResumeToo ==
  (stage = "start" /\ ended # <<>> /\ Last(ended) \in {"partial", "error"}) =>
    faulty \/ blocked \/ modes[Len(ended)].cables = "issue"

=============================================================================
