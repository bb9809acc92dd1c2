# A TLA+ development for bunnyauto

bunnyauto (`src/bunnyauto`) brings NetBox in line with what network equipment
reports: it connects to switches with Nornir and Netmiko, to Aruba controllers
and FortiGate firewalls over HTTP, compares, and, with `--apply`, writes to
NetBox. This directory holds TLA+ modules for the parts of it whose
correctness depends on orders, failures and shared state, the TLC
configurations that check them on small instances, and proofs for TLAPS.

All paths below are relative to the repository (`src/`). `PROJECT.json` maps
every definition to the lines it stands for.

## The system

| Component | Sources | State it keeps | What is hard about it |
|---|---|---|---|
| Connection retries | `bunnyauto/retry.py`, `progress.py` | pass results, `failed_hosts` (shared by every view of one Nornir object), open sessions, progress bars | worker threads, partial results, what may be repeated |
| `wired interfaces` | `tools/wired/interfaces.py` | the hand-over between its steps | two steps, each of which can fail per host, one status |
| - create step | `tools/wired/create_interfaces.py` | plans per device, `checked_via`, failures | stacks reached through several hosts, one-by-one write failures |
| - sync step | `tools/wired/sync_interfaces.py`, `sync/engine.py` | stacks seen, summaries | reads what the create step wrote; lost summaries |
| Switch stacks | `netbox/stacks.py` | none (pure, with two NetBox lookups) | chassis, names, look-alikes, members out of scope |
| Interface names | `netbox/interfaces.py`, `netbox/hostnames.py` | none | spelling, member numbers, template names |
| Run context, scope, roles | `context.py`, `scope.py`, `netbox/roles.py`, `preflight.py`, ... | settings, clients, the Nornir object | order of the gates before a write; a category's role branch |
| Command line and hub | `cli.py`, `hub.py`, `prompts.py` | the menu | exceptions, confirmations, what a second run keeps of the first |
| `wireless sync` | `tools/wireless/sync.py`, `netbox/bridging.py`, `cabling.py`, `ipam.py`, `radios.py` | caches of NetBox records patched as the run writes | sequences of dependent writes, stale caches |
| Aruba clients | `aruba/*` | an HTTP session | I/O and parsing |
| Firewall subnet check | `tools/security/subnet_check.py`, `firewall/*` | none; the firewall's objects | relations of networks and ranges, nested groups; check, ask, create |
| Device type import | `tools/netbox/import_device_type.py` | none; per file, what it created | a record, then its parts; one bad file among many |
| `send-command`, health, backup | `tools/wired/*`, `health/*`, `backup/*` | collected output | one run of the retries; text |
| Pipelines | `scripts/ci_plan.py`, `.github/workflows` | a published plan | exit codes, approval |

How they interact. Every wired tool asks the run context for the Nornir object
of the selected scope and calls `run_with_retries` on it. `wired interfaces`
does so twice on the *same* object, so `failed_hosts` and the open sessions of
the first call are there in the second; besides that shared state, the create
step hands over two things explicitly, the ports it would have created
(`pending`) and the hosts it could not connect to (`unreachable`). Both steps
resolve the stack of each host they reached with `netbox/stacks.py` and file
each port under a device; NetBox itself is the only other state they share.
Each step's status and the combined one become the exit code, on which the
pipelines act.

What makes each part correct:

- *Retries*: a host is retried only while no session ever came up; a host that
  refused a login is not attempted again, and no command is repeated;
  `failed_hosts` and the returned results say the same; the call ends.
- *wired interfaces*: a host that failed is left alone afterwards; every host whose
  ports were not looked at is reported; OK means NetBox agrees with the switches but
  for what the run warned of; one apply completes what it creates; nothing is
  written behind the status; a clean plan has no error.
- *Stacks and ports*: a port is written on the device it is physically on and
  on no other; two ports are never one interface; the steps agree on where a
  port goes; one Port-Channel per stack; only true duplicates are passed over.
- *VLANs of a port*: the state put together from four outputs is what the port
  carries; a VLAN that is missing or ambiguous removes nothing; a quiet apply
  left that state in NetBox; an apply does what the plan before it listed, and
  the run after it follows from it.
- *Wireless*: one cable per port, none deleted that another port needs, the
  second run changes nothing; a bridge or an address half made is finished by
  the next run.
- *Context, hub, scope*: nothing is written that this run's operator did not ask
  for, nor outside the environment's tag and the category's role branch, but for
  the members of a Virtual Chassis that is in scope.
- *Firewall*: the verdict is what the addresses and policies say; the program
  makes one object per subnet, however often it is asked for.
- *Import*: green means that everything is there; a request that fails costs the
  rest of its own file's objects at most; an interrupted import is resumed.

## Modules

| Module | Models |
|---|---|
| `AttemptContract` | abstract specification: what `run_with_retries` promises about each host |
| `ConnectRetry` | `run_with_retries`, its worker pool, sessions, `failed_hosts`, the progress lines; implements `AttemptContract` |
| `ConnectRetryProofs` | the inductive invariant of `ConnectRetry` and the theorems |
| `WiredInterfaces` | one run of `wired interfaces`, both steps, statuses |
| `WiredInterfacesProofs` | its inductive invariant and the theorems |
| `SwitchStacks` | `netbox/stacks.py` as operators: `ResolveStack`, `Owner`, `StandIn` |
| `StackPorts` | both steps seen from the interfaces of a stack's devices; extends `SwitchStacks` |
| `StackPortsProofs` | lemmas about stacks and matches, its inductive invariant, the theorems |
| `InterfaceVlans` | the sync engine on one port: parsing to VLAN state, VLAN resolution, update and read back |
| `InterfaceVlansProofs` | lemmas about VLAN resolution, the inductive invariant, the theorems |
| `NeighborCables` | the cables of `wireless sync`: `netbox/cabling.py` and `_sync_cables` |
| `NeighborCablesProofs` | lemmas about planning and writing a cable, its inductive invariant, the theorems |
| `WirelessSync` | the other writes of `wireless sync`: tag and wireless LANs, identity, bridge and bond, primary IP, radios; several runs |
| `WirelessSyncProofs` | its inductive invariant and the theorems |
| `DeviceTypeImport` | `netbox import-device-type`: folders of files, several runs |
| `DeviceTypeImportProofs` | its inductive invariant and the theorems |
| `SubnetUsage` | `firewall/usage.py` as operators: relations of objects to a query, groups, policies, the report |
| `RoleScope` | `netbox/roles.py` and `scope.py` as operators: role branches, `ResolveScope`, the devices targeted |
| `FrontDoor` | hub and command line, the gates before a write, a wired tool and the whole subnet check; extends `SubnetUsage` and `RoleScope` |
| `FrontDoorProofs` | lemmas about role trees and about address ranges, two inductive invariants, the theorems |
| `MC...` | the instances TLC checks |

### ConnectRetry

State: `phase`, `pass` and `queue` are the loop of `run_with_retries`; `running`
the worker pool; `raised` the exceptions of an attempt in progress; `session`
whether `host.connections` holds the Netmiko connection; `passResults` the
`AggregatedResult` of the pass and `results` the merged one; `failedHosts` is
Nornir's `data.failed_hosts`; `bars` and `label` are the progress display. The
others are history.

Actions: `StartHost` (a worker takes a host), `ConnectFails`, `ConnectOpens`,
`SendCommand` (the task on the host, with any mixture of exceptions, as
`run_first_supported` produces), `FinishHost`, `EndPass` (Nornir merges and
`recover_host`), `RetryPass`, `Return`. A `MultiResult` is the set of the kinds of
exception found in it; `refusals` counts the logins a host refused, of which an
attempt may have several, since each command of `run_first_supported` opens the
connection again (`health/collect.py:152`). `Init` allows any `failed_hosts` and any
open sessions, because the object may come from an earlier run.

`KeepsContract` is refinement: `AttemptContract` has neither passes nor threads,
only hosts that are *owed* an attempt. An attempt counts for the contract when
its result is recorded.

### WiredInterfaces

One action per step of the program: `CreateCollect`, `CreateHost` per result,
`CreateReports`, `CreateApplies` per device, `CreateReturns`, `SyncCollect`,
`SyncHost` per result, `SyncReturns`; `Abort` is an exception or Ctrl-C at any
point. `run_with_retries` appears as its contract: any outcome for each host
that runs. What NetBox lacks is abstracted, per device, to five kinds of
difference; creating an interface leaves it without its state, which is what
makes the order of the two steps matter. Some differences may be left with no
more than a warning or a note, and `noted` keeps them: a type when the type
choices cannot be read, an optic when `show inventory` failed
(`create_interfaces.py:314`, `:580`, `:607`), the state of a trunk one of whose
VLANs does not resolve (`sync/engine.py:1684`). `dark` members are powered off: their
ports are in NetBox but in no report. `orphans` are stacks that report ports of
a member NetBox has no device for.

### SwitchStacks and StackPorts

A port is a record of member and slot, the Port-Channel or the management port.
`SwitchStacks` decides from names, management addresses, chassis and scope which
device owns it. `StackPorts` runs both steps over the interfaces that exist:
`CreateHost` files the ports (`_classify`), `CreateReports` makes the plan or the
list of writes, `ApplyPlan` is one device's creates and renames, `StartSync` and
`SyncHost` match and write. `cfg` is what each interface was last given, and the
physical truth (`plane`, `home`) is known to the properties only. Any set of
interfaces may exist before the run, template-named ones and leftover copies on
other members included.

### InterfaceVlans

What `StackPorts` leaves out: one port, and everything the engine does with it.
The switch's side is `port`, a configuration from which `VlanBrief` and
`RunningConfig` give the outputs; `BuildCollectedState` and the operators before
it put them together as the engine does. `CollectedIsCarried` compares the
result with `Carried`, a definition made from the configuration alone, for a port
`ToldInFull`: one in the table of the switchports or with a configuration of its
own. Of a port with neither, the engine cannot know that its native VLAN is
tagged, that it is a trunk while it is down, or which VLAN is the phone's, and
collects it otherwise (see the findings). NetBox's
VLANs are records with a number, the rank of their scope for the device and
whether their prefix holds the switch's SVI address: all that `resolve_vlan`
looks at. `cache` is the VLAN list read at the start of the run, `loaded` the
interface record read later; both age while the run goes on.

Actions: `StartRun` (VLANs are read), `Collect`, `LoadScope` (the interface is
read), `CompareVlans` and `CompareMetadata` (the two halves of `sync_device`),
each followed by `Update` or `UpdateFails` (refused, failed, or carried out with
the answer lost) and `ReadBack`; `Return`; `SomebodyEdits` (a VLAN created or
deleted, the interface changed) at any moment, and `edits` keeps when: before the
interface is read, between an update and its read back, or where the run cannot
see it.

### NeighborCables

State: `cables` is NetBox's list of cables, each with two sets of terminations;
`held` what the run keeps in memory of each interface (`cable`,
`link_peers_type`, the traced path), which is the `interface_cache` of `_Run`
and the AP's own list; `plan` the `CablePlan` being written.

Actions: `NextAp` (the AP's interfaces are read, also when they were as a
neighbor's; a record is one per interface, so the copy kept as the neighbor's goes
with the AP's turn), `PlanRow` (`_sync_cable` up to
its write, with `PlanNeighborCable` and `PlanRepoint`), `WriteRow` (write and
`record_cable`), `WriteFails` (refused, failed, or carried out with its answer
lost), `ReadFails` (a read that raises is caught nowhere in the tool and ends the
run), `ApDone`, `EndRun`, `StartRun`, and `PersonEdits`: somebody else deletes or
makes a cable at any moment. What NetBox answers (`CableOn`, `LinkPeers`,
`ConnectedEndpoints`) and refuses (`Accepted`) is modelled from how the code uses
it. Names are matched beforehand; a port that matches nothing is `Unmatched`.

### WirelessSync

State: `devices`, `addresses`, `lans` and `tagged` are NetBox; `matches` the list
of `_Match`; `unread` and `silent` what the WLCs did not tell; `at`, `stage` and
`device` where the run is; `queue` the writes left of a stage, each "alone" (its
failure is an issue and the next is tried) or of a "chain" (the rest is dropped:
the steps of `_sync_bridge` and of `apply_ip_plan`). Fields on which nothing else
depends (role, tag, platform, a radio's settings, its channel, its wireless LANs)
are in the set `wrong` of a device until written. `modes` says of each run whether
it has `--apply` and what its cables come to: in sync, changed, or an issue.

Actions: `StartRun` (`QueryWlcs`: a WLC may not answer, or its LLDP table be
broken and an AP asked on its own not answer; devices are classified), `SyncTag`,
`SyncLans`, then per device `StartDevice`, `SyncIdentity`, `SyncBridge`,
`SyncIp`, `SyncRadios`, `NextDevice`; `EndRun`; and for each write `WriteOk` or
`WriteFails`, of the tag `TagFails`, which nothing catches and which ends the run.
A plan goes the same way with an empty queue; a device that does not exist yet is
previewed from its template. After `EndRun` the next run of `modes` starts from
what NetBox then holds. Some things the code leaves as they are with a note and no
issue, and the run is green: a radio of a band that no row or two rows of a device
are on (`tools/wireless/sync.py:984`), a channel NetBox has no value for (`:1005`),
a wireless LAN whose SSID NetBox has twice. `skips` of a report has the first two,
and `GreenMeansInNetBox` excepts all three (`Noted`); of a WLC it promises the
address only when the run made the WLC, since no other run writes it.
A reported device is looked for by its serial and, when NetBox has none with it, by
its name (`Existing`); `OnePerDevice`, that no two of a report are one record of
NetBox that way, is an assumption on the inputs of the run.

`blocked` notes the issues a person has to settle: no device type or site, no
platform, no radio interface, an address that is another device's, a port the
device does not have. A missing port can also be of the code's own making: of an
AP whose type has no interfaces, the reported ports are created one by one; if
the second fails, the device *has* a wired interface in the next run, and no
further port is created (`netbox/bridging.py:83`). Such a device is `stunted`,
not `blocked`, and `ResumesAlone` names the case.

The two modules meet in the interfaces of an AP. A cable changes no bridge, bond
or address, and a bridge step changes no cable, so they are not composed.
`WirelessSync` keeps the issue of a port that is not there, and takes the rest of
the cables' outcome as an input of each run, since a status depends on it.
`PlanForetells` compares a plan and an apply whose cables come to the same: a plan
does not record the cables it would write (`tools/wireless/sync.py:906`), so that
of two neighbors in each other's way it can find an issue where the apply finds
a change.

### DeviceTypeImport

State: `nb` is NetBox (manufacturers, device types, templates with what they
refer to); `at` the file of the folder, `todo` the templates left of it, `names`
those that exist or would; `results` the status of each file. Names are without
case, as the code compares them.

Actions: `StartRun`, `NextFile` (a file that cannot be read as YAML, lacks a field,
names a manufacturer no slug can be made of, or has the slug of an earlier one is
passed over), `DecodeFails` (a file that is not UTF-8 raises what nothing catches
and ends the folder), `Manufacturer`, `DeviceType`, the templates one by one in the
order of the categories (`KeepTemplate`, `PlanTemplate`, `CreateTemplate`,
`BlockTemplate` for one whose reference is not there), `FileFails` and
`TemplateFails` for a request that is refused or whose answer is lost, `ReadFails`
for a read, which ends the whole folder, `EndFile`, `EndRun`. A plan treats what it
would have created as there. `hit` has the files that were given up because their
manufacturer or type failed, `lost` the templates whose own request failed, `unread`
the file at which a read did; `FailureStaysInItsFile` excepts these, what refers to
a lost template, and the files behind an end of the folder. A file that names one
component twice is listed twice by a plan and made once
(`import_device_type.py:249`, `:295`); a line of a report therefore has its place in
the file (`Entry`), and `RunsAgree` is about folders whose files are `Distinct`.

### SubnetUsage, RoleScope and FrontDoor

`SubnetUsage` translates the analysis over families of `Width` bits: a network or
range is none, a supernet, a subnet, exact or an overlap of the query; broad ones
are notes; groups are followed through cycles to the policies. The properties
compare it with `InTheWay` and `Used`, which look at sets of addresses and at the
groups as a graph. `RoleScope` has the role tree, the branch of a category and
what `--role` may be within it.

`FrontDoor` starts at the hub's menus or at the command line. `PromptForArgs` and
`ParseArguments` choose the options, `BuildContext` is the tag guard, the missing
variables and the scope, `ConfirmApply` and `ConfirmProtected` the two questions,
`RunSync` an ordinary wired tool (its writes in one step, since `WiredInterfaces`
has the rest; to the devices in scope and, by `StackOf`, to the other members of
their Virtual Chassis, which `netbox/stacks.py:11` exempts from tag and role, and
`StaysInScope` with it). The subnet check is step by step: `Check` reads the
firewall and analyses, `ConfirmCreate`, `ChooseName`, `CreateAddress` or
`CreateFails` (refused, or done and the answer lost). `HangUp` is Ctrl-C or an end
of input at a prompt; `End` returns to the menu or to the shell; `SomebodyEdits` is
another administrator of the firewall, between any two steps of a check.
`CreatedOnce` counts the objects of this program only: the check is not repeated
before the POST, so somebody else's object of the same subnet, made
in between, is beside its own.

## Runs

| Run | Expect | Question | Bounds |
|---|---|---|---|
| `retry` | pass | no host is attempted after a refusal, no command goes out twice, the results and `failed_hosts` agree, "will retry" is true, it returns, the contract is kept | 2 hosts, 2 workers, 2 retries, 2 refused logins of a host, fair threads |
| `wired_run` | pass | what the status of a run promises | a stack of two hosts and a switch, three starting differences, any of them warned of |
| `wired_failure` | violation | CHANGED means nobody failed | the same, both steps |
| `stack_ports` | pass | where ports end up, plan and apply | the sites of `MCStackPorts` |
| `stack_pair` | violation | a host passed over is the same switch | two chassis named like members |
| `neighbor_cables` | pass | reported links are kept, plans are current, green is cabled | 2 APs, 2 switches, a panel, 97 cablings, 2 runs, 1 failed write or read, 1 change by a person |
| `neighbor_reported_twice` | violation | a plan sees NetBox as it now is | one AP port with two neighbors |
| `wireless_sync` | pass | green is in NetBox, interrupted work is resumed, plans come true | 9 reports of 1 or 2 devices, 48 states of NetBox, 2 or 3 runs with cables in sync, changed or an issue, 2 faults |
| `interface_vlans` | pass | the port's VLANs reach NetBox, nothing else is lost, runs follow from one another | VLANs 1 to 3, five NetBox VLANs, 7 records, 2 runs, 1 fault or edit, at any point |
| `device_type_import` | pass | green is imported, a failure costs its own file or template, plans come true | up to 3 files, one undecodable or without a slug, 3 runs, 2 faults |
| `front_door` | pass | nothing unasked, nothing out of scope, a true verdict, one object | 3 environments, a chassis half out of scope, addresses of 3 bits, 2 runs, 1 fault or edit |
| `subnet_exact_range` | violation | an object with the query's addresses is a match | the same, and one range |

Why the bounds are enough. In `ConnectRetry` hosts interact only through the pool
and the pass boundary: two hosts on two workers give a host at work while the other
fails, waits or is done, and a pass with one of them retried; two retries give a
first, a middle and a last decision; two refused logins (`MaxRefusals`) are one that
ends an attempt and one more within the same. That a host waits for a worker does
not happen there; the theorems cover every number of hosts, workers and retries. In
`WiredInterfaces` the interesting cases need a stack met a second time, with another
host's result in between: `<<a1, b1, a2>>`. The differences pair what must be
written in order ("port" with "optic", then "state") with what is independent
("type" with "state"). In `StackPorts` two members, one numbered port each, one
Port-Channel and one management port cover every branch of `Owner`, `StandIn` and
`match_scoped_interface`; a third device with a member's name gives the ambiguous
case, and a chassis of three a Port-Channel that two members have which neither the
route nor the master is.

In `NeighborCables` a re-pointed cable involves three ports and the neighbor of
one AP can be the port another AP's cable is freed from: two APs and two switches
with six ports in all have every such case. `Deleted`, shared and panel cables
are each there alone and beside a straight one; two APs cabled to each other, both
reporting it, are among the reports. In `WirelessSync` the devices of
a run share the addresses, the wireless LANs and the tag, so two of them suffice;
the three runs are one that is interrupted, one that takes it up and may be
interrupted too, and one after a green run. Reports in which two devices match
one NetBox device (one by serial, the other by name) are left out: see below.

In `InterfaceVlans` three numbers give a native VLAN, one tagged beside it and one
that is neither, and a range that is all of them; two of the numbers are on two
NetBox VLANs each, one told apart by scope and one by the SVI address alone, and
each VLAN that decides can be missing. One record has both VLANs of one number,
which takes two runs to settle. In `DeviceTypeImport` the files share a
manufacturer, port names or a slug, one refers to a port it lacks, one is broken;
two mishaps give one run that is interrupted and a second interrupted while it takes
up the first. In `FrontDoor` three bits give every relation of two ranges, at both
boundaries, with networks wide enough to be broad and a range that ends with the
address space; groups nest and loop. A second run follows another, in the hub, in
the same or another environment.

Deadlock is not checked, since every model ends when the runs it models do.

`retry` assumes weak fairness of each thread's steps and of the main thread: the
operating system schedules every thread, Netmiko's connect and read timeouts end
every wait, and a task sends finitely many commands. Nothing assumes that a
connection ever succeeds. The other modules state no fairness: each is one
sequential program whose steps the caller waits for, and what it must come to is
stated of the end of a run.

The state machines define their `TypeOK`. Only that of `ConnectRetry` is in a run;
those of the other modules with proofs are part of their inductive invariants,
except in `WirelessSync`, whose `TypeOK` is in no run and not proved; it is meant
for whoever changes the module.

## Findings

The violation runs show where the code departs from what a comment or a doc
says (`PROJECT.json`, "findings"):

- `wired_failure`: the sync step's `_result` can fall through to CHANGED with
  failed hosts.
- `stack_pair`: the key of a name-based stack is the base name even for two
  switches that refused each other as members.
- `neighbor_reported_twice`: `record_cable` leaves the traced path of an interface
  as it was, and a second neighbor of the same port is called in sync by it.
- `subnet_exact_range`: a range object with exactly the addresses of a broad query
  is a supernet, so the subnet is reported free.

Further ones, each with a configuration that shows it and that is not among the
regular runs:

- `MCWiredInterfacesProgress.cfg`, `PartialMeansProgress`: a run in which no host
  was read ends PARTIAL, not ERROR, when the create step's failures were refused
  logins or failed commands: `failed_hosts` keeps them out of the sync step, which
  is OK over nothing.
- `MCStackPortsLookup.cfg`, `WritesAtHome`: the swallowed lookup in `_named_like`
  also decides who owns a port.
- `MCStackPortsManagement.cfg`, `CompleteAfterApply`: the steps differ on where the
  management port of a chassis belongs.
- `MCInterfaceVlansTwice.cfg`, `NoVlanTwice`: when another VLAN of a trunk does not
  resolve, `desired_netbox_state` preserves the tagged list
  (`sync/engine.py:1684`), the new untagged VLAN in it included, and asks NetBox
  for one VLAN both tagged and untagged, which `sync/engine.py:859` calls
  impossible.
- `MCConnectRetryRefusals.cfg`, `LoginRefusedOnce`: a refused login is kept out of
  the retries because "repeating a wrong password risks locking the account"
  (`retry.py:19`), but within one attempt `run_first_supported` goes on to its next
  command and logs in again (`health/collect.py:152`).
- `MCWiredInterfacesWarned.cfg`, `OKMeansInSync`: a run is OK, "in sync / nothing to
  do" (`result.py:21`), with a port that differs: a trunk one of whose VLANs does not
  resolve is a warning (`sync/engine.py:1684`, `sync_interfaces.py:252`), a type or
  optic left out of the plan a warning or a note (`create_interfaces.py:314`,
  `:580`, `:607`).
- `MCInterfaceVlansNative.cfg`, `NativeTaggedIsTagged`: a tagged native VLAN "must
  never be sent as NetBox untagged_vlan" (`sync/engine.py:821`), but that of a trunk
  which is in the table of the trunks only is (`sync/engine.py:875`).
- `MCDeviceTypeImportText.cfg`, `BadFileStopsNothing`: "one file that can't be read
  or created is reported and the rest still run" (`import_device_type.py:35`), but
  a file that is not UTF-8 raises `UnicodeDecodeError`, caught neither where it is
  loaded (`:93`) nor in the folder's loop (`:407`).
- `MCWirelessSyncAddress.cfg`, `GreenMeansAddressed`: green is "everything the
  network reported is in NetBox" (`tools/wireless/sync.py:95`), but the address of a
  WLC is written only by the run that makes the WLC (`:55`, `:650`): if that write
  failed, later runs are green without it.
- `MCWirelessSyncPorts.cfg`, `PortsResumeToo`: an AP without wired interfaces gets
  the reported ones "so its cables have somewhere to land"
  (`netbox/bridging.py:71`), but after one of two failed it never gets the other
  (`:83`), and every run is PARTIAL.

Met while modelling, without a run:

- When two reported devices match one NetBox device, by serial and by name, the
  second gives it its own serial; the run is green though the first is in NetBox
  no longer.
- A POST to the firewall whose answer is lost (`firewall/fortigate.py:183`) is
  reported as "no address object was created" (`tools/security/subnet_check.py:361`);
  the next check finds the object, which is why `CreatedOnce` holds.
- Two runs can be needed for one port. An interface has both VLANs of one number,
  one tagged and one untagged; the first run cannot tell which is meant, warns and
  keeps the tagged list (`sync/engine.py:1684`), but sets another untagged VLAN.
  The next run finds only one of them on the interface, prefers it, has nothing to
  warn of and drops what had only been kept.
- That incomplete source data cannot remove anything holds of the VLANs the run
  knows. One that somebody made after the VLAN list was read, and put on the
  interface untagged before it was read, is replaced.
- An import whose device type exists and all of whose templates are refused ends
  PARTIAL, though nothing was created (`tools/netbox/import_device_type.py:329`).

## Proofs

Eight modules hold theorems, each about one component, for every value of its
constants: any inventory, folder, report, role tree, set of VLANs, and any number
of runs, failures and edits. Each proves `Spec => []IInv` from an inductive
invariant `IInv` and takes the properties of the runs from it. The invariants the
runs check are seldom inductive alone; what was added to each is below.

**`ConnectRetryProofs`**: for every finite set of hosts, every number of workers
above zero and every integer `connect_retries`, `TypeCorrect`,
`NeverRetriedAfterRefusal`, `NeverCommandedTwice`, `FailedHostsFollowResults` (what
`retry` checks for safety), `PoolBounded` (never more progress bars than workers)
and `Refinement`: `Spec => KeepsContract`. `IInv` adds: a host stands in one place
at a time, and only while a pass runs (`Places`); the number of the pass counts the
attempts of the hosts it covers (`Counting`); the first pass covers `runOn`, and
nothing has a result before it ends (`FirstPass`); commands went out only where a
session is open, and such a host is not tried again (`Commands`); a refusal shows in
the result the next attempt would need (`Refusals`); `failed_hosts` is what it has
to be before, during and after a pass (`FailedSet`). The refinement takes the same
invariant to show that each step is a step of `AttemptContract` or a stutter.

**`WiredInterfacesProofs`**: `TypeCorrect`, `WritesReported`, `UncheckedReported`,
`OKHidesNoDifference`, `CleanApplyIsComplete` and the action property
`FailedLeftAlone`: all that `wired_run` checks. What a status at the end promises is
known only from what each stage did, so `IInv` follows the run: which results were
read and through whom each host's ports (`HostsRead`, `Covering`); what is planned,
written and failed of each device, short of what the run warned of (`Planning`);
that nothing fails while nothing goes wrong (`Unharmed`); what the create step's
status says of the hosts the sync step will reach, for instance that a failed host
is covered by one of its stack that is still readable (`CreateDone`); what the sync
step has made of the results so far (`Synced`). Assumed: the inventory lists hosts
that are devices of NetBox, each once; a stack that two devices share is a stack; no
host is called "no host".

**`StackPortsProofs`**: all six properties `stack_ports` checks, for every fleet and
any interfaces beforehand. The lemmas about `SwitchStacks` come first: whatever
way a stack is resolved, no device is two members and the connected device is no
member but its own (`RouteIsSound`). `PortsKeepApart` needs nothing more: a port
found under the template's name is never mistaken for the port of member 1 that
has this name. The rest is about runs, and `IInv` grows with it: each key is
handled through one host per step (`Handled`); a plan is what its device still
lacks until it is applied (`Planned`), and is passed on in full (`Foretold`); as
long as no write fails, devices whose plan was applied lack nothing (`Filled`),
stacks that were handled carry the state of their ports and nothing else
(`Settled`), and what was created is still its port's when the sync step comes to
it (`Written`). From the last three follows `ApplyIsComplete`.

What these theorems assume of a fleet, each by name and only where it is needed,
and what goes wrong without it:

| Promise | Theorems | Without it |
|---|---|---|
| `KeysArePlanes`: one key per physical switch | `PassedOverRight`, `ApplyIsComplete` | `stack_pair`: two switches named like members are one |
| `StacksApart`: two stacks are one or share no device | `PortChannelStaysOne`, `WritesStayHome`, `PlansAreQuiet`, `ApplyIsComplete` | a device would be in two plans |
| `RoutesAgree`: two routes into a stack report the same and find the same members | `PlansAreQuiet`, `ApplyIsComplete` | the steps may take different routes, and the second miss what the first did |
| `PlainAtAnchor`: a port without a member is reported through the device it is filed under | `ApplyIsComplete` | `MCStackPortsManagement.cfg` |
| `MembersAreHome`: the device a port is filed under or looked for on is the one it is on | `WritesStayHome` | `MCStackPortsLookup.cfg` |

All sites of `stack_ports` keep all of them, which TLC evaluates
(`PromisesAssumption`). `MembersAreHome` speaks of `Owner` and `StandIn`; that both
steps write nowhere else, by template names, copies on other members or the search
for a Port-Channel, is the theorem.

**`InterfaceVlansProofs`**: `QuietCarried`, `MetadataWritten`, `NextFollows`,
`CarriedKept`, `CollectedCarried` and `TypeCorrect`: all that `interface_vlans`
checks. The lemmas come first, about `ResolveVlan` over any finite set of VLANs: a
number resolves to one of its own VLANs or not at all (`Resolved`); it resolves to
the same one again when the interface prefers that one (`StaysResolved`, `Settles`);
when nothing was left out what is asked for has exactly the port's numbers
(`NumbersExact`), and in any case keeps those the interface had (`NumbersKept`);
asked again over its own outcome, a run can still tell all it could tell
(`AsksAgain`). `IInv` is `VlansKept` (what was written is still there short of
another's edit, and what could not be told shows in the report), `MetadataKept`, and
`Undisturbed`: while nothing has failed and nobody edited, the report and the record
at each point of a run are those of a function of the record it read (`Reported`,
`Written`), and that function applied to what it wrote gives what `NextRunFollows`
says. `CollectedCarried` is about the parsers. The running configuration of a
Port-Channel is read line by line by a recursive function, and what it has read
after each line of a list of any length is an induction over the lines (the least
number principle again); then each way a port can be seen, in the table of the
switchports, of the trunks, of the VLANs or only by itself, gives the state the port
carries. Assumed: VLANs are finitely many, ids are unique and at least 1, numbers
are between 1 and `TopVid`; records have their five fields; a port is what the
switch can describe (`IsPort`): a trunk of all VLANs is printed as the whole range.
`CollectedCarried` is about the ports `ToldInFull`, as `CollectedIsCarried` is.

**`DeviceTypeImportProofs`**: `ReferencesOwn`, `FailureStays`, `GreenComplete`,
`RunsAlike` and `TypeCorrect`: all that `device_type_import` checks. `IInv` adds
that a template's id is a device type, category and name (`Recorded`), that no file
with an earlier file's slug is imported (`Slugs`), that the known names are NetBox's
unless a request failed (`Names`), that items are taken in the order of the
categories (`Ordered`: the lemma `LeastNumber`, the least number principle, stands
for the induction), what is settled of the items taken and of the files behind the
run, short of the templates whose own requests failed (`Kept`), what a plan has
noticed (`Shown`), and that a clean file is there (`Clean`, `Ended`). `RunsAlike`
compares whole runs. While nothing has gone wrong (`Undisturbed`), what a run has
listed so far and what it still owes add up to one set, which depends on the folder
and on NetBox before the run (`Adding`); the manufacturers a run has planned or made
are those the files behind it need (`Making`); and a file passed over is no
candidate of any run (`Skipping`). So a plan ends with what it owed, the apply after
it owes the same, and a run after that nothing. It is about folders whose files name
each component once. Assumed: of a file nothing is read but the known categories,
and only power outlets and front ports refer to another template
(`tools/netbox/import_device_type.py:61`); NetBox's own templates refer within their
device type.

**`NeighborCablesProofs`**: `LinksKept` (the action property `KeepsReportedLinks`),
`PlansCurrent`, `GreenIsCabled`, `GreenIsFinal` and `TypeCorrect`: all that
`neighbor_cables` checks. The lemmas say when a row is left alone, from whatever
records (`PlanFollows`), that a cable is re-pointed only if it runs straight from
one interface to one (`Repointed`), and what an accepted write does to NetBox: it
joins two ports, frees at most one other, and leaves the cable, the peers and the
path of every other port as they were (`JoinedByWrite`, `TakenByWrite`,
`KeptByWrite`, `PathKeptByWrite`), because a cable that runs straight is part of no
path through a patch panel. So a reported link is either the one written or none of
its ports is (`LinksAfterWrite`), which carries all four. `IInv` is NetBox's own
rules (`Wired`) and that a planned re-pointing still means the cable it was planned
on, unless a person deleted it (`Planning`). `Current` adds that the records in
memory are exact while nobody else wrote and no answer of the run was lost, but for
the traced path of two ports the run itself has put on one cable, which
`plan_neighbor_cable` does not then ask for; `Settled`, that every row worked
through is in NetBox or noted, and that what was noted stays no business of the
tool's when another row's write takes a port's cable; `Repeated`, that after a green
run no link needs a write, so the next plans none and ends OK, unless a read ends
it. The hypothesis of the four, `OnePerPort`, is that no port is in the rows of two
links: without it `PlanIsCurrent` fails, as `neighbor_reported_twice` shows; TLC
evaluates it on the reports of both configurations. Assumed: a row is a port of the
AP and one of another device; NetBox has finitely many terminations, keeps one cable
on each and the terminations of a side on one device.

**`WirelessSyncProofs`**: `PrimaryOwn`, `ResumesByItself`, the action property
`UplinksKept`, `GreenInNetBox` and `PlanComesTrue`: all that `wireless_sync` checks.
The heart of `IInv` is `Queued`: the writes that are left of a stage find what they
need, because NetBox has it or an earlier write of the queue makes it (`Ready`), and
make nothing that is there already; a failure cuts the queue where the rest depended
on it, so that what remains is still ready. From it follow that no step takes a port
off its bridge, and that nothing of an interrupted run makes the next one stumble
but a device that was given one port of two (`stunted`). `GreenInNetBox`, which
excepts what `Noted` does and of the addresses promises those of APs and of WLCs the
run made, adds an invariant of what a run that may still end green (`Clean`) has
done: each reported device keeps NetBox records of its own (`Matched`); what is not
right yet of the device at hand is in the queue, a write for each serial, field,
port, address and radio, or for the bond a port is a member of (`Underway`); and the
devices behind the run are what was reported of them (`Behind`), which no later
write undoes, since it goes to another device's record and to no address but a free
one or its own. Each stage has a lemma that its writes are all that is missing
(`IdentityComing`, `BridgeComing`, `IpComing`), and each write one that what it
leaves is still to come (`IdentifiedAfter`, `BridgingAfter`, `AddressingAfter`,
`TuningAfter`). `PlanComesTrue` says that the apply after a plan ends as the plan
did, CHANGED for DRIFT, if nothing fails, the cables come to the same in both and no
two devices report one address. A status is made of three things, so three sums are
kept (`Sums`): the failures so far and those to come of the devices not handled yet
are those of the whole report (`FailsLeft`, `FailsAll`); the same of the issues
(`IssuesLeft`, `IssuesAll`), and of the changes made, queued and to come
(`ChangesLeft`, `ChangesAll`). During the plan the sums are the verdict on the
report as NetBox has it (`Verdict`); each stage has a lemma that what it enqueues
and finds is what was to come of it (`IdentityTells`, `BridgeTells`, `IpTells`,
`RadiosTell`). A plan writes nothing, so the apply starts from the same verdict;
from then on every write moves a change from what is queued to what is made, and
alters what is to come of no other device (`WriteTells`). `FInv` is that invariant.
It needs that the device at hand stays the one that was matched and that a device
just created has no address (`Here`, `Placed`).

The hypothesis of `GreenInNetBox` and `PlanComesTrue` is `OnePerDevice`: of two
reported devices that are one record, the second writes its serial over the first's
and the run is green all the same (`sync.py:581`). Assumed: a report has finitely
many SSIDs; NetBox links interfaces only within a device, takes for a primary IP
only one that is on an interface of the device, and has no interface of a device it
does not have.

**`FrontDoorProofs`**: `NeverUnasked`, `NeverOutOfScope`, `NeverCreatedTwice` and
`VerdictRight`: all that `front_door` checks. `RoleScope` walks up and down the role
tree in as many steps as there are roles. The lemmas show, by induction over the
numbers (again as the least number principle), that both walks mean a chain of
parents (`IsWithinIsReaching`, `BranchReachesRoot`), that a chain need not be longer
than the tree (`ShortPath`) and that chains compose, for every tree, cycles
included. The answers given and the tag guard are part of the first invariant
(`Asking`, `Guarded`). `NeverOutOfScope` follows a written device to a member of its
Virtual Chassis that is in scope. `NeverCreatedTwice` has an invariant of its own
(`Firewalls`: at most one object of this program on each firewall, of just the
query's range, and none while a run is about to create one), and needs that an
object the program made is a match of the next check (`ExactIsFound`), for every
width of the addresses. Its hypothesis is that no query is for the whole address
space: an object of every address counts as a note only (`firewall/usage.py:239`),
and a second check of `/0` would offer a second object. `VerdictRight` compares the
report with sets of addresses. A network has two to the free bits of its prefix
many, which `Size` counts by doubling, so that it can be shown that a larger block
is a whole number of smaller ones and hence that two blocks are one in the other or
apart; that gives each of the five relations its meaning as intervals. The walk
through the groups of the code, which visits each name once, is the set of names
that a chain of groups reaches, cycles included. The invariant is `VInv`: the
objects, ranges and groups are ones the tool can read (`Reading`), and a report
still on the screen is that of the firewall it was made of (`Telling`). Its
hypothesis is `NoTwins`, that no range has just the addresses of a broad query: that
is the finding of `subnet_exact_range`. Assumed: every environment names its
branches (`environments.py:81`, `:237`); a role's parent is a role NetBox returned
or none; device ids are unique; the query's host bits are cleared
(`firewall/usage.py:211`) and its length is one of the family (`IsQuery`); objects
have addresses of their family (`IsObject`), and none is the program's at first.

Only model-checked, and why: the two liveness properties of `retry`, `Returns` (a
call comes back) and `WillRetryIsKept` (a host said to be retried is
tried again): fairness and ENABLED are out of the prover's
reach. Every other property of a run that passes is a theorem. The disagreements of
the four runs that find a violation are counterexamples; TLC alone shows them.

## Not modelled

Regular expressions over show output and HTTP answers, spelling of interface
names, media and type tables, workbooks, redaction, terminal and JSON output,
settings files: they transform data without shared state, and their unit tests
reach them. The same holds of the channel arithmetic of `radios.py`
(`rf_channel`), one operator without state or order. The pipelines
(`scripts/ci_plan.py`, `.github/workflows`): what they decide is which exit codes
let an apply go on, in YAML that the hosting service interprets; one hazard
there, an apply made on an older plan, is listed without a property. The
choice of sites and the notes of `wireless sync`, except of the radios they leave
out, and a second writer of NetBox while it runs, except of cables. A firewall
object that somebody else makes for the subnet between the check and the POST: it
can be made in the model, but no property counts it. The delay between passes.

The components that stay "partly": of the create step, the matching of
transceivers to inventory items; of the run context, region and site filters; of
the health and backup collectors everything but how they go on after a failed
command, since the rest is text and layout.

## Plan

What is left, in order of importance:

1. `NeighborCables` and `WirelessSync` composed: the cables of a run are an input of
   the second, and a device's ports one of the first.
2. Reports that match one NetBox device twice, as a run of its own.
3. Transceivers and inventory items in the create step.
4. The pipelines: exit codes, a plan and an apply of two branches.
