----------------------------- MODULE FrontDoor -----------------------------
(***************************************************************************)
(* The two ways into bunnyauto, the menus of the hub (hub.py) and the      *)
(* command line (cli.py), and what stands between them and a write: the    *)
(* tag guard and the variables a run needs (context.py, preflight.py), the *)
(* operator's yes and the typed name of a protected environment, and the   *)
(* role branch.  Two kinds of writing tool go through it: an ordinary one  *)
(* of the wired category, and `security subnet-check`, which asks only     *)
(* when it knows that a subnet is free (tools/security/subnet_check.py),   *)
(* while another administrator is at the firewall and requests fail.       *)
(***************************************************************************)
EXTENDS SubnetUsage, RoleScope

CONSTANTS
    Environments,   \* by name: [tag, protected, branch, vars]
    Tree,           \* NetBox's roles
    Devices,        \* [id, tag, role, chassis]
    Tags, Roles,    \* what --tag and --role may be given
    Names,          \* names for the new object, Default among them
    Default,        \* the subnet itself, as text
    Inputs,         \* pairs: what the firewalls hold at first, the query
    Others,         \* objects another administrator may add
    MaxMishaps,     \* bound: failed requests, acts of the administrator
    MaxRuns         \* bound: runs of a tool

\* Every environment names the branch of each category, by default or not.
ASSUME EnvironmentsAssumption ==
    \A e \in DOMAIN Environments : Environments[e].branch # NoRole
\* The parent of a role is a role that NetBox returned with it, or none.
ASSUME TreeAssumption ==
    /\ IsFiniteSet(DOMAIN Tree) /\ NoRole \notin DOMAIN Tree
    /\ \A r \in DOMAIN Tree : Tree[r] \in DOMAIN Tree \cup {NoRole}
ASSUME DevicesAssumption == \A d, e \in Devices : d.id = e.id => d = e
\* No object is there for the query yet, and its host bits are cleared.
ASSUME InputsAssumption ==
    \A input \in Inputs :
        /\ DOMAIN input[1] = {"objects", "groups", "policy", "security", "ifaces"}
        /\ \A o \in input[1].objects : IsObject(o) /\ o.ours = FALSE
        /\ IsFiniteSet(DOMAIN input[1].groups)
        /\ IsQuery(input[2])
ASSUME OthersAssumption == \A o \in Others : IsObject(o) /\ o.ours = FALSE

Gone == "gone"
NoEnv == "no environment"
NoName == "no name"
NoTag == "no tag"
NoChassis == "no chassis"
NoReport == [present |-> FALSE, attached |-> FALSE, exact |-> FALSE, notes |-> << >>]
NoOptions == [ apply |-> FALSE, yes |-> FALSE, asks |-> FALSE, tag |-> NoTag,
               force |-> FALSE, role |-> NoRole, name |-> NoName ]

VARIABLES
    entry,      \* "hub" or "cli"
    at,         \* the hub's menu; at the command line, the shell
    env, tool, opts,
    pc,
    given,      \* what the operator said in this run: "yes", "name typed"
    fw,         \* the firewall of each environment
    query,
    seen,       \* what the check read of the firewall
    report,     \* UsageReport
    name,       \* of the object to create
    written,    \* ids of the devices and objects this run wrote
    status, mishaps, run

vars == <<entry, at, env, tool, opts, pc, given, fw, query, seen, report, name,
          written, status, mishaps, run>>
World == <<entry, query>>
Choice == <<at, env, tool, opts>>

Confirms(t) == t = "check"
E == Environments[env]
Interactive == opts.asks /\ ~opts.yes
NoFirewall == [objects |-> {}, groups |-> << >>, policy |-> {}, security |-> {},
               ifaces |-> {}]

Init ==
    /\ entry \in {"hub", "cli"}
    /\ at = (IF entry = "hub" THEN "network" ELSE "shell")
    /\ env = NoEnv /\ tool = "none" /\ opts = NoOptions /\ pc = "menu"
    /\ \E input \in Inputs :
          fw = [e \in DOMAIN Environments |-> input[1]] /\ query = input[2]
    /\ given = {} /\ seen = NoFirewall /\ report = NoReport /\ name = NoName
    /\ written = {} /\ status = "none" /\ mishaps = 0 /\ run = 0

-----------------------------------------------------------------------------
(* The hub's menus, and the start of a run.                                *)

Menu(place) ==
    /\ pc = "menu" /\ at = place
    /\ UNCHANGED <<opts, pc, given, fw, seen, report, name, written, status,
                   mishaps, run>> /\ UNCHANGED World

ChooseNetwork ==
    /\ Menu("network")
    /\ env' \in DOMAIN Environments /\ at' = "area" /\ UNCHANGED tool

ChooseArea ==
    /\ Menu("area")
    /\ tool' \in {"sync", "check"} /\ at' = "tool" /\ UNCHANGED env

Back ==
    \/ Menu("area") /\ at' = "network" /\ env' = NoEnv /\ UNCHANGED tool
    \/ Menu("tool") /\ at' = "area" /\ tool' = "none" /\ UNCHANGED env

\* "q", or the end of the input.
Quit ==
    \E place \in {"network", "area", "tool"} :
        Menu(place) /\ at' = Gone /\ UNCHANGED <<env, tool>>

Started ==
    /\ pc = "menu" /\ run < MaxRuns /\ run' = run + 1 /\ pc' = "build"
    /\ UNCHANGED <<at, given, fw, seen, report, name, written, status, mishaps>>
    /\ UNCHANGED World

\* The hub asks for --apply, unless the tool asks for itself; the tag may be
\* set in the shell.  It never passes --yes.
PromptForArgs ==
    /\ at = "tool" /\ Started
    /\ \E apply \in (IF Confirms(tool) THEN {TRUE} ELSE BOOLEAN),
          tag \in (IF tool = "sync" THEN Tags ELSE {NoTag}) :
          opts' = [NoOptions EXCEPT !.apply = apply, !.asks = TRUE, !.tag = tag]
    /\ UNCHANGED <<env, tool>>

\* Nobody is asked with --json, nor without a terminal.
ParseArguments ==
    /\ at = "shell" /\ Started
    /\ env' \in DOMAIN Environments
    /\ tool' \in {"sync", "check"}
    /\ \E apply, yes, asks, force \in BOOLEAN, tag \in Tags, role \in Roles,
          given_name \in {NoName, Default} :
          /\ tool' = "check" => tag = NoTag /\ role = NoRole /\ ~force
          /\ tool' = "sync" => given_name = NoName /\ ~asks
          /\ opts' = [ apply |-> apply, yes |-> yes, asks |-> asks, tag |-> tag,
                       force |-> force, role |-> role, name |-> given_name ]

-----------------------------------------------------------------------------
(* build_context, and the hub's question.                                  *)

Goes(to) ==
    /\ pc' = to
    /\ UNCHANGED <<mishaps, run>> /\ UNCHANGED World /\ UNCHANGED Choice

Fails == Goes("end") /\ status' = "error"

Tag == IF opts.tag = NoTag THEN E.tag ELSE opts.tag
BranchRole == IF tool = "sync" THEN E.branch ELSE NoRole
Needs == IF tool = "sync" THEN {"login", "netbox token"} ELSE {}
Buildable ==
    /\ Tag = E.tag \/ opts.force
    /\ Needs \subseteq E.vars
    /\ opts.role # NoRole => BranchRole # NoRole

BuildContext ==
    /\ pc = "build"
    /\ \/ /\ Buildable /\ UNCHANGED status
          /\ Goes(IF entry = "hub" /\ opts.apply /\ ~Confirms(tool)
                  THEN "confirm" ELSE "run")
       \/ ~Buildable /\ Fails
    /\ UNCHANGED <<given, fw, seen, report, name, written>>

\* The name of a protected environment typed out, a yes elsewhere.
ConfirmApply ==
    /\ pc = "confirm"
    /\ \/ /\ given' = given \cup (IF E.protected THEN {"yes", "name typed"} ELSE {"yes"})
          /\ Goes("run")
       \/ Goes("end") /\ UNCHANGED given
    /\ UNCHANGED <<fw, seen, report, name, written, status>>

\* A switch and, of a Virtual Chassis, the other members: part of the switch
\* even without its tag or a role in the branch (_from_virtual_chassis).
StackOf(d) == {e \in Devices : e = d \/ (e.chassis # NoChassis /\ e.chassis = d.chassis)}

\* An ordinary tool writes what it can of the devices in its scope and of the
\* switches they are members of.
RunSync ==
    /\ pc = "run" /\ tool = "sync"
    /\ LET role == ResolveScope(Tree, BranchRole, opts.role) IN
       IF role = Unresolved THEN Fails /\ UNCHANGED written
       ELSE /\ LET targets == Targets(Devices, Tree, Tag, role)
                   stacks == UNION {StackOf(d) : d \in targets} IN
               written' \in (IF opts.apply THEN SUBSET {d.id : d \in stacks} ELSE {{}})
            /\ status' = (IF written' = {} THEN "ok" ELSE "changed")
            /\ Goes("end")
    /\ UNCHANGED <<given, fw, seen, report, name>>

-----------------------------------------------------------------------------
(* security subnet-check: read, analyze, ask, create.                      *)

\* An --apply that nobody can confirm stops before the firewall is asked.
Admitted == "firewall token" \in E.vars /\ (opts.apply => opts.yes \/ opts.asks)

Refuse ==
    /\ pc = "run" /\ tool = "check" /\ ~Admitted
    /\ Fails
    /\ UNCHANGED <<given, fw, seen, report, name, written>>

Check ==
    /\ pc = "run" /\ tool = "check" /\ Admitted
    /\ seen' = fw[env]
    /\ report' = Analyze(query, seen')
    /\ status' = (IF report'.present THEN "drift" ELSE "ok")
    /\ Goes(IF report'.present \/ ~opts.apply THEN "end" ELSE "offer")
    /\ UNCHANGED <<given, fw, name, written>>

ReadFails ==
    /\ pc = "run" /\ tool = "check" /\ Admitted /\ mishaps < MaxMishaps
    /\ mishaps' = mishaps + 1
    /\ pc' = "end" /\ status' = "error"
    /\ UNCHANGED <<given, fw, seen, report, name, written, run>>
    /\ UNCHANGED World /\ UNCHANGED Choice

\* --yes answers; otherwise somebody is there to ask.
ConfirmCreate ==
    /\ pc = "offer"
    /\ \/ opts.yes /\ Goes("name") /\ UNCHANGED given
       \/ ~opts.yes /\ Goes("name") /\ given' = given \cup {"yes"}
       \/ ~opts.yes /\ Goes("end") /\ UNCHANGED given
    /\ name' = IF opts.name # NoName \/ ~Interactive THEN Default ELSE NoName
    /\ UNCHANGED <<fw, seen, report, written, status>>

Taken == {o.name : o \in seen.objects} \cup DOMAIN seen.groups

\* Asked until the name is free, in what was read before the question; an
\* empty answer to the second question cancels.
ChooseName ==
    /\ pc = "name"
    /\ \/ /\ name = NoName \/ (name \in Taken /\ Interactive)
          /\ name' \in Names /\ Goes("name") /\ UNCHANGED status
       \/ /\ name \in Taken
          /\ status' = (IF Interactive THEN status ELSE "error")
          /\ Goes("end") /\ UNCHANGED name
       \/ /\ name \notin Taken \cup {NoName}
          /\ Goes("typed") /\ UNCHANGED <<name, status>>
    /\ UNCHANGED <<given, fw, seen, report, written>>

\* Mutant of ConfirmProtected: the yes that was given is enough.
ConfirmProtectedOnce ==
    /\ pc = "typed"
    /\ Goes("post")
    /\ UNCHANGED <<given, fw, seen, report, name, written, status>>

ConfirmProtected ==
    /\ pc = "typed"
    /\ IF ~E.protected \/ opts.yes THEN Goes("post") /\ UNCHANGED given
       ELSE \/ Goes("post") /\ given' = given \cup {"name typed"}
            \/ Goes("end") /\ UNCHANGED given
    /\ UNCHANGED <<fw, seen, report, name, written, status>>

\* The input ends, or Ctrl-C, at a question.
HangUp ==
    /\ pc \in {"confirm", "offer", "name", "typed"} /\ opts.asks /\ ~opts.yes
    /\ Fails
    /\ UNCHANGED <<given, fw, seen, report, name, written>>

NewObject == [ name |-> name, kind |-> "net", fam |-> query.fam, lo |-> query.lo,
               len |-> query.len, hi |-> 0, ours |-> TRUE ]
NamesOn(e) == {o.name : o \in fw[e].objects} \cup DOMAIN fw[e].groups
Created == [fw EXCEPT ![env].objects = @ \cup {NewObject}]

CreateAddress ==
    /\ pc = "post" /\ name \notin NamesOn(env)
    /\ fw' = Created
    /\ written' = {NewObject.name}
    /\ status' = "changed" /\ Goes("end")
    /\ UNCHANGED <<given, seen, report, name>>

\* Refused, or unanswered, which does not say whether it was carried out.
CreateFails ==
    /\ pc = "post"
    /\ \/ name \in NamesOn(env) /\ UNCHANGED <<fw, written, mishaps>>
       \/ /\ mishaps < MaxMishaps /\ mishaps' = mishaps + 1
          /\ \/ UNCHANGED <<fw, written>>
             \/ name \notin NamesOn(env) /\ fw' = Created /\ written' = {NewObject.name}
    /\ pc' = "end" /\ status' = "error"
    /\ UNCHANGED <<given, seen, report, name, run>>
    /\ UNCHANGED World /\ UNCHANGED Choice

\* The hub is back at its menu whatever happened; the command line exits.
End ==
    /\ pc = "end" /\ pc' = "menu"
    /\ given' = {} /\ written' = {} /\ opts' = NoOptions /\ status' = "none"
    /\ seen' = NoFirewall /\ report' = NoReport /\ name' = NoName
    /\ IF entry = "hub" THEN UNCHANGED <<env, tool>> ELSE env' = NoEnv /\ tool' = "none"
    /\ UNCHANGED <<at, fw, mishaps, run>> /\ UNCHANGED World

\* Another administrator of the firewalls.
SomebodyEdits ==
    /\ mishaps < MaxMishaps /\ mishaps' = mishaps + 1
    /\ pc \notin {"menu", "end"} /\ tool = "check"
    /\ \/ \E o \in Others : /\ o.name \notin NamesOn(env)
                            /\ fw' = [fw EXCEPT ![env].objects = @ \cup {o}]
       \/ \E o \in fw[env].objects : fw' = [fw EXCEPT ![env].objects = @ \ {o}]
    /\ UNCHANGED <<pc, given, seen, report, name, written, status, run>>
    /\ UNCHANGED World /\ UNCHANGED Choice

Next ==
    \/ ChooseNetwork \/ ChooseArea \/ Back \/ Quit
    \/ PromptForArgs \/ ParseArguments \/ BuildContext \/ ConfirmApply \/ RunSync
    \/ Refuse \/ Check \/ ReadFails \/ ConfirmCreate \/ ChooseName
    \/ ConfirmProtected \/ HangUp \/ CreateAddress \/ CreateFails \/ End
    \/ SomebodyEdits

Spec == Init /\ [][Next]_vars

-----------------------------------------------------------------------------
TypeOK ==
    /\ at \in {"network", "area", "tool", "shell", Gone}
    /\ pc \in {"menu", "build", "confirm", "run", "offer", "name", "typed",
               "post", "end"}
    /\ env \in DOMAIN Environments \cup {NoEnv}
    /\ given \subseteq {"yes", "name typed"}
    /\ status \in {"none", "ok", "drift", "changed", "error"}

(* Nothing is written that this run's operator did not ask for: only with  *)
(* --apply; from the hub and for an address object only after a yes in     *)
(* this run, in a protected environment with its name typed out, or with   *)
(* --yes, which the hub never passes (hub.py, context.py).                 *)
NothingUnasked ==
    written # {} =>
        /\ opts.apply
        /\ entry = "hub" => ~opts.yes
        /\ \/ opts.yes
           \/ entry = "cli" /\ tool = "sync"
           \/ "yes" \in given /\ (E.protected => "name typed" \in given)

(* A device is a run's own: of the environment's tag, or one forced, and   *)
(* its roles lead up to the category's branch and to --role.               *)
InScope(d) ==
    /\ d.tag = E.tag \/ opts.force
    /\ IsWithin(Tree, d.role, E.branch)
    /\ opts.role # NoRole => IsWithin(Tree, d.role, opts.role)

(* A wired tool never touches another category's devices, nor those of     *)
(* another environment, whatever --role and --tag say (resolve_scope,      *)
(* build_context), with the one exception that netbox/stacks.py (lines     *)
(* 11-14) makes: members of a Virtual Chassis that has a switch in scope.  *)
StaysInScope ==
    tool = "sync" =>
        \A d \in Devices : d.id \in written => \E e \in StackOf(d) : InScope(e)

(* What the check says of the subnet is what the addresses say: it is      *)
(* present exactly when an object that is not as wide as a supernet holds  *)
(* one of its addresses, and in use exactly when a policy reaches such an  *)
(* object, by itself or through groups; notes never count (analyze).       *)
VerdictIsOverlap ==
    (tool = "check" /\ report # NoReport) =>
        LET hits == {o \in seen.objects : InTheWay(o, query)} IN
        /\ report.present <=> hits # {}
        /\ report.attached <=> \E o \in hits : Used(o, seen)
        /\ status = "changed" => hits = {}

(* However often a subnet is checked, one run after the other, and         *)
(* answers are lost, a firewall never has two objects that this program    *)
(* created for it.  (Another administrator's object of the same subnet,    *)
(* made after the check read the firewall, is not counted: the program     *)
(* does not look again before it creates, and the firewall refuses only a  *)
(* name it has.)                                                           *)
CreatedOnce ==
    \A e \in DOMAIN Environments : Cardinality({o \in fw[e].objects : o.ours}) <= 1

(* "an *exact* match on a broad object (you queried the ``/8`` itself)     *)
(* [is] left as [a] real match" (usage.py:48): a subnet whose addresses    *)
(* are those of an object is present.                                      *)
ExactIsPresent ==
    (tool = "check" /\ report # NoReport) =>
        ((\E o \in seen.objects : o.fam = query.fam /\ Addresses(o) = Queried(query))
            => report.present)
=============================================================================
