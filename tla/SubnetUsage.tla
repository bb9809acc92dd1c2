---------------------------- MODULE SubnetUsage ----------------------------
(***************************************************************************)
(* Is a subnet on the firewall, and does a policy use it?  The analysis of *)
(* firewall/usage.py as operators, over address families of Width bits.    *)
(*                                                                         *)
(* A firewall is a record of its address objects, its groups (a function   *)
(* from names to sets of member names), the names that the rows of its two *)
(* policy tables refer to, and the addresses of its interfaces.  An object *)
(* is [name, kind, fam, lo, len, hi]: a "net" has lo and len, a "range" lo *)
(* and hi, and any other kind no address space (a host name, a country).   *)
(***************************************************************************)
EXTENDS Integers, FiniteSets

CONSTANTS
    Width,          \* bits of an address (32 and 128)
    MinMatch        \* by family: MIN_MATCH_PREFIXLEN

ASSUME WidthAssumption ==
    Width \in Nat /\ \A fam \in DOMAIN MinMatch : MinMatch[fam] \in 0 .. Width

\* The addresses of a network: 2 to the bits that its prefix leaves.
Doubled[n \in 0 .. Width] == IF n = 0 THEN 1 ELSE 2 * Doubled[n - 1]
Size(len) == Doubled[Width - len]

\* Host bits are tolerated: the network is that of the address.
Network(n) == [fam |-> n.fam, lo |-> n.lo - (n.lo % Size(n.len)), len |-> n.len]

NetworkIsMatchAll(n) == n.len = 0
RangeIsMatchAll(r) == r.lo = 0 /\ r.hi = Size(0) - 1
IsBroad(n) == n.len < MinMatch[n.fam]
RangeIsBroad(r) == r.hi - r.lo + 1 > Size(MinMatch[r.fam])

Shorter(n, q) == IF n.len < q.len THEN n.len ELSE q.len
Apart(n, q) ==
    \/ n.fam # q.fam
    \/ n.lo \div Size(Shorter(n, q)) # q.lo \div Size(Shorter(n, q))

\* Mutant of NetworkRelation: a network of the query's own size is no match.
NetworkRelationStrict(n, q) ==
    CASE Apart(n, q) \/ n.len = q.len -> "none"
      [] ~Apart(n, q) /\ n.len < q.len -> "supernet"
      [] ~Apart(n, q) /\ n.len > q.len -> "subnet"

\* Of two networks one holds the other, or they are apart.
NetworkRelation(n, q) ==
    CASE Apart(n, q) -> "none"
      [] ~Apart(n, q) /\ n.len = q.len -> "exact"
      [] ~Apart(n, q) /\ n.len < q.len -> "supernet"
      [] ~Apart(n, q) /\ n.len > q.len -> "subnet"

Final(q) == q.lo + Size(q.len) - 1
Contains(r, q) == r.lo <= q.lo /\ r.hi >= Final(q)

\* Mutant of RangeRelation: a range that ends where the query begins is apart.
RangeRelationOffByOne(r, q) ==
    CASE r.fam # q.fam \/ r.hi <= q.lo \/ r.lo > Final(q) -> "none"
      [] r.fam = q.fam /\ r.hi > q.lo /\ r.lo <= Final(q) ->
            IF Contains(r, q) THEN "supernet" ELSE "overlap"

\* A range is never "exact": one as large as the query contains it.
RangeRelation(r, q) ==
    LET apart  == r.fam # q.fam \/ r.hi < q.lo \/ r.lo > Final(q)
        inside == r.lo >= q.lo /\ r.hi <= Final(q)
    IN  CASE apart -> "none"
          [] ~apart /\ Contains(r, q) -> "supernet"
          [] ~apart /\ ~Contains(r, q) /\ inside -> "subnet"
          [] ~apart /\ ~Contains(r, q) /\ ~inside -> "overlap"

\* The group and every group around it, to any depth, loops included.
GroupsContaining(name, groups) ==
    LET Around(names) == {g \in DOMAIN groups : groups[g] \cap names # {}}
        found[n \in 0 .. Cardinality(DOMAIN groups)] ==
            IF n = 0 THEN {} ELSE found[n - 1] \cup Around(found[n - 1] \cup {name})
    IN  found[Cardinality(DOMAIN groups)]

\* What parse_query and the parsers of an object's address space accept.  A
\* FortiGate refuses a range whose end is before its start.
IsQuery(q) ==
    /\ q.fam \in DOMAIN MinMatch /\ q.len \in 0 .. Width
    /\ q.lo \in 0 .. Size(0) - 1 /\ q.lo % Size(q.len) = 0
IsObject(o) ==
    /\ o.kind = "net" => o.lo \in 0 .. Size(0) - 1 /\ o.len \in 0 .. Width
    /\ o.kind = "range" => o.lo \in 0 .. Size(0) - 1 /\ o.hi \in o.lo .. Size(0) - 1

-----------------------------------------------------------------------------
(* analyze: each object with an address space that meets the query is a    *)
(* match, or it is noted only.                                             *)

Relation(o, q) ==
    CASE o.kind = "net" -> NetworkRelation(Network(o), q)
      [] o.kind = "range" -> RangeRelation(o, q)
      [] OTHER -> "none"

MatchAll(o, q) ==
    /\ o.fam = q.fam
    /\ \/ o.kind = "net" /\ NetworkIsMatchAll(Network(o))
       \/ o.kind = "range" /\ RangeIsMatchAll(o)

Broad(o, q) ==
    /\ Relation(o, q) = "supernet"
    /\ IF o.kind = "net" THEN IsBroad(Network(o)) ELSE RangeIsBroad(o)

Referenced(o, fw) ==
    ({o.name} \cup GroupsContaining(o.name, fw.groups))
        \cap (fw.policy \cup fw.security) # {}

\* An interface without an address has only zeros.
OnInterfaces(q, fw) ==
    {i \in fw.ifaces : i.lo # 0 /\ NetworkRelation(Network(i), q) # "none"}

Analyze(q, fw) ==
    LET related  == {o \in fw.objects : Relation(o, q) # "none"}
        catchAll == {o \in fw.objects : MatchAll(o, q)}
        broad    == {o \in related \ catchAll : Broad(o, q)}
        matches  == related \ (catchAll \cup broad)
    IN  [ present  |-> matches # {},
          attached |-> \E o \in matches : Referenced(o, fw),
          exact    |-> \E o \in matches : Relation(o, q) = "exact",
          notes    |-> <<catchAll, broad, OnInterfaces(q, fw)>> ]

-----------------------------------------------------------------------------
(* What it is to mean, by the addresses themselves.                        *)

Addresses(o) ==
    CASE o.kind = "net" ->
            {a \in 0 .. Size(0) - 1 : a \div Size(o.len) = o.lo \div Size(o.len)}
      [] o.kind = "range" -> o.lo .. o.hi
      [] OTHER -> {}
Queried(q) == {a \in 0 .. Size(0) - 1 : a \div Size(q.len) = q.lo \div Size(q.len)}

\* Wide: it holds the query, more than that, and more than an end-device
\* subnet; or it holds everything.
Wide(o, q) ==
    /\ Queried(q) \subseteq Addresses(o)
    /\ \/ /\ Queried(q) # Addresses(o)
          /\ Cardinality(Addresses(o)) > Size(MinMatch[q.fam])
       \/ Cardinality(Addresses(o)) = Size(0)

InTheWay(o, q) ==
    o.fam = q.fam /\ Addresses(o) \cap Queried(q) # {} /\ ~Wide(o, q)

\* Every set of groups closed under membership that starts at the object
\* holds a name that a policy refers to, or the object itself is one.
Used(o, fw) ==
    LET refs == fw.policy \cup fw.security
        Closed(gs) == \A g \in DOMAIN fw.groups :
                        fw.groups[g] \cap ({o.name} \cup gs) # {} => g \in gs
    IN  \A gs \in SUBSET DOMAIN fw.groups : Closed(gs) => ({o.name} \cup gs) \cap refs # {}
=============================================================================
