----------------------------- MODULE RoleScope -----------------------------
(***************************************************************************)
(* Which devices a run may touch (scope.py, netbox/roles.py): a role tree  *)
(* is a function from the role slugs of NetBox to their parents, NoRole    *)
(* for a root; slugs are without their case.                               *)
(***************************************************************************)
EXTENDS Naturals, FiniteSets

CONSTANT NoRole
Unresolved == "unresolved"

Find(tree, slug) == IF slug \in DOMAIN tree THEN slug ELSE NoRole

\* Up from the role to a root, with as many steps as there are roles.
IsWithin(tree, slug, root) ==
    LET up[n \in 0 .. Cardinality(DOMAIN tree)] ==
            IF n = 0 THEN Find(tree, slug)
            ELSE IF up[n - 1] = NoRole THEN NoRole ELSE tree[up[n - 1]]
    IN  Find(tree, root) # NoRole /\ \E n \in DOMAIN up : up[n] = root

\* Down from the role to every role beneath it.
Branch(tree, root) ==
    LET down[n \in 0 .. Cardinality(DOMAIN tree)] ==
            IF n = 0 THEN {root} \cap DOMAIN tree
            ELSE down[n - 1] \cup {r \in DOMAIN tree : tree[r] \in down[n - 1]}
    IN  down[Cardinality(DOMAIN tree)]

\* Mutant of ResolveScope: a role NetBox has is taken, wherever it is.
ResolveScopeAnywhere(tree, branch, role) ==
    IF branch = NoRole THEN NoRole
    ELSE IF \/ Find(tree, branch) = NoRole
            \/ role # NoRole /\ Find(tree, role) = NoRole
         THEN Unresolved
         ELSE IF role = NoRole THEN branch ELSE role

\* The role to filter by, NoRole for a tool that has no branch.
ResolveScope(tree, branch, role) ==
    IF branch = NoRole THEN NoRole
    ELSE IF \/ Find(tree, branch) = NoRole
            \/ role # NoRole /\ ~IsWithin(tree, role, branch)
         THEN Unresolved
         ELSE IF role = NoRole THEN branch ELSE role

\* NetBox's own filters: the tag, and the role with those beneath it.
Targets(devices, tree, tag, role) ==
    {d \in devices : d.tag = tag /\ (role = NoRole \/ d.role \in Branch(tree, role))}
=============================================================================
