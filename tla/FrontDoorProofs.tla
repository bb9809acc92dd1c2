--------------------------- MODULE FrontDoorProofs ---------------------------
(***************************************************************************)
(* FrontDoor proved for any environments, roles, devices and firewalls:    *)
(* nothing is written unasked, nothing outside the scope, no second object *)
(* for a subnet, and what the check says is what the addresses say.        *)
(*                                                                         *)
(* RoleScope walks the role tree with recursive functions; what they       *)
(* compute is proved from paths in the tree, by induction on their length. *)
(* SubnetUsage compares networks by division; what it finds is proved from *)
(* the intervals that they are, with sizes that double by the bit.         *)
(***************************************************************************)
EXTENDS FrontDoor, FiniteSetTheorems, WellFoundedInduction, TLAPS

(* Where the operator stands, and with which environment.                  *)
Places ==
    /\ entry \in {"hub", "cli"}
    /\ entry = "hub" => at # "shell"
    /\ entry = "cli" => at = "shell"
    /\ at \in {"area", "tool"} \/ pc # "menu" => env \in DOMAIN Environments

(* What was asked and answered on the way to a write.                      *)
Asking ==
    /\ entry = "hub" => ~opts.yes
    /\ pc \in {"offer", "name", "typed", "post"} => tool = "check" /\ opts.apply
    /\ pc \in {"name", "typed", "post"} => opts.yes \/ "yes" \in given
    /\ pc = "post" /\ E.protected => opts.yes \/ "name typed" \in given
    /\ entry = "hub" /\ pc = "run" /\ tool = "sync" /\ opts.apply =>
         "yes" \in given /\ (E.protected => "name typed" \in given)
    /\ pc # "end" => written = {}

(* The tag guard was passed.                                               *)
Guarded == pc \in {"confirm", "run"} => Tag = E.tag \/ opts.force

IInv == TypeOK /\ Places /\ Asking /\ Guarded /\ NothingUnasked /\ StaysInScope

(* What the firewalls hold of this program: at most one object each, of    *)
(* just the subnet, and none while a run is about to create it.            *)
IsOurs(o) == o.ours = TRUE
OfTheQuery(o) ==
    o.kind = "net" /\ o.fam = query.fam /\ o.lo = query.lo /\ o.len = query.len
Firewalls ==
    /\ query.lo \in Nat /\ query.lo % Size(query.len) = 0
    /\ query.len \in 0 .. Width /\ query.len # 0
    /\ DOMAIN fw = DOMAIN Environments
    /\ \A e \in DOMAIN Environments :
         /\ "objects" \in DOMAIN fw[e]
         /\ \A o \in fw[e].objects : o.ours = FALSE \/ (IsOurs(o) /\ OfTheQuery(o))
         /\ \A o, p \in fw[e].objects : IsOurs(o) /\ IsOurs(p) => o = p
    /\ pc \in {"offer", "name", "typed", "post"} =>
         \A o \in fw[env].objects : o.ours = FALSE

FInv == Places /\ Firewalls

-----------------------------------------------------------------------------
(* Induction on the natural numbers, about sets of numbers.                *)
LEMMA LeastNumber ==
  ASSUME NEW S \in SUBSET Nat, S # {}
  PROVE  \E x \in S : \A y \in S : x <= y
<1> DEFINE Less == {ss \in Nat \X Nat : ss[1] < ss[2]}
<1>1. IsWellFoundedOn(Less, Nat)
  BY NatLessThanWellFounded DEF OpToRel
<1>2. \A x, y \in Nat : y < x => <<y, x>> \in Less
  OBVIOUS
<1> HIDE DEF Less
<1>3. PICK x \in S : \A y \in S : <<y, x>> \notin Less
  BY <1>1, WFMin
<1>4. ASSUME NEW y \in S PROVE x <= y
  <2>1. x \in Nat /\ y \in Nat
    OBVIOUS
  <2>2. ~(y < x)
    BY <1>2, <1>3, <2>1
  <2> QED
    BY <2>1, <2>2
<1> QED
  BY <1>4

(* Induction over the numbers, for a set instead of a predicate.           *)
LEMMA Induction ==
  ASSUME NEW S \in SUBSET Nat, 0 \in S, \A n \in S : n + 1 \in S
  PROVE  S = Nat
<1> SUFFICES ASSUME Nat \ S # {} PROVE FALSE
  OBVIOUS
<1>1. PICK x \in Nat \ S : \A y \in Nat \ S : x <= y
  BY LeastNumber
<1>2. x - 1 \in S
  BY <1>1
<1>3. x - 1 + 1 = x
  BY <1>1
<1> QED
  BY <1>1, <1>2, <1>3

(* A sequence whose every step stays in a set never leaves it.             *)
LEMMA StaysIn ==
  ASSUME NEW X, NEW f, NEW m \in Nat, f[0] \in X,
         \A n \in 1..m : f[n - 1] \in X => f[n] \in X
  PROVE  \A n \in 0..m : f[n] \in X
<1> DEFINE S == {n \in Nat : n <= m => f[n] \in X}
<1>1. 0 \in S
  OBVIOUS
<1>2. ASSUME NEW n \in S PROVE n + 1 \in S
  <2> SUFFICES ASSUME n + 1 <= m PROVE f[n + 1] \in X
    OBVIOUS
  <2>1. n + 1 \in 1..m /\ (n + 1) - 1 = n /\ n <= m
    OBVIOUS
  <2>2. f[n] \in X
    BY <2>1
  <2> QED
    BY <2>1, <2>2
<1>3. S = Nat
  <2> HIDE DEF S
  <2>1. S \in SUBSET Nat
    BY DEF S
  <2> QED
    BY <1>1, <1>2, <2>1, Induction
<1>4. \A n \in 0..m : n \in Nat /\ n <= m
  OBVIOUS
<1> QED
  BY <1>3, <1>4

(* A function defined by its first value and a step exists.                *)
IsIteration(f, a, step, m) == f[0] = a /\ \A n \in 1..m : f[n] = step[f[n - 1]]

(* A function can be iterated any number of times.                         *)
LEMMA Iterates ==
  ASSUME NEW X, NEW a \in X, NEW step \in [X -> X], NEW m \in Nat
  PROVE  \E f \in [0..m -> X] : IsIteration(f, a, step, m)
<1> DEFINE Good(k, f) == IsIteration(f, a, step, k)
           S == {k \in Nat : \E f \in [0..k -> X] : Good(k, f)}
<1> USE DEF IsIteration
<1>1. 0 \in S
  <2> DEFINE f == [n \in 0..0 |-> a]
  <2>1. f \in [0..0 -> X] /\ f[0] = a
    OBVIOUS
  <2>2. 1..0 = {}
    OBVIOUS
  <2> QED
    BY <2>1, <2>2
<1>2. ASSUME NEW k \in S PROVE k + 1 \in S
  <2>1. k \in Nat
    OBVIOUS
  <2>2. PICK f \in [0..k -> X] : Good(k, f)
    OBVIOUS
  <2> DEFINE g == [n \in 0..(k + 1) |-> IF n = k + 1 THEN step[f[k]] ELSE f[n]]
  <2>3. \A n \in 0..(k + 1) : n = k + 1 \/ n \in 0..k
    BY <2>1
  <2>4. k \in 0..k /\ k + 1 \in 0..(k + 1) /\ 0 \in 0..k /\ 0 # k + 1
    BY <2>1
  <2>5. g \in [0..(k + 1) -> X]
    BY <2>3, <2>4
  <2>6. \A n \in 0..k : g[n] = f[n]
    BY <2>1
  <2>7. g[0] = a /\ g[k + 1] = step[f[k]]
    BY <2>2, <2>4, <2>6
  <2>8. ASSUME NEW n \in 1..(k + 1) PROVE g[n] = step[g[n - 1]]
    <3>1. n - 1 \in 0..k /\ (n = k + 1 \/ (n \in 1..k /\ n \in 0..k))
      <4>1. k \in Int /\ n \in Int /\ 1 <= n /\ n <= k + 1
        BY <2>1
      <4> QED
        BY <4>1
    <3>2. CASE n = k + 1
      <4>1. n - 1 = k
        BY <2>1, <3>2
      <4> QED
        BY <2>6, <2>7, <3>1, <3>2, <4>1
    <3>3. CASE n \in 1..k /\ n \in 0..k
      BY <2>2, <2>6, <3>1, <3>3
    <3> QED
      BY <3>1, <3>2, <3>3
  <2> HIDE DEF g
  <2> QED
    BY <2>1, <2>5, <2>7, <2>8
<1>3. S = Nat
  <2> HIDE DEF S
  <2>1. S \in SUBSET Nat
    BY DEF S
  <2> QED
    BY <1>1, <1>2, <2>1, Induction
<1> HIDE DEF IsIteration
<1> QED
  BY <1>3

-----------------------------------------------------------------------------
(* Paths up the role tree.                                                 *)
IsTree(tree) ==
    /\ IsFiniteSet(DOMAIN tree)
    /\ NoRole \notin DOMAIN tree
    /\ \A r \in DOMAIN tree : tree[r] \in DOMAIN tree \cup {NoRole}

IsPath(tree, n, p, s, t) ==
    /\ p[0] = s /\ p[n] = t
    /\ \A i \in 0..(n - 1) : p[i + 1] = tree[p[i]]

Reaches(tree, s, t) ==
    \E n \in Nat : \E p \in [0..n -> DOMAIN tree] : IsPath(tree, n, p, s, t)

(* Every role leads up to itself.                                          *)
LEMMA ReachesItself ==
  ASSUME NEW tree, NEW r \in DOMAIN tree
  PROVE  Reaches(tree, r, r)
<1> DEFINE p == [i \in 0..0 |-> r]
<1>1. p \in [0..0 -> DOMAIN tree] /\ p[0] = r /\ 0 \in Nat
  OBVIOUS
<1>2. 0..(0 - 1) = {}
  OBVIOUS
<1> HIDE DEF p
<1> QED
  BY <1>1, <1>2 DEF Reaches, IsPath

(* What the parent of a role leads up to, the role leads up to.            *)
LEMMA ReachesThroughParent ==
  ASSUME NEW tree, NEW r \in DOMAIN tree, NEW t, Reaches(tree, tree[r], t)
  PROVE  Reaches(tree, r, t)
<1>0. PICK n \in Nat : \E p \in [0..n -> DOMAIN tree] : IsPath(tree, n, p, tree[r], t)
  BY DEF Reaches
<1>1. PICK p \in [0..n -> DOMAIN tree] : IsPath(tree, n, p, tree[r], t)
  BY <1>0
<1> DEFINE q == [i \in 0..(n + 1) |-> IF i = 0 THEN r ELSE p[i - 1]]
<1>2. \A i \in 0..(n + 1) : i = 0 \/ i - 1 \in 0..n
  OBVIOUS
<1>3. q \in [0..(n + 1) -> DOMAIN tree]
  BY <1>2
<1>4. \A i \in 0..n : i + 1 \in 0..(n + 1) /\ i + 1 # 0 /\ (i + 1) - 1 = i
  OBVIOUS
<1>5. \A i \in 0..n : q[i + 1] = p[i]
  BY <1>4
<1>6. 0 \in 0..n /\ n \in 0..n /\ 0 \in 0..(n + 1) /\ 0 + 1 = 1 /\ (n + 1) - 1 = n
  OBVIOUS
<1>7. q[0] = r /\ q[n + 1] = t
  BY <1>1, <1>5, <1>6 DEF IsPath
<1>8. ASSUME NEW i \in 0..n PROVE q[i + 1] = tree[q[i]]
  <2>1. CASE i = 0
    BY <1>1, <1>5, <1>6, <1>7, <2>1 DEF IsPath
  <2>2. CASE i # 0
    <3>1. i - 1 \in 0..(n - 1) /\ (i - 1) + 1 = i /\ i - 1 \in 0..n
      BY <2>2
    <3>2. p[i] = tree[p[i - 1]]
      BY <1>1, <3>1 DEF IsPath
    <3>3. q[i] = p[i - 1]
      BY <1>5, <3>1
    <3> QED
      BY <1>5, <3>2, <3>3
  <2> QED
    BY <2>1, <2>2
<1> HIDE DEF q
<1>9. IsPath(tree, n + 1, q, r, t)
  BY <1>6, <1>7, <1>8 DEF IsPath
<1> QED
  BY <1>3, <1>9 DEF Reaches

(* Leading up is transitive.                                               *)
LEMMA ReachesTransitive ==
  ASSUME NEW tree, NEW r, NEW s, NEW t, Reaches(tree, r, s), Reaches(tree, s, t)
  PROVE  Reaches(tree, r, t)
<1>0. PICK n \in Nat : \E p \in [0..n -> DOMAIN tree] : IsPath(tree, n, p, r, s)
  BY DEF Reaches
<1>1. PICK p \in [0..n -> DOMAIN tree] : IsPath(tree, n, p, r, s)
  BY <1>0
<1> DEFINE S == {k \in Nat : k <= n => Reaches(tree, p[n - k], t)}
<1>2. 0 \in S
  BY <1>1 DEF IsPath
<1>3. ASSUME NEW k \in S PROVE k + 1 \in S
  <2> SUFFICES ASSUME k + 1 <= n PROVE Reaches(tree, p[n - (k + 1)], t)
    OBVIOUS
  <2> DEFINE i == n - (k + 1)
  <2>1. i \in 0..(n - 1) /\ i \in 0..n /\ i + 1 = n - k /\ k <= n
    OBVIOUS
  <2>2. Reaches(tree, p[i + 1], t)
    BY <2>1
  <2>3. p[i + 1] = tree[p[i]] /\ p[i] \in DOMAIN tree
    BY <1>1, <2>1 DEF IsPath
  <2> HIDE DEF i
  <2>4. Reaches(tree, p[i], t)
    BY <2>2, <2>3, ReachesThroughParent
  <2> QED
    BY <2>4 DEF i
<1>4. n \in S
  <2> HIDE DEF S
  <2>1. S \in SUBSET Nat
    BY DEF S
  <2> QED
    BY <1>2, <1>3, <2>1, Induction
<1>5. n - n = 0 /\ n <= n
  OBVIOUS
<1>6. Reaches(tree, p[0], t)
  BY <1>4, <1>5
<1> QED
  BY <1>1, <1>6 DEF IsPath

(* A role that is reached at all is reached in fewer steps than there are  *)
(* roles: the shortest path passes none twice.                             *)
LEMMA ShortPath ==
  ASSUME NEW tree, IsFiniteSet(DOMAIN tree), NEW s, NEW t, Reaches(tree, s, t)
  PROVE  \E n \in 0..Cardinality(DOMAIN tree) :
           \E p \in [0..n -> DOMAIN tree] : IsPath(tree, n, p, s, t)
<1> DEFINE Long(n) == \E p \in [0..n -> DOMAIN tree] : IsPath(tree, n, p, s, t)
           L == {n \in Nat : Long(n)}
<1>1. PICK n \in L : \A m \in L : n <= m
  <2>1. L # {} /\ L \in SUBSET Nat
    BY DEF Reaches
  <2> HIDE DEF L
  <2> QED
    BY <2>1, LeastNumber
<1>2. n \in Nat
  OBVIOUS
<1>3. PICK p \in [0..n -> DOMAIN tree] : IsPath(tree, n, p, s, t)
  OBVIOUS
<1>4. ASSUME NEW i \in 0..n, NEW j \in 0..n, p[i] = p[j], i < j PROVE FALSE
  <2> DEFINE m == n - (j - i)
             q == [k \in 0..m |-> IF k <= i THEN p[k] ELSE p[k + (j - i)]]
  <2>1. /\ i \in Nat /\ j \in Nat /\ i < j /\ i <= n /\ j <= n
        /\ m \in Nat /\ m < n /\ i <= m
    BY <1>2, <1>4
  <2>2. \A k \in 0..m : k \in 0..n /\ k + (j - i) \in 0..n
    BY <1>2, <2>1
  <2>3. q \in [0..m -> DOMAIN tree]
    BY <2>2
  <2>4. /\ \A k \in 0..i : k \in 0..m /\ q[k] = p[k]
        /\ \A k \in (i + 1)..m : k \in 0..m /\ q[k] = p[k + (j - i)]
    BY <2>1
  <2>5. q[0] = s
    <3>1. 0 \in 0..i
      BY <2>1
    <3> QED
      BY <1>3, <2>4, <3>1 DEF IsPath
  <2>6. q[m] = t
    <3>1. CASE m = i
      <4>1. j = n /\ i \in 0..i
        BY <1>2, <2>1, <3>1
      <4> QED
        BY <1>3, <1>4, <2>4, <3>1, <4>1 DEF IsPath
    <3>2. CASE m # i
      <4>1. m \in (i + 1)..m /\ m + (j - i) = n
        BY <1>2, <2>1, <3>2
      <4> QED
        BY <1>3, <2>4, <4>1 DEF IsPath
    <3> QED
      BY <3>1, <3>2
  <2>7. ASSUME NEW k \in 0..(m - 1) PROVE q[k + 1] = tree[q[k]]
    <3>0. k \in Nat /\ k < m
      BY <2>1, <2>7
    <3>1. CASE k < i
      <4>1. k \in 0..i /\ k + 1 \in 0..i /\ k \in 0..(n - 1)
        BY <1>2, <2>1, <3>0, <3>1
      <4> QED
        BY <1>3, <2>4, <4>1 DEF IsPath
    <3>2. CASE k = i
      <4>1. /\ k \in 0..i /\ k + 1 \in (i + 1)..m
            /\ (k + 1) + (j - i) = j + 1 /\ j \in 0..(n - 1)
        BY <1>2, <2>1, <3>0, <3>2
      <4> QED
        BY <1>3, <1>4, <2>4, <3>2, <4>1 DEF IsPath
    <3>3. CASE k > i
      <4>1. /\ k \in (i + 1)..m /\ k + 1 \in (i + 1)..m
            /\ (k + 1) + (j - i) = (k + (j - i)) + 1
            /\ k + (j - i) \in 0..(n - 1)
        BY <1>2, <2>1, <3>0, <3>3
      <4> QED
        BY <1>3, <2>4, <4>1 DEF IsPath
    <3> QED
      BY <2>1, <3>0, <3>1, <3>2, <3>3
  <2> HIDE DEF q
  <2>8. IsPath(tree, m, q, s, t)
    BY <2>5, <2>6, <2>7 DEF IsPath
  <2>9. m \in L
    BY <2>1, <2>3, <2>8
  <2> QED
    BY <1>1, <1>2, <2>1, <2>9
<1>5. p \in Injection(0..n, DOMAIN tree)
  <2> SUFFICES ASSUME NEW i \in 0..n, NEW j \in 0..n, p[i] = p[j] PROVE i = j
    BY DEF Injection, IsInjective
  <2>1. i \in Nat /\ j \in Nat
    BY <1>2
  <2>2. ~(i < j) /\ ~(j < i)
    BY <1>4
  <2> QED
    BY <2>1, <2>2
<1>6. Cardinality(0..n) = n + 1 /\ Cardinality(0..n) <= Cardinality(DOMAIN tree)
  <2>1. 0 \in Int /\ n \in Int /\ ~(0 > n) /\ n - 0 + 1 = n + 1
    BY <1>2
  <2> QED
    BY <1>5, <2>1, FS_Interval, FS_Injection
<1>7. n \in 0..Cardinality(DOMAIN tree)
  <2>1. Cardinality(DOMAIN tree) \in Nat
    BY FS_CardinalityType
  <2> QED
    BY <1>2, <1>6, <2>1
<1> QED
  BY <1>3, <1>7

-----------------------------------------------------------------------------
(* IsWithin climbs from the role: it is within the root when the root is   *)
(* reached, and only then.                                                 *)
LEMMA IsWithinIsReaching ==
  ASSUME NEW tree, IsTree(tree), NEW slug, NEW root
  PROVE  IsWithin(tree, slug, root) <=> Reaches(tree, slug, root)
<1> DEFINE N == Cardinality(DOMAIN tree)
           up[n \in 0..N] ==
             IF n = 0 THEN Find(tree, slug)
             ELSE IF up[n - 1] = NoRole THEN NoRole ELSE tree[up[n - 1]]
           X == DOMAIN tree \cup {NoRole}
           step == [x \in X |-> IF x = NoRole THEN NoRole ELSE tree[x]]
<1>0. N \in Nat
  BY FS_CardinalityType DEF IsTree
<1>1. /\ up \in [0..N -> X]
      /\ up[0] = Find(tree, slug)
      /\ \A n \in 1..N : up[n] = IF up[n - 1] = NoRole THEN NoRole ELSE tree[up[n - 1]]
  <2>1. step \in [X -> X] /\ Find(tree, slug) \in X
    BY DEF IsTree, Find
  <2>2. PICK f \in [0..N -> X] : IsIteration(f, Find(tree, slug), step, N)
    <3> HIDE DEF step, X, N, up
    <3> QED
      BY <1>0, <2>1, Iterates
  <2>3. \A n \in 0..N : n = 0 \/ (n \in 1..N /\ n - 1 \in 0..N)
    BY <1>0
  <2>4. f = [n \in 0..N |-> IF n = 0 THEN Find(tree, slug)
                           ELSE IF f[n - 1] = NoRole THEN NoRole ELSE tree[f[n - 1]]]
    <3>1. \A n \in 1..N : f[n] = IF f[n - 1] = NoRole THEN NoRole ELSE tree[f[n - 1]]
      <4>1. \A n \in 1..N : n - 1 \in 0..N
        BY <1>0
      <4>2. \A n \in 1..N : f[n - 1] \in X
        BY <4>1
      <4> QED
        BY <2>2, <4>2 DEF IsIteration
    <3>2. \A n \in 1..N : n # 0
      BY <1>0
    <3> HIDE DEF N, X
    <3> QED
      BY <2>2, <2>3, <3>1, <3>2 DEF IsIteration
  <2>5. up = [n \in 0..N |-> IF n = 0 THEN Find(tree, slug)
                            ELSE IF up[n - 1] = NoRole THEN NoRole ELSE tree[up[n - 1]]]
    <3> HIDE DEF N
    <3> QED
      BY <2>4
  <2> HIDE DEF up
  <2>6. \A n \in 1..N : n \in 0..N /\ n # 0 /\ n - 1 \in 0..N
    BY <1>0
  <2>7. 0 \in 0..N
    BY <1>0
  <2> HIDE DEF N
  <2>8. /\ up[0] = Find(tree, slug)
        /\ \A n \in 1..N : up[n] = IF up[n - 1] = NoRole THEN NoRole ELSE tree[up[n - 1]]
    BY <2>5, <2>6, <2>7
  <2>9. \A n \in 0..N : up[n] \in X
    <3>1. up[0] \in X
      BY <2>1, <2>8
    <3>2. \A n \in 1..N : up[n - 1] \in X => up[n] \in X
      BY <2>8 DEF IsTree
    <3> HIDE DEF X
    <3> QED
      BY <1>0, <3>1, <3>2, StaysIn
  <2>10. up \in [0..N -> X]
    <3> HIDE DEF X
    <3> QED
      BY <2>5, <2>9
  <2> QED
    BY <2>8, <2>10
<1>2. IsWithin(tree, slug, root) <=> root \in DOMAIN tree /\ \E n \in 0..N : up[n] = root
  <2>1. DOMAIN up = 0..N
    BY <1>1
  <2>2. IsWithin(tree, slug, root) <=>
          Find(tree, root) # NoRole /\ \E n \in DOMAIN up : up[n] = root
    BY DEF IsWithin
  <2> HIDE DEF up, N
  <2> QED
    BY <2>1, <2>2 DEF Find, IsTree
<1> HIDE DEF up, step, N
<1>3. ASSUME NEW n \in 0..N, up[n] = root, root \in DOMAIN tree
      PROVE  Reaches(tree, slug, root)
  <2>0. n \in Nat /\ n <= N
    BY <1>0
  <2>1. ASSUME NEW i \in 0..n PROVE up[i] \in DOMAIN tree
    <3> DEFINE down == [k \in 0..n |-> up[n - k]]
    <3>1. 0 \in 0..n /\ n - 0 = n
      BY <2>0
    <3>2. down[0] \in DOMAIN tree
      BY <1>3, <3>1
    <3>3. ASSUME NEW k \in 1..n, down[k - 1] \in DOMAIN tree PROVE down[k] \in DOMAIN tree
      <4>1. /\ k - 1 \in 0..n /\ k \in 0..n
            /\ n - (k - 1) \in 1..N /\ (n - (k - 1)) - 1 = n - k /\ n - k \in 0..N
        BY <1>0, <2>0
      <4>2. up[n - (k - 1)] = IF up[n - k] = NoRole THEN NoRole ELSE tree[up[n - k]]
        BY <1>1, <4>1
      <4>3. up[n - k] # NoRole /\ up[n - k] \in X
        BY <1>1, <3>3, <4>1, <4>2 DEF IsTree
      <4> QED
        BY <4>1, <4>3
    <3>4. \A k \in 0..n : down[k] \in DOMAIN tree
      <4> HIDE DEF down
      <4> QED
        BY <2>0, <3>2, <3>3, StaysIn
    <3>5. n - i \in 0..n /\ n - (n - i) = i
      BY <2>0
    <3> QED
      BY <3>4, <3>5
  <2> DEFINE p == [i \in 0..n |-> up[i]]
  <2>2. p \in [0..n -> DOMAIN tree]
    BY <2>1
  <2>3. 0 \in 0..n /\ n \in 0..n
    BY <2>0
  <2>4. p[0] = slug /\ p[n] = root
    BY <1>1, <1>3, <2>1, <2>3 DEF Find, IsTree
  <2>5. ASSUME NEW i \in 0..(n - 1) PROVE p[i + 1] = tree[p[i]]
    <3>1. i \in 0..n /\ i + 1 \in 0..n /\ i + 1 \in 1..N /\ (i + 1) - 1 = i
      BY <1>0, <2>0
    <3> QED
      BY <1>1, <2>1, <3>1 DEF IsTree
  <2> HIDE DEF p
  <2> QED
    BY <2>0, <2>2, <2>4, <2>5 DEF Reaches, IsPath
<1>4. ASSUME Reaches(tree, slug, root)
      PROVE  root \in DOMAIN tree /\ \E n \in 0..N : up[n] = root
  <2>1. PICK n \in 0..N : \E p \in [0..n -> DOMAIN tree] : IsPath(tree, n, p, slug, root)
    BY <1>4, ShortPath DEF IsTree, N
  <2>2. PICK p \in [0..n -> DOMAIN tree] : IsPath(tree, n, p, slug, root)
    BY <2>1
  <2>3. n \in Nat /\ n <= N /\ 0 \in 0..n /\ n \in 0..n
    BY <1>0
  <2> DEFINE S == {i \in Nat : i <= n => up[i] = p[i]}
  <2>4. 0 \in S
    BY <1>1, <2>2, <2>3 DEF IsPath, Find
  <2>5. ASSUME NEW i \in S PROVE i + 1 \in S
    <3> SUFFICES ASSUME i + 1 <= n PROVE up[i + 1] = p[i + 1]
      OBVIOUS
    <3>1. i <= n /\ i \in 0..n /\ i \in 0..(n - 1) /\ i + 1 \in 1..N /\ (i + 1) - 1 = i
      BY <1>0, <2>3
    <3>2. up[i] = p[i] /\ p[i] \in DOMAIN tree /\ p[i + 1] = tree[p[i]]
      BY <2>2, <3>1 DEF IsPath
    <3> QED
      BY <1>1, <3>1, <3>2 DEF IsTree
  <2>6. n \in S
    <3> HIDE DEF S
    <3>1. S \in SUBSET Nat
      BY DEF S
    <3> QED
      BY <2>3, <2>4, <2>5, <3>1, Induction
  <2>7. up[n] = root /\ root \in DOMAIN tree
    BY <2>2, <2>3, <2>6 DEF IsPath
  <2> QED
    BY <2>7
<1> QED
  BY <1>2, <1>3, <1>4

(* Every role of a branch climbs to its root.                              *)
LEMMA BranchReachesRoot ==
  ASSUME NEW tree, IsTree(tree), NEW root, NEW r \in Branch(tree, root)
  PROVE  Reaches(tree, r, root)
<1> DEFINE N == Cardinality(DOMAIN tree)
           down[n \in 0..N] ==
             IF n = 0 THEN {root} \cap DOMAIN tree
             ELSE down[n - 1] \cup {s \in DOMAIN tree : tree[s] \in down[n - 1]}
           X == SUBSET DOMAIN tree
           step == [x \in X |-> x \cup {s \in DOMAIN tree : tree[s] \in x}]
           top == {root} \cap DOMAIN tree
           Climbing == {x \in X : \A s \in x : Reaches(tree, s, root)}
<1>0. N \in Nat
  BY FS_CardinalityType DEF IsTree
<1>1. /\ down[0] = top
      /\ \A n \in 1..N :
           down[n] = down[n - 1] \cup {s \in DOMAIN tree : tree[s] \in down[n - 1]}
  <2>1. step \in [X -> X] /\ top \in X
    OBVIOUS
  <2>2. PICK f \in [0..N -> X] : IsIteration(f, top, step, N)
    <3> HIDE DEF step, X, N, down, top
    <3> QED
      BY <1>0, <2>1, Iterates
  <2>3. \A n \in 0..N : n = 0 \/ (n \in 1..N /\ n - 1 \in 0..N)
    BY <1>0
  <2>4. \A n \in 1..N : n \in 0..N /\ n # 0 /\ n - 1 \in 0..N
    BY <1>0
  <2>5. f = [n \in 0..N |-> IF n = 0 THEN {root} \cap DOMAIN tree
               ELSE f[n - 1] \cup {s \in DOMAIN tree : tree[s] \in f[n - 1]}]
    <3>1. \A n \in 1..N : f[n] = f[n - 1] \cup {s \in DOMAIN tree : tree[s] \in f[n - 1]}
      <4>1. \A n \in 1..N : f[n - 1] \in X
        BY <2>4
      <4> QED
        BY <2>2, <4>1 DEF IsIteration
    <3> HIDE DEF N, X
    <3> QED
      BY <2>2, <2>3, <2>4, <3>1 DEF IsIteration
  <2>6. down = [n \in 0..N |-> IF n = 0 THEN {root} \cap DOMAIN tree
                  ELSE down[n - 1] \cup {s \in DOMAIN tree : tree[s] \in down[n - 1]}]
    <3> HIDE DEF N
    <3> QED
      BY <2>5
  <2> HIDE DEF down
  <2>7. 0 \in 0..N
    BY <1>0
  <2> HIDE DEF N
  <2> QED
    BY <2>4, <2>6, <2>7
<1>2. Branch(tree, root) = down[N]
  BY DEF Branch
<1> HIDE DEF down, N
<1>3. \A n \in 0..N : down[n] \in Climbing
  <2>1. down[0] \in Climbing
    BY <1>1, ReachesItself
  <2>2. ASSUME NEW n \in 1..N, down[n - 1] \in Climbing PROVE down[n] \in Climbing
    <3>1. down[n] = down[n - 1] \cup {s \in DOMAIN tree : tree[s] \in down[n - 1]}
      BY <1>1
    <3>2. ASSUME NEW s \in DOMAIN tree, tree[s] \in down[n - 1]
          PROVE  Reaches(tree, s, root)
      <4>1. Reaches(tree, tree[s], root)
        BY <2>2, <3>2
      <4> QED
        BY <4>1, ReachesThroughParent
    <3> QED
      BY <2>2, <3>1, <3>2
  <2> HIDE DEF Climbing
  <2> QED
    BY <1>0, <2>1, <2>2, StaysIn
<1>4. N \in 0..N
  BY <1>0
<1> QED
  BY <1>2, <1>3, <1>4

-----------------------------------------------------------------------------
(* The devices a wired tool asks NetBox for are within its branch, and     *)
(* within --role.                                                          *)
LEMMA TargetsAreWithin ==
  ASSUME NEW branch, branch # NoRole, NEW role,
         ResolveScope(Tree, branch, role) # Unresolved,
         NEW tag, NEW d \in Targets(Devices, Tree, tag, ResolveScope(Tree, branch, role))
  PROVE  /\ d.tag = tag
         /\ IsWithin(Tree, d.role, branch)
         /\ role # NoRole => IsWithin(Tree, d.role, role)
<1>0. IsTree(Tree)
  BY TreeAssumption DEF IsTree
<1>1. CASE role = NoRole
  <2>1. ResolveScope(Tree, branch, role) = branch
    BY <1>1 DEF ResolveScope
  <2>2. d.tag = tag /\ d.role \in Branch(Tree, branch)
    BY <2>1 DEF Targets
  <2>3. Reaches(Tree, d.role, branch)
    BY <1>0, <2>2, BranchReachesRoot
  <2> QED
    BY <1>0, <1>1, <2>2, <2>3, IsWithinIsReaching
<1>2. CASE role # NoRole
  <2>1. ResolveScope(Tree, branch, role) = role /\ IsWithin(Tree, role, branch)
    BY <1>2 DEF ResolveScope
  <2>2. d.tag = tag /\ d.role \in Branch(Tree, role)
    BY <1>2, <2>1 DEF Targets
  <2>3. Reaches(Tree, d.role, role) /\ Reaches(Tree, role, branch)
    BY <1>0, <2>1, <2>2, BranchReachesRoot, IsWithinIsReaching
  <2>4. Reaches(Tree, d.role, branch)
    BY <2>3, ReachesTransitive
  <2> QED
    BY <1>0, <2>2, <2>3, <2>4, IsWithinIsReaching
<1> QED
  BY <1>1, <1>2

-----------------------------------------------------------------------------
(* The program starts in the invariant.                                    *)
LEMMA InitIInv == Init => IInv
<1> SUFFICES ASSUME Init PROVE IInv
  OBVIOUS
<1>1. /\ entry \in {"hub", "cli"}
      /\ at = (IF entry = "hub" THEN "network" ELSE "shell")
      /\ env = NoEnv /\ tool = "none" /\ opts = NoOptions /\ pc = "menu"
      /\ given = {} /\ written = {} /\ status = "none"
  BY DEF Init
<1>2. TypeOK /\ Places /\ Guarded
  BY <1>1 DEF TypeOK, Places, Guarded
<1>3. Asking /\ NothingUnasked /\ StaysInScope
  BY <1>1 DEF Asking, NothingUnasked, StaysInScope, NoOptions
<1> QED
  BY <1>2, <1>3 DEF IInv

(* No step leaves the order of the gates, nor its types.                   *)
LEMMA NextPlaces == TypeOK /\ Places /\ [Next]_vars => TypeOK' /\ Places'
<1> SUFFICES ASSUME TypeOK, Places, [Next]_vars PROVE TypeOK' /\ Places'
  OBVIOUS
<1> USE DEF TypeOK, Places, World, Choice, Gone
<1>1. CASE ChooseNetwork \/ ChooseArea \/ Back \/ Quit
  BY <1>1 DEF ChooseNetwork, ChooseArea, Back, Quit, Menu
<1>2. CASE PromptForArgs \/ ParseArguments
  BY <1>2 DEF PromptForArgs, ParseArguments, Started
<1>3. CASE BuildContext \/ ConfirmApply
  BY <1>3 DEF BuildContext, ConfirmApply, Goes, Fails
<1>4. CASE RunSync
  BY <1>4 DEF RunSync, Goes, Fails
<1>5. CASE Refuse \/ Check \/ ReadFails
  BY <1>5 DEF Refuse, Check, ReadFails, Goes, Fails
<1>6. CASE ConfirmCreate \/ ChooseName
  BY <1>6 DEF ConfirmCreate, ChooseName, Goes
<1>7. CASE ConfirmProtected \/ HangUp
  BY <1>7 DEF ConfirmProtected, HangUp, Goes, Fails
<1>8. CASE CreateAddress \/ CreateFails
  BY <1>8 DEF CreateAddress, CreateFails, Goes
<1>9. CASE End
  BY <1>9 DEF End
<1>10. CASE SomebodyEdits \/ UNCHANGED vars
  BY <1>10 DEF SomebodyEdits, vars
<1> QED
  BY <1>1, <1>2, <1>3, <1>4, <1>5, <1>6, <1>7, <1>8, <1>9, <1>10 DEF Next

(* Each gate on the way to a write asks before it lets pass.               *)
LEMMA NextAsking ==
  TypeOK /\ Places /\ Asking /\ NothingUnasked /\ [Next]_vars => Asking' /\ NothingUnasked'
<1> SUFFICES ASSUME TypeOK, Places, Asking, NothingUnasked, [Next]_vars
             PROVE  Asking' /\ NothingUnasked'
  OBVIOUS
<1> USE DEF Asking, NothingUnasked, E, World, Choice
<1>1. CASE ChooseNetwork \/ ChooseArea \/ Back \/ Quit
  BY <1>1 DEF ChooseNetwork, ChooseArea, Back, Quit, Menu
<1>2. CASE PromptForArgs
  <2>1. opts'.yes = FALSE /\ pc' = "build" /\ pc = "menu" /\ written' = written
    BY <1>2 DEF PromptForArgs, Started, NoOptions
  <2> QED
    BY <2>1
<1>3. CASE ParseArguments
  <2>1. entry' = "cli" /\ pc' = "build" /\ pc = "menu" /\ written' = written
    BY <1>3 DEF ParseArguments, Started, Places
  <2> QED
    BY <2>1
<1>4. CASE BuildContext
  BY <1>4 DEF BuildContext, Goes, Fails, Confirms
<1>5. CASE ConfirmApply
  BY <1>5 DEF ConfirmApply, Goes
<1>6. CASE RunSync
  BY <1>6 DEF RunSync, Goes, Fails, Places
<1>7. CASE Refuse \/ Check \/ ReadFails
  BY <1>7 DEF Refuse, Check, ReadFails, Goes, Fails
<1>8. CASE ConfirmCreate \/ ChooseName
  BY <1>8 DEF ConfirmCreate, ChooseName, Goes
<1>9. CASE ConfirmProtected \/ HangUp
  BY <1>9 DEF ConfirmProtected, HangUp, Goes, Fails
<1>10. CASE CreateAddress
  BY <1>10 DEF CreateAddress, Goes
<1>11. CASE CreateFails
  BY <1>11 DEF CreateFails
<1>12. CASE End
  BY <1>12 DEF End, NoOptions
<1>13. CASE SomebodyEdits \/ UNCHANGED vars
  BY <1>13 DEF SomebodyEdits, vars
<1> QED
  BY <1>1, <1>2, <1>3, <1>4, <1>5, <1>6, <1>7, <1>8, <1>9, <1>10, <1>11, <1>12, <1>13 DEF Next

(* A run writes once, after the scope was resolved.                        *)
LEMMA NextScope ==
  TypeOK /\ Places /\ Asking /\ Guarded /\ StaysInScope /\ [Next]_vars
    => Guarded' /\ StaysInScope'
<1> SUFFICES ASSUME TypeOK, Places, Asking, Guarded, StaysInScope, [Next]_vars
             PROVE  Guarded' /\ StaysInScope'
  OBVIOUS
<1> USE DEF World, Choice
<1>1. ASSUME written' = {} PROVE StaysInScope'
  BY <1>1 DEF StaysInScope
<1>2. ASSUME pc' \notin {"confirm", "run"} PROVE Guarded'
  BY <1>2 DEF Guarded
<1>3. CASE ChooseNetwork \/ ChooseArea \/ Back \/ Quit \/ PromptForArgs \/ ParseArguments
  <2>1. written' = {} /\ pc' \notin {"confirm", "run"}
    BY <1>3
    DEF ChooseNetwork, ChooseArea, Back, Quit, Menu, PromptForArgs, ParseArguments, Started,
        Asking
  <2> QED
    BY <1>1, <1>2, <2>1
<1>4. CASE BuildContext \/ ConfirmApply
  <2>1. written' = {}
    BY <1>4 DEF BuildContext, ConfirmApply, Asking
  <2>2. Guarded'
    BY <1>4 DEF BuildContext, ConfirmApply, Goes, Fails, Buildable, Guarded, Tag, E
  <2> QED
    BY <1>1, <2>1, <2>2
<1>5. CASE RunSync
  <2> DEFINE role == ResolveScope(Tree, BranchRole, opts.role)
  <2>1. /\ pc = "run" /\ pc' = "end" /\ tool = "sync" /\ UNCHANGED <<env, tool, opts>>
        /\ role = Unresolved => written' = written
        /\ role # Unresolved =>
             \A i \in written' : \E d \in Targets(Devices, Tree, Tag, role) :
                                    \E e \in StackOf(d) : e.id = i
    BY <1>5 DEF RunSync, Goes, Fails
  <2>2. ASSUME NEW x \in Devices, x.id \in written'
        PROVE  \E d \in StackOf(x) : InScope(d)
    <3>1. role # Unresolved
      BY <2>1, <2>2 DEF Asking
    <3>2. PICK d \in Targets(Devices, Tree, Tag, role) : \E e \in StackOf(d) : e.id = x.id
      BY <2>1, <2>2, <3>1
    <3>6. d \in Devices /\ x \in StackOf(d)
      BY <3>2, DevicesAssumption DEF Targets, StackOf
    <3>7. d \in StackOf(x)
      BY <3>6 DEF StackOf
    <3>3. E.branch # NoRole /\ BranchRole = E.branch
      BY <2>1, EnvironmentsAssumption DEF Places, E, BranchRole
    <3>4. /\ d.tag = Tag
          /\ IsWithin(Tree, d.role, E.branch)
          /\ opts.role # NoRole => IsWithin(Tree, d.role, opts.role)
      <4> HIDE DEF role
      <4> QED
        BY <3>1, <3>2, <3>3, TargetsAreWithin DEF role
    <3>5. Tag = E.tag \/ opts.force
      BY <2>1 DEF Guarded
    <3> QED
      BY <3>4, <3>5, <3>7 DEF InScope
  <2>3. StaysInScope'
    BY <2>1, <2>2 DEF StaysInScope, InScope, E
  <2> QED
    BY <1>2, <2>1, <2>3
<1>6. CASE Refuse \/ Check \/ ReadFails \/ ConfirmCreate \/ ChooseName
  <2>1. written' = {} /\ pc' \notin {"confirm", "run"}
    BY <1>6
    DEF Refuse, Check, ReadFails, ConfirmCreate, ChooseName, Goes, Fails, Asking
  <2> QED
    BY <1>1, <1>2, <2>1
<1>7. CASE ConfirmProtected \/ HangUp \/ End
  <2>1. written' = {} /\ pc' \notin {"confirm", "run"}
    BY <1>7 DEF ConfirmProtected, HangUp, End, Goes, Fails, Asking
  <2> QED
    BY <1>1, <1>2, <2>1
<1>8. CASE CreateAddress \/ CreateFails
  <2>1. tool' = "check" /\ pc' = "end"
    BY <1>8 DEF CreateAddress, CreateFails, Goes, Asking
  <2> QED
    BY <1>2, <2>1 DEF StaysInScope
<1>9. CASE SomebodyEdits \/ UNCHANGED vars
  BY <1>9 DEF SomebodyEdits, vars, StaysInScope, InScope, Guarded, Tag, E
<1> QED
  BY <1>3, <1>4, <1>5, <1>6, <1>7, <1>8, <1>9 DEF Next

(* Each step preserves the invariant.                                      *)
LEMMA Inductive == IInv /\ [Next]_vars => IInv'
BY NextPlaces, NextAsking, NextScope DEF IInv

-----------------------------------------------------------------------------
(* What is asked for stays the same.                                       *)
LEMMA QueryStays == [Next]_vars => query' = query
<1> SUFFICES ASSUME [Next]_vars PROVE query' = query
  OBVIOUS
<1> USE DEF World, Choice
<1>1. CASE ChooseNetwork \/ ChooseArea \/ Back \/ Quit \/ PromptForArgs \/ ParseArguments
  BY <1>1 DEF ChooseNetwork, ChooseArea, Back, Quit, Menu, PromptForArgs, ParseArguments, Started
<1>2. CASE BuildContext \/ ConfirmApply \/ RunSync \/ Refuse \/ Check \/ ReadFails
  BY <1>2 DEF BuildContext, ConfirmApply, RunSync, Refuse, Check, ReadFails, Goes, Fails
<1>3. CASE ConfirmCreate \/ ChooseName \/ ConfirmProtected \/ HangUp \/ CreateAddress
  BY <1>3 DEF ConfirmCreate, ChooseName, ConfirmProtected, HangUp, CreateAddress, Goes, Fails
<1>4. CASE CreateFails \/ End \/ SomebodyEdits \/ UNCHANGED vars
  BY <1>4 DEF CreateFails, End, SomebodyEdits, vars
<1> QED
  BY <1>1, <1>2, <1>3, <1>4 DEF Next

(* An object of just the subnet is an exact match, so it is present.       *)
LEMMA ExactIsFound ==
  ASSUME query.lo \in Nat, query.lo % Size(query.len) = 0,
         query.len \in 0 .. Width, query.len # 0,
         NEW wall, NEW o \in wall.objects, OfTheQuery(o)
  PROVE  Analyze(query, wall).present
<1>1. Network(o) = [fam |-> query.fam, lo |-> query.lo, len |-> query.len]
  <2>1. query.lo - 0 = query.lo
    OBVIOUS
  <2> QED
    BY <2>1 DEF Network, OfTheQuery
<1>2. ~Apart(Network(o), query) /\ Network(o).len = query.len
  BY <1>1 DEF Apart, Shorter
<1>3. NetworkRelation(Network(o), query) = "exact"
  <2>1. ~(Network(o).len < query.len) /\ ~(Network(o).len > query.len)
    BY <1>2
  <2> QED
    BY <1>2, <2>1 DEF NetworkRelation
<1>4. Relation(o, query) = "exact"
  BY <1>3 DEF Relation, OfTheQuery
<1>5. ~MatchAll(o, query) /\ ~Broad(o, query)
  BY <1>1, <1>4 DEF MatchAll, Broad, NetworkIsMatchAll, OfTheQuery
<1> QED
  BY <1>4, <1>5 DEF Analyze

(* An object is created only where the check found the subnet free, and    *)
(* nobody else creates one for it in between.                              *)
LEMMA NextFirewalls == TypeOK /\ FInv /\ [Next]_vars => Firewalls'
<1> SUFFICES ASSUME TypeOK, Places, Firewalls, [Next]_vars PROVE Firewalls'
  BY DEF FInv
<1> USE DEF World, Choice
<1>0. query' = query
  BY QueryStays
<1> DEFINE Offering == pc \in {"offer", "name", "typed", "post"}
<1>1. ASSUME fw' = fw, Offering' => Offering /\ env' = env PROVE Firewalls'
  BY <1>0, <1>1 DEF Firewalls, OfTheQuery
<1>2. CASE ChooseNetwork \/ ChooseArea \/ Back \/ Quit \/ PromptForArgs \/ ParseArguments
  <2>1. fw' = fw /\ ~Offering'
    BY <1>2 DEF ChooseNetwork, ChooseArea, Back, Quit, Menu, PromptForArgs, ParseArguments, Started
  <2> QED
    BY <1>1, <2>1
<1>3. CASE BuildContext \/ ConfirmApply \/ RunSync \/ Refuse \/ ReadFails \/ End
  <2>1. fw' = fw /\ ~Offering'
    BY <1>3 DEF BuildContext, ConfirmApply, RunSync, Refuse, ReadFails, End, Goes, Fails
  <2> QED
    BY <1>1, <2>1
<1>4. CASE Check
  <2>1. /\ fw' = fw /\ env' = env /\ env \in DOMAIN Environments
        /\ Offering' => ~Analyze(query, fw[env]).present
    BY <1>4 DEF Check, Goes, Places
  <2>2. Offering' => \A o \in fw[env].objects : o.ours = FALSE
    BY <2>1, ExactIsFound DEF Firewalls
  <2> QED
    BY <1>0, <2>1, <2>2 DEF Firewalls, OfTheQuery
<1>5. CASE ConfirmCreate \/ ChooseName \/ ConfirmProtected \/ HangUp
  <2>1. fw' = fw /\ (Offering' => Offering) /\ env' = env
    BY <1>5 DEF ConfirmCreate, ChooseName, ConfirmProtected, HangUp, Goes, Fails
  <2> QED
    BY <1>1, <2>1
<1>6. ASSUME Offering, pc' = "end", fw' = Created PROVE Firewalls'
  <2>1. env \in DOMAIN Environments
    BY <1>6 DEF Places
  <2>2. \A o \in fw[env].objects : o.ours = FALSE
    BY <1>6 DEF Firewalls
  <2>3. /\ DOMAIN fw' = DOMAIN Environments
        /\ \A e \in DOMAIN Environments : DOMAIN fw'[e] = DOMAIN fw[e]
        /\ \A e \in DOMAIN Environments : e # env => fw'[e] = fw[e]
        /\ fw'[env].objects = fw[env].objects \cup {NewObject}
    BY <1>6, <2>1 DEF Created, Firewalls
  <2>4. IsOurs(NewObject) /\ OfTheQuery(NewObject)
    BY DEF IsOurs, OfTheQuery, NewObject
  <2> QED
    BY <1>0, <1>6, <2>1, <2>2, <2>3, <2>4 DEF Firewalls, OfTheQuery, IsOurs
<1>7. CASE CreateAddress
  BY <1>6, <1>7 DEF CreateAddress, Goes
<1>8. CASE CreateFails
  <2>1. Offering /\ pc' = "end" /\ (fw' = fw \/ fw' = Created)
    BY <1>8 DEF CreateFails
  <2> QED
    BY <1>1, <1>6, <2>1
<1>9. CASE SomebodyEdits
  <2>1. env \in DOMAIN Environments /\ pc' = pc /\ env' = env
    BY <1>9 DEF SomebodyEdits, Places
  <2>2. PICK objects : /\ fw' = [fw EXCEPT ![env].objects = objects]
                       /\ \A o \in objects : o \in fw[env].objects \/ o.ours = FALSE
    <3>1. CASE \E o \in Others : fw' = [fw EXCEPT ![env].objects = @ \cup {o}]
      <4>1. PICK o \in Others : fw' = [fw EXCEPT ![env].objects = @ \cup {o}]
        BY <3>1
      <4>2. fw' = [fw EXCEPT ![env].objects = fw[env].objects \cup {o}]
        BY <2>1, <4>1 DEF Firewalls
      <4> QED
        BY <4>2, OthersAssumption
    <3>2. CASE \E o \in fw[env].objects : fw' = [fw EXCEPT ![env].objects = @ \ {o}]
      <4>1. PICK o \in fw[env].objects : fw' = [fw EXCEPT ![env].objects = @ \ {o}]
        BY <3>2
      <4>2. fw' = [fw EXCEPT ![env].objects = fw[env].objects \ {o}]
        BY <2>1, <4>1 DEF Firewalls
      <4> QED
        BY <4>2
    <3> QED
      BY <1>9, <3>1, <3>2 DEF SomebodyEdits
  <2>3. /\ DOMAIN fw' = DOMAIN Environments
        /\ \A e \in DOMAIN Environments : DOMAIN fw'[e] = DOMAIN fw[e]
        /\ \A e \in DOMAIN Environments : e # env => fw'[e] = fw[e]
        /\ fw'[env].objects = objects
    BY <2>1, <2>2 DEF Firewalls
  <2> QED
    BY <1>0, <2>1, <2>2, <2>3 DEF Firewalls, OfTheQuery, IsOurs
<1>10. CASE UNCHANGED vars
  BY <1>1, <1>10 DEF vars
<1> QED
  BY <1>2, <1>3, <1>4, <1>5, <1>7, <1>8, <1>9, <1>10 DEF Next

(* No firewall starts with an object for the query.                        *)
LEMMA InitFInv ==
  ASSUME \A input \in Inputs : input[2].len # 0
  PROVE  Init => FInv
<1> SUFFICES ASSUME Init PROVE FInv
  OBVIOUS
<1>1. PICK input \in Inputs : fw = [e \in DOMAIN Environments |-> input[1]] /\ query = input[2]
  BY DEF Init
<1>2. Firewalls
  BY <1>1, InputsAssumption DEF Init, Firewalls, IsOurs, IsQuery
<1> QED
  BY <1>2, InitIInv DEF FInv, IInv

(* A set of which any two members are one.                                 *)
LEMMA AtMostOne ==
  ASSUME NEW S, \A x, y \in S : x = y
  PROVE  Cardinality(S) <= 1
<1>1. CASE S = {}
  BY <1>1, FS_EmptySet
<1>2. CASE S # {}
  <2>1. PICK x : S = {x}
    BY <1>2
  <2>2. Cardinality(S) = 1
    BY <2>1, FS_Singleton
  <2> QED
    BY <2>2
<1> QED
  BY <1>1, <1>2

-----------------------------------------------------------------------------
(* The invariant of the gates holds in every state of every behaviour.     *)
THEOREM Invariance == Spec => []IInv
BY InitIInv, Inductive, PTL DEF Spec

(* Nothing is written that the operator of this run did not ask for, from  *)
(* whichever way in and whatever the options.                              *)
THEOREM NeverUnasked == Spec => []NothingUnasked
<1>1. IInv => NothingUnasked
  BY DEF IInv
<1> QED
  BY <1>1, Invariance, PTL

(* A wired tool writes only to devices of the environment's tag, or of a   *)
(* forced one, whose roles lead up to the branch and to --role, and to the *)
(* members of their Virtual Chassis: for every role tree, cycles included. *)
THEOREM NeverOutOfScope == Spec => []StaysInScope
<1>1. IInv => StaysInScope
  BY DEF IInv
<1> QED
  BY <1>1, Invariance, PTL

(* A subnet other than the whole address space never gets two objects of   *)
(* this program on one firewall, however many runs, one after the other,   *)
(* and lost answers, and whatever others do to the objects meanwhile.      *)
THEOREM NeverCreatedTwice ==
  ASSUME \A input \in Inputs : input[2].len # 0
  PROVE  Spec => []CreatedOnce
<1>1. Init => FInv
  BY InitFInv
<1>2. IInv /\ FInv /\ [Next]_vars => FInv'
  BY NextPlaces, NextFirewalls DEF IInv, FInv
<1>3. FInv => CreatedOnce
  <2> SUFFICES ASSUME FInv, NEW e \in DOMAIN Environments
               PROVE  Cardinality({o \in fw[e].objects : o.ours}) <= 1
    BY DEF CreatedOnce
  <2>1. \A o \in fw[e].objects : o.ours => IsOurs(o)
    BY DEF FInv, Firewalls, IsOurs
  <2>2. \A x, y \in {o \in fw[e].objects : o.ours} : x = y
    BY <2>1 DEF FInv, Firewalls
  <2> QED
    BY <2>2, AtMostOne
<1> QED
  BY <1>1, <1>2, <1>3, Invariance, PTL DEF Spec

-----------------------------------------------------------------------------
(* A product grows with its factor.                                        *)
LEMMA TimesGrows ==
  ASSUME NEW a \in Nat, NEW b \in Nat, NEW c \in Nat, a <= b
  PROVE  a * c <= b * c /\ c * a <= c * b
OBVIOUS

(* What division is by a positive number.                                  *)
LEMMA Division ==
  ASSUME NEW a \in Int, NEW s \in Int, s > 0
  PROVE  /\ a = s * (a \div s) + (a % s)
         /\ s * (a \div s) <= a /\ a < s * (a \div s) + s
         /\ a >= 0 => a \div s \in Nat
<1>1. a = s * (a \div s) + (a % s)
  OBVIOUS
<1>2. s * (a \div s) <= a
  OBVIOUS
<1>3. a < s * (a \div s) + s
  OBVIOUS
<1>4. a >= 0 => a \div s \in Nat
  OBVIOUS
<1> QED
  BY <1>1, <1>2, <1>3, <1>4

(* A quotient is known by the multiple below and the one above.            *)
LEMMA Quotient ==
  ASSUME NEW a \in Nat, NEW s \in Nat, s # 0, NEW x \in Nat
  PROVE  a \div s = x <=> (s * x <= a /\ a < s * x + s)
<1>1. PICK d \in Nat : d = a \div s
  BY Division
<1>2. s * d <= a /\ a < s * d + s
  BY <1>1, Division
<1>3. ASSUME s * x <= a, a < s * x + s PROVE d = x
  <2>1. CASE d < x
    <3>1. s * (d + 1) <= s * x
      BY <2>1, TimesGrows
    <3>2. s * (d + 1) = s * d + s
      OBVIOUS
    <3> QED
      BY <1>2, <1>3, <3>1, <3>2
  <2>2. CASE x < d
    <3>1. s * (x + 1) <= s * d
      BY <2>2, TimesGrows
    <3>2. s * (x + 1) = s * x + s
      OBVIOUS
    <3> QED
      BY <1>2, <1>3, <3>1, <3>2
  <2> QED
    BY <2>1, <2>2
<1> QED
  BY <1>1, <1>2, <1>3

(* The size of a single address is one, and every bit doubles it.          *)
LEMMA SizeDoubles ==
  /\ Size(Width) = 1
  /\ \A len \in 0 .. Width : Size(len) \in Nat
  /\ \A len \in 0 .. Width - 1 : Size(len) = 2 * Size(len + 1)
<1> DEFINE twice == [x \in Nat |-> 2 * x]
<1>0. Width \in Nat
  BY WidthAssumption
<1>1. PICK f \in [0 .. Width -> Nat] : IsIteration(f, 1, twice, Width)
  <2>1. twice \in [Nat -> Nat]
    OBVIOUS
  <2> HIDE DEF twice
  <2> QED
    BY <1>0, <2>1, Iterates
<1>2. \A n \in 1 .. Width : f[n] = 2 * f[n - 1]
  <2>1. \A n \in 1 .. Width : n - 1 \in 0 .. Width
    BY <1>0
  <2>2. \A n \in 1 .. Width : f[n - 1] \in Nat
    BY <2>1
  <2> QED
    BY <1>1, <2>2 DEF IsIteration
<1>3. f = [n \in 0 .. Width |-> IF n = 0 THEN 1 ELSE 2 * f[n - 1]]
  <2>1. \A n \in 0 .. Width : n = 0 \/ n \in 1 .. Width
    BY <1>0
  <2>2. f[0] = 1
    BY <1>1 DEF IsIteration
  <2> HIDE DEF twice
  <2> QED
    BY <1>2, <2>1, <2>2
<1>4. Doubled = [n \in 0 .. Width |-> IF n = 0 THEN 1 ELSE 2 * Doubled[n - 1]]
  BY <1>3 DEF Doubled
<1>6. Doubled[0] = 1 /\ \A n \in 1 .. Width : Doubled[n] = 2 * Doubled[n - 1]
  <2>1. \A n \in 1 .. Width : n \in 0 .. Width /\ n # 0
    OBVIOUS
  <2>2. 0 \in 0 .. Width
    BY <1>0
  <2> QED
    BY <1>4, <2>1, <2>2
<1>7. \A n \in 0 .. Width : Doubled[n] \in Nat
  <2>1. \A n \in 1 .. Width : Doubled[n - 1] \in Nat => Doubled[n] \in Nat
    BY <1>6
  <2>2. Doubled[0] \in Nat
    BY <1>6
  <2> QED
    BY <1>0, <2>1, <2>2, StaysIn
<1>8. Size(Width) = 1
  <2>1. Width - Width = 0
    BY <1>0
  <2> QED
    BY <1>6, <2>1 DEF Size
<1>9. \A len \in 0 .. Width : Size(len) \in Nat
  <2>1. \A len \in 0 .. Width : Width - len \in 0 .. Width
    BY <1>0
  <2> QED
    BY <1>7, <2>1 DEF Size
<1>10. ASSUME NEW len \in 0 .. Width - 1 PROVE Size(len) = 2 * Size(len + 1)
  <2>1. Width - len \in 1 .. Width /\ (Width - len) - 1 = Width - (len + 1)
    BY <1>0
  <2> QED
    BY <1>6, <2>1 DEF Size
<1> QED
  BY <1>8, <1>9, <1>10

(* A larger network is a number of smaller ones, more than one.            *)
LEMMA SizeMultiple ==
  ASSUME NEW i \in 0 .. Width, NEW j \in 0 .. Width, i < j
  PROVE  \E k \in Nat : k >= 2 /\ Size(i) = k * Size(j)
<1> DEFINE S == {n \in Nat : j - n - 1 >= 0 =>
                    \E k \in Nat : k >= 2 /\ Size(j - n - 1) = k * Size(j)}
<1>0. Width \in Nat /\ i \in Nat /\ j \in Nat
  BY WidthAssumption
<1>1. 0 \in S
  <2>1. CASE j >= 1
    <3>1. j - 1 \in 0 .. Width - 1 /\ (j - 1) + 1 = j /\ j - 0 - 1 = j - 1
      BY <1>0, <2>1
    <3>2. Size(j - 1) = 2 * Size(j)
      BY <3>1, SizeDoubles
    <3> QED
      BY <3>1, <3>2
  <2>2. CASE j = 0
    BY <2>2
  <2> QED
    BY <1>0, <2>1, <2>2
<1>2. ASSUME NEW n \in S PROVE n + 1 \in S
  <2> SUFFICES ASSUME j - (n + 1) - 1 >= 0
               PROVE  \E k \in Nat : k >= 2 /\ Size(j - (n + 1) - 1) = k * Size(j)
    OBVIOUS
  <2>1. n \in Nat /\ j - n - 1 >= 0
    BY <1>0
  <2>2. PICK k \in Nat : k >= 2 /\ Size(j - n - 1) = k * Size(j)
    BY <2>1
  <2>3. PICK m \in 0 .. Width - 1 : m = j - (n + 1) - 1 /\ m + 1 = j - n - 1
    BY <1>0, <2>1
  <2>4. Size(m) = 2 * Size(j - n - 1)
    BY <2>3, SizeDoubles
  <2>5. PICK s \in Nat : s = Size(j)
    BY SizeDoubles
  <2>6. 2 * (k * s) = (2 * k) * s
    OBVIOUS
  <2>7. 2 * k \in Nat /\ 2 * k >= 2
    BY <2>2
  <2> QED
    BY <2>2, <2>3, <2>4, <2>5, <2>6, <2>7
<1>3. S = Nat
  <2> HIDE DEF S
  <2>1. S \in SUBSET Nat
    BY DEF S
  <2> QED
    BY <1>1, <1>2, <2>1, Induction
<1>4. PICK n \in Nat : n = j - i - 1 /\ j - n - 1 = i
  BY <1>0
<1>5. n \in S
  BY <1>3
<1> QED
  BY <1>0, <1>4, <1>5

(* No network is empty.                                                    *)
LEMMA SizePositive ==
  ASSUME NEW len \in 0 .. Width
  PROVE  Size(len) \in Nat /\ Size(len) >= 1
<1>0. Width \in Nat
  BY WidthAssumption
<1>1. CASE len = Width
  BY <1>1, SizeDoubles
<1>2. CASE len < Width
  <2>1. Width \in 0 .. Width
    BY <1>0
  <2>2. PICK k \in Nat : k >= 2 /\ Size(len) = k * Size(Width)
    BY <1>2, <2>1, SizeMultiple
  <2> QED
    BY <2>2, SizeDoubles
<1> QED
  BY <1>0, <1>1, <1>2

(* The shorter the prefix the larger the network.                          *)
LEMMA SizesOrdered ==
  ASSUME NEW i \in 0 .. Width, NEW j \in 0 .. Width
  PROVE  /\ Size(i) > Size(j) <=> i < j
         /\ Size(i) = Size(j) <=> i = j
<1>1. ASSUME NEW a \in 0 .. Width, NEW b \in 0 .. Width, a < b PROVE Size(a) > Size(b)
  <2>1. PICK k \in Nat : k >= 2 /\ Size(a) = k * Size(b)
    BY <1>1, SizeMultiple
  <2>2. PICK s \in Nat : s = Size(b) /\ s >= 1
    BY SizePositive
  <2>3. 2 * s <= k * s
    BY <2>1, TimesGrows
  <2> QED
    BY <2>1, <2>2, <2>3
<1>2. Size(i) \in Nat /\ Size(j) \in Nat /\ i \in Int /\ j \in Int
  BY SizeDoubles, WidthAssumption
<1>3. i < j \/ j < i \/ i = j
  BY <1>2
<1> QED
  BY <1>1, <1>2, <1>3


-----------------------------------------------------------------------------
(* The block of size s that holds lo: an interval from the multiple x of s. *)
IsBlock(lo, s, x) ==
    /\ s \in Nat /\ s >= 1 /\ x \in Nat /\ s * x \in Nat /\ s * x <= lo
    /\ lo % s = 0 => lo = s * x
    /\ lo - (lo % s) = s * x
    /\ {a \in 0 .. Size(0) - 1 : a \div s = x} = (s * x) .. (s * x + s - 1)

(* The addresses of a network are an interval of its size, from a multiple *)
(* of its size.                                                            *)
LEMMA BlockIs ==
  ASSUME NEW len \in 0 .. Width, NEW lo \in 0 .. Size(0) - 1
  PROVE  IsBlock(lo, Size(len), lo \div Size(len))
<1> DEFINE s == Size(len)
           x == lo \div s
<1> HIDE DEF s, x
<1>0. Width \in Nat /\ 0 \in 0 .. Width
  BY WidthAssumption
<1>1. s \in Nat /\ s >= 1
  BY SizePositive DEF s
<1>2. PICK top \in Nat : top = Size(0) /\ top >= 1
  BY <1>0, SizePositive
<1>3. lo \in Nat /\ lo < top
  BY <1>2
<1>4. PICK k \in Nat : top = k * s
  <2>1. CASE len = 0
    <3>1. top = 1 * s
      BY <1>1, <1>2, <2>1 DEF s
    <3> QED
      BY <3>1
  <2>2. CASE len # 0
    <3>1. 0 < len
      BY <1>0, <2>2
    <3> QED
      BY <1>0, <1>2, <3>1, SizeMultiple DEF s
  <2> QED
    BY <2>1, <2>2
<1>5. /\ x \in Nat /\ s * x <= lo /\ lo < s * x + s
      /\ lo = s * x + (lo % s)
  <2>1. lo \in Int /\ s \in Int /\ s > 0 /\ lo >= 0
    BY <1>1, <1>3
  <2>2. /\ lo = s * (lo \div s) + (lo % s)
        /\ s * (lo \div s) <= lo /\ lo < s * (lo \div s) + s
        /\ lo >= 0 => lo \div s \in Nat
    BY <2>1, Division
  <2> QED
    BY <2>1, <2>2 DEF x
<1>6. PICK b \in Nat : b = s * x
  BY <1>1, <1>5
<1>7. b + s <= top
  <2>1. x < k
    <3> SUFFICES ASSUME k <= x PROVE FALSE
      BY <1>4, <1>5
    <3>1. k * s <= x * s
      BY <1>1, <1>5, TimesGrows
    <3>2. x * s = b
      BY <1>1, <1>5, <1>6
    <3>3. top <= b /\ b <= lo
      BY <1>4, <1>5, <1>6, <3>1, <3>2
    <3> QED
      BY <1>2, <1>3, <1>6, <3>3
  <2>2. x + 1 \in Nat /\ x + 1 <= k
    BY <1>5, <2>1
  <2>3. (x + 1) * s <= k * s
    BY <1>1, <2>2, TimesGrows
  <2>4. (x + 1) * s = s * x + s
    BY <1>1, <1>5
  <2> QED
    BY <1>4, <1>6, <2>3, <2>4
<1>8. ASSUME NEW a
      PROVE  a \in {c \in 0 .. Size(0) - 1 : c \div s = x} <=> a \in b .. (b + s - 1)
  <2>1. ASSUME a \in 0 .. Size(0) - 1
        PROVE  a \div s = x <=> (b <= a /\ a < b + s)
    <3>1. a \in Nat /\ s \in Nat /\ s # 0 /\ x \in Nat
      BY <1>1, <1>2, <1>5, <2>1
    <3>2. a \div s = x <=> (s * x <= a /\ a < s * x + s)
      BY <3>1, Quotient
    <3> QED
      BY <1>6, <3>2
  <2>2. a \in b .. (b + s - 1) => a \in 0 .. Size(0) - 1
    BY <1>1, <1>2, <1>6, <1>7
  <2>3. a \in 0 .. Size(0) - 1 => a \in Int
    OBVIOUS
  <2>4. \A c \in Int : c \in b .. (b + s - 1) <=> (b <= c /\ c < b + s)
    BY <1>1, <1>6
  <2> QED
    BY <2>1, <2>2, <2>3, <2>4
<1>9. {a \in 0 .. Size(0) - 1 : a \div s = x} = b .. (b + s - 1)
  BY <1>8
<1>10. lo % s = 0 => lo = s * x
  BY <1>3, <1>5, <1>6
<1>11. lo - (lo % s) = s * x
  <2>1. lo % s \in Nat
    BY <1>1, <1>3
  <2> QED
    BY <1>3, <1>5, <1>6, <2>1
<1> QED
  BY <1>1, <1>5, <1>6, <1>9, <1>10, <1>11 DEF s, x, IsBlock

(* The y-th block of size s is inside the z-th of size t, and no other.     *)
Nested(s, y, t, z, x) ==
    /\ t * z <= s * y /\ s * y + s <= t * z + t
    /\ x # z => t * x + t <= s * y \/ s * y + s <= t * x

(* A small network is inside one large network, and apart from the others. *)
LEMMA BlocksNest ==
  ASSUME NEW s \in Nat, s >= 1, NEW k \in Nat, k >= 1, NEW t, t = k * s,
         NEW y \in Nat, NEW z, z = (s * y) \div t, NEW x \in Nat
  PROVE  Nested(s, y, t, z, x)
<1>1. t \in Nat /\ t >= 1
  <2>1. 1 * s <= k * s
    BY TimesGrows
  <2> QED
    BY <2>1
<1>2. PICK b \in Nat : b = s * y
  OBVIOUS
<1>3. z \in Nat /\ t * z <= b /\ b < t * z + t
  <2>1. b \in Int /\ t \in Int /\ t > 0 /\ b >= 0 /\ z = b \div t
    BY <1>1, <1>2
  <2>2. /\ t * (b \div t) <= b /\ b < t * (b \div t) + t
        /\ b >= 0 => b \div t \in Nat
    BY <2>1, Division
  <2> QED
    BY <2>1, <2>2
<1>4. b + s <= t * z + t
  <2>1. PICK w \in Nat : w = k * z + k
    BY <1>3
  <2>2. t * z + t = s * w
    <3>1. t * z = s * (k * z)
      BY <1>3
    <3>2. s * (k * z + k) = s * (k * z) + s * k
      BY <1>3
    <3> QED
      BY <2>1, <3>1, <3>2
  <2>3. y < w
    <3> SUFFICES ASSUME w <= y PROVE FALSE
      OBVIOUS
    <3>1. s * w <= s * y
      BY TimesGrows
    <3> QED
      BY <1>1, <1>2, <1>3, <2>2, <3>1
  <2>4. s * (y + 1) <= s * w
    BY <2>3, TimesGrows
  <2>5. s * (y + 1) = s * y + s
    OBVIOUS
  <2> QED
    BY <1>2, <2>2, <2>4, <2>5
<1>5. PICK c \in Nat : c = t * z
  BY <1>1, <1>3
<1>6. PICK d \in Nat : d = t * x
  BY <1>1
<1>7. x < z => d + t <= c
  <2> SUFFICES ASSUME x < z PROVE d + t <= c
    OBVIOUS
  <2>1. t * (x + 1) <= t * z
    BY <1>1, <1>3, TimesGrows
  <2>2. t * (x + 1) = t * x + t
    BY <1>1
  <2> QED
    BY <1>5, <1>6, <2>1, <2>2
<1>8. z < x => c + t <= d
  <2> SUFFICES ASSUME z < x PROVE c + t <= d
    OBVIOUS
  <2>1. t * (z + 1) <= t * x
    BY <1>1, <1>3, TimesGrows
  <2>2. t * (z + 1) = t * z + t
    BY <1>1, <1>3
  <2> QED
    BY <1>5, <1>6, <2>1, <2>2
<1>9. c <= b /\ b + s <= c + t
  BY <1>3, <1>4, <1>5
<1>10. x # z => d + t <= b \/ b + s <= d
  BY <1>1, <1>3, <1>7, <1>8, <1>9
<1> QED
  BY <1>2, <1>5, <1>6, <1>9, <1>10 DEF Nested

(* What the ends of the intervals B and C say of them as sets.             *)
Meeting(B, b, s, C, c, t) ==
    /\ B \cap C = {} <=> (b + s <= c \/ c + t <= b)
    /\ C \subseteq B <=> (b <= c /\ c + t <= b + s)
    /\ B = C <=> (b = c /\ s = t)
    /\ Cardinality(B) = s

(* Intervals that are not empty: when they meet, and when one holds the    *)
(* other.                                                                  *)
LEMMA IntervalsMeet ==
  ASSUME NEW b \in Nat, NEW s \in Nat, s >= 1, NEW c \in Nat, NEW t \in Nat, t >= 1,
         NEW B, B = b .. (b + s - 1), NEW C, C = c .. (c + t - 1)
  PROVE  Meeting(B, b, s, C, c, t)
<1>1. \A a : a \in B <=> (a \in Int /\ b <= a /\ a < b + s)
  OBVIOUS
<1>2. \A a : a \in C <=> (a \in Int /\ c <= a /\ a < c + t)
  OBVIOUS
<1>3. B \cap C = {} <=> (b + s <= c \/ c + t <= b)
  <2>1. ASSUME b + s <= c \/ c + t <= b, NEW a \in B \cap C PROVE FALSE
    BY <1>1, <1>2, <2>1
  <2>2. ASSUME ~(b + s <= c), ~(c + t <= b) PROVE B \cap C # {}
    <3>1. CASE b <= c
      <4>1. c \in B /\ c \in C
        BY <1>1, <1>2, <2>2, <3>1
      <4> QED
        BY <4>1
    <3>2. CASE c < b
      <4>1. b \in B /\ b \in C
        BY <1>1, <1>2, <2>2, <3>2
      <4> QED
        BY <4>1
    <3> QED
      BY <3>1, <3>2
  <2> QED
    BY <2>1, <2>2
<1>4. C \subseteq B <=> (b <= c /\ c + t <= b + s)
  <2>1. c \in C /\ c + t - 1 \in C
    BY <1>2
  <2>2. ASSUME C \subseteq B PROVE b <= c /\ c + t <= b + s
    <3>1. c \in B /\ c + t - 1 \in B
      BY <2>1, <2>2
    <3> QED
      BY <1>1, <3>1
  <2>3. ASSUME b <= c, c + t <= b + s, NEW a \in C PROVE a \in B
    BY <1>1, <1>2, <2>3
  <2> QED
    BY <2>2, <2>3
<1>5. B = C <=> (b = c /\ s = t)
  <2>1. ASSUME B = C PROVE b = c /\ s = t
    <3>1. b \in B /\ b + s - 1 \in B /\ c \in C /\ c + t - 1 \in C
      BY <1>1, <1>2
    <3>2. b \in C /\ b + s - 1 \in C /\ c \in B /\ c + t - 1 \in B
      BY <2>1, <3>1
    <3> QED
      BY <1>1, <1>2, <3>2
  <2> QED
    BY <2>1
<1>6. Cardinality(B) = s
  <2>1. b \in Int /\ b + s - 1 \in Int /\ ~(b > b + s - 1)
    OBVIOUS
  <2>2. (b + s - 1) - b + 1 = s
    OBVIOUS
  <2> QED
    BY <2>1, <2>2, FS_Interval
<1> QED
  BY <1>3, <1>4, <1>5, <1>6 DEF Meeting

(* A network and a query as the intervals from b and from c.               *)
Shown(o, q, b, s, c, t) ==
    /\ s = Size(o.len) /\ t = Size(q.len)
    /\ Addresses(o) = b .. (b + s - 1)
    /\ Queried(q) = c .. (c + t - 1)
    /\ Apart(Network(o), q) <=> (b + s <= c \/ c + t <= b)
    /\ ~Apart(Network(o), q) /\ o.len <= q.len => b <= c /\ c + t <= b + s
    /\ ~Apart(Network(o), q) /\ o.len >= q.len => c <= b /\ b + s <= c + t

(* A network and a query are intervals: they are apart when these do not   *)
(* meet, and otherwise the one with the shorter prefix holds the other.    *)
LEMMA NetworkAsInterval ==
  ASSUME NEW q, IsQuery(q), NEW o, IsObject(o), o.kind = "net", o.fam = q.fam
  PROVE  \E b, s, c, t \in Nat : s >= 1 /\ t >= 1 /\ Shown(o, q, b, s, c, t)
<1>0. /\ Width \in Nat /\ o.len \in 0 .. Width /\ q.len \in 0 .. Width
      /\ o.lo \in 0 .. Size(0) - 1 /\ q.lo \in 0 .. Size(0) - 1
      /\ q.lo % Size(q.len) = 0
  BY WidthAssumption DEF IsQuery, IsObject
<1>1. PICK s \in Nat : s = Size(o.len) /\ s >= 1
  BY <1>0, SizePositive
<1>2. PICK t \in Nat : t = Size(q.len) /\ t >= 1
  BY <1>0, SizePositive
<1>3. PICK x : x = o.lo \div s
  OBVIOUS
<1>4. PICK y : y = q.lo \div t
  OBVIOUS
<1>5. /\ x \in Nat /\ s * x \in Nat /\ o.lo - (o.lo % s) = s * x
      /\ {a \in 0 .. Size(0) - 1 : a \div s = x} = (s * x) .. (s * x + s - 1)
  <2>1. IsBlock(o.lo, Size(o.len), o.lo \div Size(o.len))
    BY <1>0, BlockIs
  <2> QED
    BY <1>1, <1>3, <2>1 DEF IsBlock
<1>6. /\ y \in Nat /\ t * y \in Nat /\ q.lo = t * y
      /\ {a \in 0 .. Size(0) - 1 : a \div t = y} = (t * y) .. (t * y + t - 1)
  BY <1>0, <1>2, <1>4, BlockIs DEF IsBlock
<1>7. PICK b \in Nat : b = s * x
  BY <1>5
<1>8. PICK c \in Nat : c = t * y
  BY <1>6
<1>9. Addresses(o) = b .. (b + s - 1) /\ Queried(q) = c .. (c + t - 1)
  BY <1>1, <1>2, <1>3, <1>4, <1>5, <1>6, <1>7, <1>8 DEF Addresses, Queried
<1>10. Network(o) = [fam |-> q.fam, lo |-> b, len |-> o.len]
  BY <1>1, <1>5, <1>7 DEF Network
<1>11. b \div s = x
  BY <1>1, <1>5, <1>7, Quotient
<1>12. c \div t = y
  BY <1>4, <1>6, <1>8
<1>13. CASE o.len < q.len
  <2>1. PICK k \in Nat : k >= 2 /\ s = k * t
    BY <1>0, <1>1, <1>2, <1>13, SizeMultiple
  <2>2. PICK z : z = (t * y) \div s
    OBVIOUS
  <2>3. Nested(t, y, s, z, x)
    <3>1. k >= 1
      BY <2>1
    <3> QED
      BY <1>2, <1>5, <1>6, <2>1, <2>2, <3>1, BlocksNest
  <2>4. Apart(Network(o), q) <=> x # z
    <3>1. q.lo = t * y
      BY <1>6
    <3> QED
      BY <1>1, <1>10, <1>11, <1>13, <2>2, <3>1 DEF Apart, Shorter
  <2>5. ~Apart(Network(o), q) => b <= c /\ c + t <= b + s
    BY <1>7, <1>8, <2>3, <2>4 DEF Nested
  <2>6. Apart(Network(o), q) => b + s <= c \/ c + t <= b
    BY <1>7, <1>8, <2>3, <2>4 DEF Nested
  <2>7. Apart(Network(o), q) <=> (b + s <= c \/ c + t <= b)
    BY <1>1, <1>2, <2>5, <2>6
  <2>8. ~(o.len >= q.len)
    BY <1>0, <1>13
  <2> QED
    BY <1>1, <1>2, <1>9, <2>5, <2>7, <2>8 DEF Shown
<1>14. CASE o.len >= q.len
  <2>1. PICK k \in Nat : k >= 1 /\ t = k * s /\ (o.len <= q.len => k = 1)
    <3>1. CASE o.len = q.len
      <4>1. t = 1 * s
        BY <1>1, <1>2, <3>1
      <4> QED
        BY <4>1
    <3>2. CASE q.len < o.len
      <4>1. PICK k \in Nat : k >= 2 /\ t = k * s
        BY <1>0, <1>1, <1>2, <3>2, SizeMultiple
      <4>2. ~(o.len <= q.len)
        BY <1>0, <3>2
      <4> QED
        BY <4>1, <4>2
    <3> QED
      BY <1>0, <1>14, <3>1, <3>2
  <2>2. PICK z : z = (s * x) \div t
    OBVIOUS
  <2>3. Nested(s, x, t, z, y)
    BY <1>1, <1>5, <1>6, <2>1, <2>2, BlocksNest
  <2>4. Apart(Network(o), q) <=> y # z
    <3>1. q.lo = c /\ c \div t = y /\ b \div t = z
      BY <1>6, <1>7, <1>8, <1>12, <2>2
    <3>2. Shorter(Network(o), q) = q.len
      <4>1. ~(o.len < q.len)
        BY <1>0, <1>14
      <4> QED
        BY <1>10, <4>1 DEF Shorter
    <3> QED
      BY <1>2, <1>10, <3>1, <3>2 DEF Apart
  <2>5. ~Apart(Network(o), q) => c <= b /\ b + s <= c + t
    BY <1>7, <1>8, <2>3, <2>4 DEF Nested
  <2>6. Apart(Network(o), q) => b + s <= c \/ c + t <= b
    BY <1>7, <1>8, <2>3, <2>4 DEF Nested
  <2>7. Apart(Network(o), q) <=> (b + s <= c \/ c + t <= b)
    BY <1>1, <1>2, <2>5, <2>6
  <2>8. ~Apart(Network(o), q) /\ o.len <= q.len => b <= c /\ c + t <= b + s
    <3> SUFFICES ASSUME ~Apart(Network(o), q), o.len <= q.len
                 PROVE  b <= c /\ c + t <= b + s
      OBVIOUS
    <3>1. s = t
      BY <2>1
    <3>2. c <= b /\ b + s <= c + t
      BY <2>5
    <3> QED
      BY <3>1, <3>2
  <2> QED
    BY <1>1, <1>2, <1>9, <2>5, <2>7, <2>8 DEF Shown
<1> QED
  BY <1>0, <1>1, <1>2, <1>13, <1>14

(* A network is a match when it is in the way.                             *)
LEMMA NetworkVerdict ==
  ASSUME NEW q, IsQuery(q), NEW o, IsObject(o), o.kind = "net", o.fam = q.fam
  PROVE  (Relation(o, q) # "none" /\ ~MatchAll(o, q) /\ ~Broad(o, q)) <=> InTheWay(o, q)
<1>1. PICK b, s, c, t \in Nat : s >= 1 /\ t >= 1 /\ Shown(o, q, b, s, c, t)
  BY NetworkAsInterval
<1>2. /\ Width \in Nat /\ o.len \in 0 .. Width /\ q.len \in 0 .. Width
      /\ 0 \in 0 .. Width /\ MinMatch[q.fam] \in 0 .. Width
  BY WidthAssumption DEF IsQuery, IsObject
<1>3. /\ Addresses(o) \cap Queried(q) = {} <=> (b + s <= c \/ c + t <= b)
      /\ Queried(q) \subseteq Addresses(o) <=> (b <= c /\ c + t <= b + s)
      /\ Addresses(o) = Queried(q) <=> (b = c /\ s = t)
      /\ Cardinality(Addresses(o)) = s
  <2>1. Meeting(Addresses(o), b, s, Queried(q), c, t)
    BY <1>1, IntervalsMeet DEF Shown
  <2> QED
    BY <2>1 DEF Meeting
<1>4. /\ s > Size(MinMatch[q.fam]) <=> o.len < MinMatch[q.fam]
      /\ s = Size(0) <=> o.len = 0
      /\ s = t <=> o.len = q.len
      /\ s > t <=> o.len < q.len
  BY <1>1, <1>2, SizesOrdered DEF Shown
<1>5. Network(o).len = o.len /\ Network(o).fam = q.fam
  BY DEF Network
<1>6. Relation(o, q) = NetworkRelation(Network(o), q)
  BY DEF Relation
<1>7. MatchAll(o, q) <=> o.len = 0
  BY <1>5 DEF MatchAll, NetworkIsMatchAll
<1>8. Broad(o, q) <=> Relation(o, q) = "supernet" /\ o.len < MinMatch[q.fam]
  BY <1>5 DEF Broad, IsBroad
<1>9. CASE Apart(Network(o), q)
  <2>1. Relation(o, q) = "none"
    BY <1>6, <1>9 DEF NetworkRelation
  <2>2. Addresses(o) \cap Queried(q) = {}
    BY <1>1, <1>3, <1>9 DEF Shown
  <2> QED
    BY <2>1, <2>2 DEF InTheWay
<1>10. CASE ~Apart(Network(o), q)
  <2>1. Addresses(o) \cap Queried(q) # {}
    BY <1>1, <1>3, <1>10 DEF Shown
  <2>2. CASE o.len = q.len
    <3>1. Relation(o, q) = "exact"
      <4>1. ~(o.len < q.len) /\ ~(o.len > q.len)
        BY <1>2, <2>2
      <4> QED
        BY <1>5, <1>6, <1>10, <2>2, <4>1 DEF NetworkRelation
    <3>2. Addresses(o) = Queried(q)
      <4>1. o.len <= q.len /\ o.len >= q.len
        BY <1>2, <2>2
      <4>2. b <= c /\ c <= b
        BY <1>1, <1>10, <4>1 DEF Shown
      <4> QED
        BY <1>3, <1>4, <2>2, <4>2
    <3>3. InTheWay(o, q) <=> o.len # 0
      BY <1>3, <1>4, <2>1, <3>2 DEF InTheWay, Wide
    <3>4. ~Broad(o, q)
      BY <1>8, <3>1
    <3> QED
      BY <1>7, <3>1, <3>3, <3>4
  <2>3. CASE o.len < q.len
    <3>1. Relation(o, q) = "supernet"
      <4>1. o.len # q.len /\ ~(o.len > q.len)
        BY <1>2, <2>3
      <4> QED
        BY <1>5, <1>6, <1>10, <2>3, <4>1 DEF NetworkRelation
    <3>2. Queried(q) \subseteq Addresses(o) /\ Addresses(o) # Queried(q)
      <4>1. o.len <= q.len /\ o.len # q.len
        BY <1>2, <2>3
      <4> QED
        BY <1>1, <1>3, <1>4, <1>10, <4>1 DEF Shown
    <3>3. InTheWay(o, q) <=> ~(o.len < MinMatch[q.fam] \/ o.len = 0)
      BY <1>3, <1>4, <2>1, <3>2 DEF InTheWay, Wide
    <3> QED
      BY <1>7, <1>8, <3>1, <3>3
  <2>4. CASE o.len > q.len
    <3>0. ~(o.len < q.len) /\ o.len # q.len /\ o.len # 0
      BY <1>2, <2>4
    <3>1. Relation(o, q) = "subnet"
      BY <1>5, <1>6, <1>10, <2>4, <3>0 DEF NetworkRelation
    <3>2. ~(Queried(q) \subseteq Addresses(o))
      <4>1. s < t
        BY <1>1, <1>4, <3>0
      <4> QED
        BY <1>3, <4>1
    <3>3. InTheWay(o, q)
      BY <2>1, <3>2 DEF InTheWay, Wide
    <3> QED
      BY <1>7, <1>8, <3>0, <3>1, <3>3
  <2> QED
    BY <1>2, <2>2, <2>3, <2>4
<1> QED
  BY <1>9, <1>10

(* A range of just the addresses of a query that is itself broad.          *)
BroadTwin(o, q) ==
    /\ o.kind = "range" /\ o.fam = q.fam /\ o.lo = q.lo /\ o.hi = Final(q)
    /\ q.len < MinMatch[q.fam]

(* A range that is not such a twin is a match when it is in the way.       *)
LEMMA RangeVerdict ==
  ASSUME NEW q, IsQuery(q), NEW o, IsObject(o), o.kind = "range", o.fam = q.fam,
         ~BroadTwin(o, q)
  PROVE  (Relation(o, q) # "none" /\ ~MatchAll(o, q) /\ ~Broad(o, q)) <=> InTheWay(o, q)
<1>0. /\ Width \in Nat /\ q.len \in 0 .. Width /\ 0 \in 0 .. Width
      /\ MinMatch[q.fam] \in 0 .. Width
      /\ q.lo \in 0 .. Size(0) - 1 /\ q.lo % Size(q.len) = 0
      /\ o.lo \in 0 .. Size(0) - 1 /\ o.hi \in o.lo .. Size(0) - 1
  BY WidthAssumption DEF IsQuery, IsObject
<1>1. PICK t \in Nat : t = Size(q.len) /\ t >= 1
  BY <1>0, SizePositive
<1>2. PICK b \in Nat : b = o.lo
  BY <1>0
<1>3. PICK s \in Nat : s = o.hi - o.lo + 1 /\ s >= 1
  BY <1>0, <1>2
<1>4. PICK c \in Nat : c = q.lo
  BY <1>0
<1>5. Addresses(o) = b .. (b + s - 1)
  <2>1. o.hi = b + s - 1
    BY <1>0, <1>2, <1>3
  <2> QED
    BY <1>2, <2>1 DEF Addresses
<1>6. Queried(q) = c .. (c + t - 1)
  <2>1. PICK y : y = q.lo \div t
    OBVIOUS
  <2>2. /\ q.lo = t * y
        /\ {a \in 0 .. Size(0) - 1 : a \div t = y} = (t * y) .. (t * y + t - 1)
    BY <1>0, <1>1, <2>1, BlockIs DEF IsBlock
  <2> QED
    BY <1>1, <1>4, <2>1, <2>2 DEF Queried
<1>7. /\ Addresses(o) \cap Queried(q) = {} <=> (b + s <= c \/ c + t <= b)
      /\ Queried(q) \subseteq Addresses(o) <=> (b <= c /\ c + t <= b + s)
      /\ Addresses(o) = Queried(q) <=> (b = c /\ s = t)
      /\ Cardinality(Addresses(o)) = s
  <2>1. Meeting(Addresses(o), b, s, Queried(q), c, t)
    BY <1>1, <1>3, <1>5, <1>6, IntervalsMeet
  <2> QED
    BY <2>1 DEF Meeting
<1>8. /\ o.lo = b /\ o.hi = b + s - 1 /\ q.lo = c /\ Final(q) = c + t - 1
      /\ o.hi - o.lo + 1 = s
  BY <1>0, <1>1, <1>2, <1>3, <1>4 DEF Final
<1>9. Relation(o, q) = "none" <=> (b + s <= c \/ c + t <= b)
  BY <1>1, <1>3, <1>8 DEF Relation, RangeRelation, Contains
<1>10. Relation(o, q) = "supernet" <=> (b <= c /\ c + t <= b + s)
  BY <1>1, <1>3, <1>8 DEF Relation, RangeRelation, Contains
<1>11. PICK w \in Nat : w = Size(0) /\ b + s <= w
  <2>1. Size(0) \in Nat
    BY <1>0, SizePositive
  <2> QED
    BY <1>0, <1>8, <2>1
<1>12. MatchAll(o, q) <=> s = w
  <2>1. MatchAll(o, q) <=> (b = 0 /\ b + s - 1 = w - 1)
    BY <1>8, <1>11 DEF MatchAll, RangeIsMatchAll
  <2> QED
    BY <1>11, <2>1
<1>13. PICK m \in Nat : m = Size(MinMatch[q.fam])
  BY <1>0, SizePositive
<1>14. Broad(o, q) <=> Relation(o, q) = "supernet" /\ s > m
  BY <1>8, <1>13 DEF Broad, RangeIsBroad
<1>15. ~(b = c /\ s = t /\ s > m)
  <2> SUFFICES ASSUME b = c, s = t, s > m PROVE FALSE
    OBVIOUS
  <2>1. q.len < MinMatch[q.fam]
    BY <1>0, <1>1, <1>13, SizesOrdered
  <2> QED
    BY <1>8, <2>1 DEF BroadTwin
<1>16. Wide(o, q) <=> (Relation(o, q) = "supernet" /\ ((~(b = c /\ s = t) /\ s > m) \/ s = w))
  BY <1>7, <1>10, <1>11, <1>13 DEF Wide
<1>17. InTheWay(o, q) <=> (Relation(o, q) # "none" /\ ~Wide(o, q))
  BY <1>7, <1>9 DEF InTheWay
<1>18. ASSUME s = w PROVE Relation(o, q) = "supernet"
  <2>1. c + t <= w
    <3>1. \A a \in Queried(q) : a < w
      BY <1>11 DEF Queried
    <3>2. c + t - 1 \in Queried(q)
      BY <1>1, <1>6
    <3> QED
      BY <1>1, <3>1, <3>2
  <2>2. b = 0
    BY <1>11, <1>18
  <2> QED
    BY <1>10, <1>18, <2>1, <2>2
<1>19. Relation(o, q) = "supernet" => Relation(o, q) # "none"
  OBVIOUS
<1> QED
  BY <1>12, <1>14, <1>15, <1>16, <1>17, <1>18, <1>19

(* The matches of the analysis are the objects in the way.                 *)
LEMMA ObjectVerdict ==
  ASSUME NEW q, IsQuery(q), NEW o, IsObject(o), ~BroadTwin(o, q)
  PROVE  (Relation(o, q) # "none" /\ ~MatchAll(o, q) /\ ~Broad(o, q)) <=> InTheWay(o, q)
<1>1. CASE o.kind = "net" /\ o.fam = q.fam
  BY <1>1, NetworkVerdict
<1>2. CASE o.kind = "range" /\ o.fam = q.fam
  BY <1>2, RangeVerdict
<1>3. CASE o.fam # q.fam
  <2>1. ~InTheWay(o, q)
    BY <1>3 DEF InTheWay
  <2>2. Relation(o, q) = "none"
    <3>1. Network(o).fam = o.fam
      BY DEF Network
    <3> QED
      BY <1>3, <3>1 DEF Relation, NetworkRelation, Apart, RangeRelation
  <2> QED
    BY <2>1, <2>2
<1>4. CASE o.kind # "net" /\ o.kind # "range"
  BY <1>4 DEF Relation, InTheWay, Addresses
<1> QED
  BY <1>1, <1>2, <1>3, <1>4

-----------------------------------------------------------------------------
(* A set of groups with every group that holds one of them or the name.    *)
IsClosed(start, groups, gs) ==
    \A g \in DOMAIN groups : groups[g] \cap ({start} \cup gs) # {} => g \in gs

(* The search through the groups ends with the least closed set.           *)
LEMMA GroupsAreClosure ==
  ASSUME NEW groups, IsFiniteSet(DOMAIN groups), NEW start
  PROVE  /\ GroupsContaining(start, groups) \in SUBSET DOMAIN groups
         /\ IsClosed(start, groups, GroupsContaining(start, groups))
         /\ \A gs \in SUBSET DOMAIN groups :
              IsClosed(start, groups, gs) => GroupsContaining(start, groups) \subseteq gs
<1> DEFINE Around(names) == {g \in DOMAIN groups : groups[g] \cap names # {}}
           N == Cardinality(DOMAIN groups)
           found[n \in 0 .. N] ==
             IF n = 0 THEN {} ELSE found[n - 1] \cup Around(found[n - 1] \cup {start})
           X == SUBSET DOMAIN groups
           step == [x \in X |-> x \cup Around(x \cup {start})]
<1>0. N \in Nat
  BY FS_CardinalityType
<1>1. /\ found \in [0 .. N -> X] /\ found[0] = {}
      /\ \A n \in 1 .. N : found[n] = found[n - 1] \cup Around(found[n - 1] \cup {start})
  <2>1. step \in [X -> X] /\ {} \in X
    OBVIOUS
  <2>2. PICK f \in [0 .. N -> X] : IsIteration(f, {}, step, N)
    <3> HIDE DEF step, X, N, found
    <3> QED
      BY <1>0, <2>1, Iterates
  <2>3. \A n \in 0 .. N : n = 0 \/ (n \in 1 .. N /\ n - 1 \in 0 .. N)
    BY <1>0
  <2>4. f[0] = {} /\ \A n \in 1 .. N : f[n] = f[n - 1] \cup Around(f[n - 1] \cup {start})
    <3>1. ASSUME NEW n \in 1 .. N PROVE f[n] = f[n - 1] \cup Around(f[n - 1] \cup {start})
      <4>1. n - 1 \in 0 .. N
        BY <1>0
      <4>2. PICK x \in X : x = f[n - 1]
        BY <4>1
      <4>3. f[n] = step[x]
        BY <2>2, <4>2 DEF IsIteration
      <4>4. step[x] = x \cup Around(x \cup {start})
        OBVIOUS
      <4> QED
        BY <4>2, <4>3, <4>4
    <3>2. f[0] = {}
      BY <2>2 DEF IsIteration
    <3> QED
      BY <3>1, <3>2
  <2>5. f = [n \in 0 .. N |-> IF n = 0 THEN {} ELSE f[n - 1] \cup Around(f[n - 1] \cup {start})]
    <3> HIDE DEF Around, N, X, found, step
    <3>1. \A n \in 0 .. N :
            f[n] = IF n = 0 THEN {} ELSE f[n - 1] \cup Around(f[n - 1] \cup {start})
      BY <2>3, <2>4
    <3> QED
      BY <3>1
  <2>6. found = [n \in 0 .. N |-> IF n = 0 THEN {}
                   ELSE found[n - 1] \cup Around(found[n - 1] \cup {start})]
    <3> HIDE DEF Around, N, X, step
    <3> QED
      BY <2>5 DEF found
  <2> HIDE DEF Around, X, found, step
  <2>7. \A n \in 0 .. N :
          found[n] = IF n = 0 THEN {} ELSE found[n - 1] \cup Around(found[n - 1] \cup {start})
    BY <2>6
  <2>8. found[0] = {}
    <3>1. 0 \in 0 .. N
      BY <1>0
    <3> QED
      BY <2>7, <3>1
  <2>9. \A n \in 1 .. N : found[n] = found[n - 1] \cup Around(found[n - 1] \cup {start})
    <3>1. \A n \in 1 .. N : n \in 0 .. N /\ n # 0
      OBVIOUS
    <3> QED
      BY <2>7, <3>1
  <2>10. \A n \in 0 .. N : found[n] \in X
    <3>1. \A n \in 1 .. N : found[n - 1] \in X => found[n] \in X
      BY <2>9 DEF X, Around
    <3>2. found[0] \in X
      BY <2>8 DEF X
    <3> QED
      BY <1>0, <3>1, <3>2, StaysIn
  <2>11. found \in [0 .. N -> X]
    BY <2>6, <2>10
  <2> QED
    BY <2>8, <2>9, <2>11
<1>2. GroupsContaining(start, groups) = found[N]
  BY Zenon DEF GroupsContaining
<1> HIDE DEF found, step
<1>3. \A n \in 0 .. N : found[n] \in SUBSET DOMAIN groups
  BY <1>1
<1>4. ASSUME NEW n \in 0 .. N
      PROVE  IsClosed(start, groups, found[n]) \/ Cardinality(found[n]) >= n
  <2> DEFINE Y == {x \in (0 .. N) \X SUBSET DOMAIN groups :
                     IsClosed(start, groups, x[2]) \/ Cardinality(x[2]) >= x[1]}
             pair == [m \in 0 .. N |-> <<m, found[m]>>]
  <2>1. pair[0] \in Y
    <3>1. 0 \in 0 .. N /\ Cardinality({}) = 0
      BY <1>0, FS_EmptySet
    <3>2. pair[0] = <<0, {}>>
      BY <1>1, <3>1
    <3>3. <<0, {}>> \in Y
      BY <3>1
    <3> QED
      BY <3>2, <3>3
  <2>2. ASSUME NEW m \in 1 .. N, pair[m - 1] \in Y PROVE pair[m] \in Y
    <3>0. m \in 0 .. N /\ m - 1 \in 0 .. N /\ m \in Nat
      BY <1>0
    <3>1. IsClosed(start, groups, found[m - 1]) \/ Cardinality(found[m - 1]) >= m - 1
      BY <2>2, <3>0
    <3>2. found[m] = found[m - 1] \cup Around(found[m - 1] \cup {start})
      BY <1>1
    <3>3. CASE IsClosed(start, groups, found[m - 1])
      <4>1. found[m] = found[m - 1]
        BY <3>2, <3>3 DEF IsClosed
      <4> QED
        BY <1>3, <3>0, <3>3, <4>1
    <3>4. CASE /\ ~IsClosed(start, groups, found[m - 1])
               /\ Cardinality(found[m - 1]) >= m - 1
      <4>1. found[m] # found[m - 1] /\ found[m - 1] \subseteq found[m]
        BY <3>2, <3>4 DEF IsClosed
      <4>2. IsFiniteSet(found[m])
        BY <1>3, <3>0, FS_Subset
      <4>3. /\ IsFiniteSet(found[m - 1])
            /\ Cardinality(found[m - 1]) <= Cardinality(found[m])
            /\ Cardinality(found[m - 1]) # Cardinality(found[m])
        BY <4>1, <4>2, FS_Subset
      <4>4. Cardinality(found[m - 1]) \in Nat /\ Cardinality(found[m]) \in Nat
        BY <4>2, <4>3, FS_CardinalityType
      <4>5. Cardinality(found[m]) >= m
        BY <3>0, <3>4, <4>3, <4>4
      <4> QED
        BY <1>3, <3>0, <4>5
    <3> QED
      BY <3>1, <3>3, <3>4
  <2>3. \A m \in 0 .. N : pair[m] \in Y
    <3> HIDE DEF pair, Y
    <3>1. \A m \in 1 .. N : pair[m - 1] \in Y => pair[m] \in Y
      BY <2>2
    <3> QED
      BY <1>0, <2>1, <3>1, StaysIn
  <2>4. pair[n] \in Y
    BY <2>3
  <2> QED
    BY <2>4
<1>5. N \in 0 .. N
  BY <1>0
<1>6. IsClosed(start, groups, found[N])
  <2>1. CASE Cardinality(found[N]) >= N
    <3>1. found[N] \subseteq DOMAIN groups
      BY <1>3, <1>5
    <3>2. /\ IsFiniteSet(found[N]) /\ Cardinality(found[N]) <= N
          /\ Cardinality(found[N]) = N => found[N] = DOMAIN groups
      BY <3>1, FS_Subset
    <3>3. Cardinality(found[N]) \in Nat
      BY <3>2, FS_CardinalityType
    <3>4. found[N] = DOMAIN groups
      BY <1>0, <2>1, <3>2, <3>3
    <3> QED
      BY <3>4 DEF IsClosed
  <2> QED
    BY <1>4, <1>5, <2>1
<1>7. ASSUME NEW gs \in SUBSET DOMAIN groups, IsClosed(start, groups, gs)
      PROVE  found[N] \subseteq gs
  <2>1. found[0] \in SUBSET gs
    BY <1>1
  <2>2. ASSUME NEW n \in 1 .. N, found[n - 1] \in SUBSET gs PROVE found[n] \in SUBSET gs
    <3>1. found[n] = found[n - 1] \cup Around(found[n - 1] \cup {start})
      BY <1>1
    <3> QED
      BY <1>7, <2>2, <3>1 DEF IsClosed
  <2>3. \A n \in 0 .. N : found[n] \in SUBSET gs
    BY <1>0, <2>1, <2>2, StaysIn
  <2> QED
    BY <1>5, <2>3
<1> QED
  BY <1>2, <1>3, <1>5, <1>6, <1>7

(* A policy reaches an object when it refers to a name of its closure.     *)
LEMMA ReferencedIsUsed ==
  ASSUME NEW o, NEW wall, IsFiniteSet(DOMAIN wall.groups)
  PROVE  Referenced(o, wall) <=> Used(o, wall)
<1> DEFINE refs == wall.policy \cup wall.security
           gc == GroupsContaining(o.name, wall.groups)
<1>1. /\ gc \in SUBSET DOMAIN wall.groups
      /\ IsClosed(o.name, wall.groups, gc)
      /\ \A gs \in SUBSET DOMAIN wall.groups :
           IsClosed(o.name, wall.groups, gs) => gc \subseteq gs
  BY GroupsAreClosure
<1>2. Referenced(o, wall) <=> ({o.name} \cup gc) \cap refs # {}
  BY DEF Referenced
<1> HIDE DEF gc, refs
<1>3. Used(o, wall) <=>
        \A gs \in SUBSET DOMAIN wall.groups :
          IsClosed(o.name, wall.groups, gs) => ({o.name} \cup gs) \cap refs # {}
  BY DEF Used, IsClosed, refs
<1>4. ASSUME ({o.name} \cup gc) \cap refs # {},
             NEW gs \in SUBSET DOMAIN wall.groups, IsClosed(o.name, wall.groups, gs)
      PROVE  ({o.name} \cup gs) \cap refs # {}
  BY <1>1, <1>4
<1> QED
  BY <1>1, <1>2, <1>3, <1>4

-----------------------------------------------------------------------------
(* What the check has read and said: the firewalls hold what the parsers   *)
(* accept, a report is the analysis of what was read, and nothing is       *)
(* offered or created where it says that the subnet is there.              *)
Readable(wall) ==
    /\ "objects" \in DOMAIN wall
    /\ \A o \in wall.objects : IsObject(o) /\ ~BroadTwin(o, query)
    /\ IsFiniteSet(DOMAIN wall.groups)
Analyzed == report = Analyze(query, seen) /\ Readable(seen)
Reading ==
    /\ IsQuery(query)
    /\ \A o \in Others : ~BroadTwin(o, query)
    /\ DOMAIN fw = DOMAIN Environments
    /\ \A e \in DOMAIN Environments : Readable(fw[e])
Telling ==
    /\ pc \in {"menu", "build", "confirm", "run"} => report = NoReport /\ status = "none"
    /\ report # NoReport => Analyzed
    /\ pc \in {"offer", "name", "typed", "post"} => Analyzed /\ ~report.present
    /\ status = "changed" /\ tool = "check" => ~report.present

VInv == Reading /\ Telling

(* No firewall has such a twin of a query, at first or by somebody's edit.  *)
NoTwins ==
    \A input \in Inputs : \A o \in input[1].objects \cup Others : ~BroadTwin(o, input[2])

(* At first the firewalls are readable and nothing is said of them.        *)
LEMMA InitVInv == NoTwins /\ Init => VInv
<1> SUFFICES ASSUME NoTwins, Init PROVE VInv
  OBVIOUS
<1>1. PICK input \in Inputs : fw = [e \in DOMAIN Environments |-> input[1]] /\ query = input[2]
  BY DEF Init
<1>2. Readable(input[1])
  BY <1>1, InputsAssumption DEF NoTwins, Readable
<1>3. Reading
  BY <1>1, <1>2, InputsAssumption DEF NoTwins, Reading
<1>4. Telling
  BY DEF Init, Telling
<1> QED
  BY <1>3, <1>4 DEF VInv

(* A firewall with another set of objects.                                 *)
LEMMA StaysReadable ==
  ASSUME DOMAIN fw = DOMAIN Environments, NEW e0 \in DOMAIN Environments,
         \A e \in DOMAIN Environments : Readable(fw[e]), query' = query,
         NEW objects, \A o \in objects : IsObject(o) /\ ~BroadTwin(o, query),
         fw' = [fw EXCEPT ![e0].objects = objects]
  PROVE  DOMAIN fw' = DOMAIN Environments /\ \A e \in DOMAIN Environments : Readable(fw[e])'
<1>1. DOMAIN fw' = DOMAIN Environments
  OBVIOUS
<1>2. ASSUME NEW e \in DOMAIN Environments PROVE Readable(fw'[e])
  <2>1. CASE e # e0
    <3>1. fw'[e] = fw[e]
      BY <2>1
    <3> QED
      BY <3>1
  <2>2. CASE e = e0
    <3>1. Readable(fw[e])
      OBVIOUS
    <3>2. fw'[e] = [fw[e] EXCEPT !.objects = objects]
      BY <2>2
    <3>3. /\ DOMAIN fw'[e] = DOMAIN fw[e] /\ fw'[e].objects = objects
          /\ fw'[e].groups = fw[e].groups
      BY <3>1, <3>2 DEF Readable
    <3> QED
      BY <3>1, <3>3 DEF Readable
  <2> QED
    BY <2>1, <2>2
<1>3. \A e \in DOMAIN Environments : Readable(fw[e])'
  BY <1>2 DEF Readable, BroadTwin, Final
<1> QED
  BY <1>1, <1>3

(* Every step leaves what the firewalls hold readable.                     *)
LEMMA NextReading == Places /\ Reading /\ [Next]_vars => Reading'
<1> SUFFICES ASSUME Places, Reading, [Next]_vars PROVE Reading'
  OBVIOUS
<1> USE DEF World, Choice
<1>0. query' = query
  BY QueryStays
<1>1. ASSUME fw' = fw PROVE Reading'
  BY <1>0, <1>1 DEF Reading, Readable, BroadTwin, Final
<1>2. ASSUME env \in DOMAIN Environments, NEW objects,
             fw' = [fw EXCEPT ![env].objects = objects],
             \A o \in objects : IsObject(o) /\ ~BroadTwin(o, query)
      PROVE  Reading'
  <2>1. /\ DOMAIN fw' = DOMAIN Environments
        /\ \A e \in DOMAIN Environments : Readable(fw[e])'
    BY <1>0, <1>2, StaysReadable DEF Reading
  <2> QED
    BY <1>0, <2>1 DEF Reading, BroadTwin, Final
<1>3. CASE ChooseNetwork \/ ChooseArea \/ Back \/ Quit \/ PromptForArgs \/ ParseArguments
  BY <1>1, <1>3 DEF ChooseNetwork, ChooseArea, Back, Quit, Menu, PromptForArgs, ParseArguments, Started
<1>4. CASE BuildContext \/ ConfirmApply \/ RunSync \/ Refuse \/ Check \/ ReadFails
  BY <1>1, <1>4 DEF BuildContext, ConfirmApply, RunSync, Refuse, Check, ReadFails, Goes, Fails
<1>5. CASE ConfirmCreate \/ ChooseName \/ ConfirmProtected \/ HangUp \/ End
  BY <1>1, <1>5 DEF ConfirmCreate, ChooseName, ConfirmProtected, HangUp, End, Goes, Fails
<1>6. ASSUME pc = "post", fw' = Created PROVE Reading'
  <2>1. env \in DOMAIN Environments
    BY <1>6 DEF Places
  <2>2. Readable(fw[env])
    BY <2>1 DEF Reading
  <2>3. IsObject(NewObject) /\ ~BroadTwin(NewObject, query)
    BY DEF Reading, IsQuery, IsObject, BroadTwin, NewObject
  <2>4. fw' = [fw EXCEPT ![env].objects = fw[env].objects \cup {NewObject}]
    BY <1>6, <2>1 DEF Created, Reading
  <2>5. \A o \in fw[env].objects \cup {NewObject} : IsObject(o) /\ ~BroadTwin(o, query)
    BY <2>2, <2>3 DEF Readable
  <2> QED
    BY <1>2, <2>1, <2>4, <2>5
<1>7. CASE CreateAddress \/ CreateFails
  <2>1. pc = "post" /\ (fw' = fw \/ fw' = Created)
    BY <1>7 DEF CreateAddress, CreateFails
  <2> QED
    BY <1>1, <1>6, <2>1
<1>8. CASE SomebodyEdits
  <2>1. env \in DOMAIN Environments
    BY <1>8 DEF SomebodyEdits, Places
  <2>2. \A o \in fw[env].objects : IsObject(o) /\ ~BroadTwin(o, query)
    BY <2>1 DEF Reading, Readable
  <2>3. \A o \in Others : IsObject(o) /\ ~BroadTwin(o, query)
    BY OthersAssumption DEF Reading
  <2>4. CASE \E o \in Others : fw' = [fw EXCEPT ![env].objects = @ \cup {o}]
    <3>1. PICK o \in Others : fw' = [fw EXCEPT ![env].objects = @ \cup {o}]
      BY <2>4
    <3>2. fw' = [fw EXCEPT ![env].objects = fw[env].objects \cup {o}]
      BY <2>1, <3>1 DEF Reading
    <3>3. \A p \in fw[env].objects \cup {o} : IsObject(p) /\ ~BroadTwin(p, query)
      BY <2>2, <2>3
    <3> QED
      BY <1>2, <2>1, <3>2, <3>3
  <2>5. CASE \E o \in fw[env].objects : fw' = [fw EXCEPT ![env].objects = @ \ {o}]
    <3>1. PICK o \in fw[env].objects : fw' = [fw EXCEPT ![env].objects = @ \ {o}]
      BY <2>5
    <3>2. fw' = [fw EXCEPT ![env].objects = fw[env].objects \ {o}]
      BY <2>1, <3>1 DEF Reading
    <3>3. \A p \in fw[env].objects \ {o} : IsObject(p) /\ ~BroadTwin(p, query)
      BY <2>2
    <3> QED
      BY <1>2, <2>1, <3>2, <3>3
  <2> QED
    BY <1>8, <2>4, <2>5 DEF SomebodyEdits
<1>9. CASE UNCHANGED vars
  BY <1>1, <1>9 DEF vars
<1> QED
  BY <1>3, <1>4, <1>5, <1>7, <1>8, <1>9 DEF Next

(* Every step leaves what is said of the subnet what was read of it.       *)
LEMMA NextTelling == TypeOK /\ Places /\ Asking /\ VInv /\ [Next]_vars => Telling'
<1> SUFFICES ASSUME TypeOK, Places, Asking, Reading, Telling, [Next]_vars PROVE Telling'
  BY DEF VInv
<1> USE DEF World, Choice
<1>0. query' = query
  BY QueryStays
<1> DEFINE Early == pc \in {"menu", "build", "confirm", "run"}
           Late == pc \in {"offer", "name", "typed", "post"}
<1>1. ASSUME report' = report, seen' = seen PROVE Analyzed => Analyzed'
  BY <1>0, <1>1 DEF Analyzed, Readable, BroadTwin, Final
<1>2. ASSUME report' = report, seen' = seen,
             Early' => Early /\ status' = status, Late' => Late,
             status' = "changed" => tool' = tool /\ (status = "changed" \/ Early \/ Late)
      PROVE  Telling'
  <2>1. Early' => report' = NoReport /\ status' = "none"
    BY <1>2 DEF Telling
  <2>2. report' # NoReport => Analyzed'
    BY <1>1, <1>2 DEF Telling
  <2>3. Late' => Analyzed' /\ ~report'.present
    BY <1>1, <1>2 DEF Telling
  <2>4. status' = "changed" /\ tool' = "check" => ~report'.present
    BY <1>2 DEF Telling, NoReport
  <2> QED
    BY <2>1, <2>2, <2>3, <2>4 DEF Telling
<1>3. CASE ChooseNetwork \/ ChooseArea \/ Back \/ Quit \/ PromptForArgs \/ ParseArguments
  <2>1. /\ report' = report /\ seen' = seen /\ Early /\ ~Late'
        /\ status' = status
    BY <1>3 DEF ChooseNetwork, ChooseArea, Back, Quit, Menu, PromptForArgs, ParseArguments, Started
  <2>2. status' = "none"
    BY <2>1 DEF Telling
  <2> QED
    BY <1>2, <2>1, <2>2
<1>4. CASE BuildContext \/ ConfirmApply \/ RunSync \/ Refuse \/ ReadFails
  <2>1. /\ report' = report /\ seen' = seen /\ Early /\ ~Late' /\ tool' = tool
        /\ Early' => status' = status
    BY <1>4 DEF BuildContext, ConfirmApply, RunSync, Refuse, ReadFails, Goes, Fails
  <2> QED
    BY <1>2, <2>1
<1>5. CASE Check
  <2>1. /\ seen' = fw[env] /\ report' = Analyze(query, seen')
        /\ pc' \in {"end", "offer"} /\ (pc' = "offer" => ~report'.present)
        /\ status' \in {"drift", "ok"}
    BY <1>5 DEF Check, Goes
  <2>2. env \in DOMAIN Environments
    BY <1>5 DEF Check, Places
  <2>3. Readable(fw[env])
    BY <2>2 DEF Reading
  <2>4. Analyzed'
    BY <1>0, <2>1, <2>3 DEF Analyzed, Readable, BroadTwin, Final
  <2>5. ~Early' /\ (Late' => ~report'.present) /\ status' # "changed"
    BY <2>1
  <2> QED
    BY <2>4, <2>5 DEF Telling
<1>6. CASE ConfirmCreate \/ ChooseName \/ ConfirmProtected
  <2>1. /\ report' = report /\ seen' = seen /\ Late /\ ~Early' /\ tool' = tool
        /\ (status' = status \/ status' = "error")
    BY <1>6 DEF ConfirmCreate, ChooseName, ConfirmProtected, Goes
  <2> QED
    BY <1>2, <2>1
<1>7. CASE HangUp
  <2>1. /\ report' = report /\ seen' = seen /\ ~Early' /\ ~Late' /\ status' = "error"
    BY <1>7 DEF HangUp, Goes, Fails
  <2> QED
    BY <1>2, <2>1
<1>8. CASE CreateAddress \/ CreateFails
  <2>1. /\ report' = report /\ seen' = seen /\ ~Early' /\ ~Late' /\ Late /\ tool' = tool
    BY <1>8 DEF CreateAddress, CreateFails, Goes
  <2> QED
    BY <1>2, <2>1
<1>9. CASE End
  <2>1. pc' = "menu" /\ report' = NoReport /\ status' = "none"
    BY <1>9 DEF End
  <2> QED
    BY <2>1 DEF Telling
<1>10. CASE SomebodyEdits
  <2>1. /\ report' = report /\ seen' = seen /\ pc' = pc /\ tool' = tool
        /\ status' = status
    BY <1>10 DEF SomebodyEdits
  <2> QED
    BY <1>2, <2>1
<1>11. CASE UNCHANGED vars
  BY <1>2, <1>11 DEF vars
<1> QED
  BY <1>3, <1>4, <1>5, <1>6, <1>7, <1>8, <1>9, <1>10, <1>11 DEF Next

(* An analysis of what is readable is right.                               *)
LEMMA AnalysisIsRight ==
  ASSUME IsQuery(query), Analyzed,
         NEW hits, hits = {o \in seen.objects : InTheWay(o, query)}
  PROVE  /\ report.present <=> hits # {}
         /\ report.attached <=> \E o \in hits : Used(o, seen)
<1> DEFINE matches == {o \in seen.objects : /\ Relation(o, query) # "none"
                                            /\ ~MatchAll(o, query) /\ ~Broad(o, query)}
<1>1. matches = hits
  <2>1. ASSUME NEW o \in seen.objects
        PROVE  (Relation(o, query) # "none" /\ ~MatchAll(o, query) /\ ~Broad(o, query))
                 <=> InTheWay(o, query)
    <3>1. IsObject(o) /\ ~BroadTwin(o, query)
      BY DEF Analyzed, Readable
    <3> QED
      BY <3>1, ObjectVerdict
  <2> QED
    BY <2>1
<1>2. /\ report.present <=> matches # {}
      /\ report.attached <=> \E o \in matches : Referenced(o, seen)
  <2>1. {o \in seen.objects : Relation(o, query) # "none"}
          \ ({o \in seen.objects : MatchAll(o, query)}
             \cup {o \in {o \in seen.objects : Relation(o, query) # "none"}
                         \ {o \in seen.objects : MatchAll(o, query)} : Broad(o, query)})
        = matches
    OBVIOUS
  <2> HIDE DEF matches
  <2>2. Analyze(query, seen).present <=> matches # {}
    BY <2>1 DEF Analyze
  <2>3. Analyze(query, seen).attached <=> \E o \in matches : Referenced(o, seen)
    BY <2>1 DEF Analyze
  <2> QED
    BY <2>2, <2>3 DEF Analyzed
<1>3. \A o : Referenced(o, seen) <=> Used(o, seen)
  BY ReferencedIsUsed DEF Analyzed, Readable
<1> QED
  BY <1>1, <1>2, <1>3

(* What the check says is what the addresses say, for every width of an    *)
(* address, every set of objects and every nesting of groups, as long as   *)
(* no range has just the addresses of a query that is itself broad.        *)
THEOREM VerdictRight ==
  ASSUME NoTwins
  PROVE  Spec => []VerdictIsOverlap
<1>1. Init => VInv
  BY InitVInv
<1>2. IInv /\ VInv /\ [Next]_vars => VInv'
  BY NextReading, NextTelling DEF IInv, VInv
<1>3. VInv => VerdictIsOverlap
  <2> SUFFICES ASSUME VInv, tool = "check", report # NoReport,
                      NEW hits, hits = {o \in seen.objects : InTheWay(o, query)}
               PROVE  /\ report.present <=> hits # {}
                      /\ report.attached <=> \E o \in hits : Used(o, seen)
                      /\ status = "changed" => hits = {}
    BY DEF VerdictIsOverlap
  <2>1. Analyzed /\ IsQuery(query)
    BY DEF VInv, Reading, Telling
  <2>2. /\ report.present <=> hits # {}
        /\ report.attached <=> \E o \in hits : Used(o, seen)
    BY <2>1, AnalysisIsRight
  <2>3. status = "changed" => ~report.present
    BY DEF VInv, Telling
  <2> QED
    BY <2>2, <2>3
<1> QED
  BY <1>1, <1>2, <1>3, Invariance, PTL DEF Spec
=============================================================================
