------------------------ MODULE InterfaceVlansProofs ------------------------
(***************************************************************************)
(* Theorems about InterfaceVlans, for every range of VLAN numbers, every   *)
(* set of NetBox VLANs and however many runs, failures and edits: no       *)
(* update loses a VLAN the port carries, a quiet apply has left NetBox as  *)
(* the port is, metadata is never held back, and runs that nobody disturbs *)
(* follow from one another; what a run collects is what the port carries,  *)
(* for a trunk of any number of rows.                                      *)
(***************************************************************************)
EXTENDS InterfaceVlans, FiniteSetTheorems, WellFoundedInduction, TLAPS

RecordFields == {"mode", "untagged", "tagged", "enabled", "text"}

(* The records keep their fields, and a run compares what it collected.    *)
Typed ==
    /\ TypeOK
    /\ DOMAIN iface = RecordFields /\ DOMAIN loaded = RecordFields
    /\ DOMAIN report = {"vlan", "meta", "errors", "warned"}
    /\ pc \notin {"idle", "collect"} => found = BuildCollectedState(port, policy)

(* The edits that leave a run's VLANs, and its metadata, alone or are read *)
(* back.                                                                   *)
NoticedOfVlans == edits \subseteq {"create", "edit before", "edit of vlans written"}
NoticedOfMetadata == edits \cap {"edit", "edit of vlans written"} = {}

(* What a run wrote of the VLANs is still there, and what it could not     *)
(* tell shows in its report.                                               *)
VlansKept ==
    /\ pc = "vlan" /\ NoticedOfVlans => VlanFields(loaded) = VlanFields(iface)
    /\ pc = "vlan read" => ~Want.fatal /\ (Want.partial => report.warned)
    /\ (/\ pc \in {"meta", "meta read", "done"} /\ apply /\ found # NoState
        /\ report.errors = {} /\ ~report.warned
        /\ NoticedOfVlans)
       => ~Want.fatal /\ ~Want.partial /\ VlanFields(iface) = Want.fields

(* The metadata read is that of NetBox until it is written.                *)
MetadataKept ==
    NoticedOfMetadata =>
        /\ pc \in {"vlan", "vlan read", "meta"} => MetaFields(loaded) = MetaFields(iface)
        /\ pc = "done" /\ apply /\ "meta" \notin report.errors =>
               DesiredMetadata(port, MetaFields(iface)) = MetaFields(iface)

(* What a run over the record r reports and writes when nothing fails and  *)
(* nobody edits, as a function of r.                                       *)
State == BuildCollectedState(port, policy)
WantOf(r) == DesiredNetboxState(vlans, State, VlanFields(r))
MetaOf(r) == DesiredMetadata(port, MetaFields(r))
Blocked(r) == State # NoState /\ WantOf(r).fatal
Writes(r) == State # NoState /\ ~WantOf(r).fatal /\ WantOf(r).fields # VlanFields(r)
VlansReported(r) ==
    [ vlan |-> IF Writes(r) THEN {WantOf(r).fields} ELSE {},
      meta |-> {},
      errors |-> IF Blocked(r) THEN {"vlan"} ELSE {},
      warned |-> State # NoState /\ ~WantOf(r).fatal /\ WantOf(r).partial ]
Reported(r) ==
    [VlansReported(r) EXCEPT !.meta = IF MetaOf(r) = MetaFields(r) THEN {} ELSE {MetaOf(r)}]
VlansWritten(r) ==
    IF Writes(r) THEN [r EXCEPT !.mode = WantOf(r).fields.mode,
                                !.tagged = WantOf(r).fields.tagged,
                                !.untagged = WantOf(r).fields.untagged]
    ELSE r
Written(r) ==
    IF MetaOf(r) = MetaFields(r) THEN VlansWritten(r)
    ELSE [VlansWritten(r) EXCEPT !.enabled = MetaOf(r).enabled, !.text = MetaOf(r).text]

\* The run over r is what the run before it leads to expect.
Follows(r) ==
    IF last.applied
    THEN /\ Reported(r).meta = {} /\ Reported(r).errors = last.of.errors
         /\ ~last.of.warned => Reported(r).vlan = {}
    ELSE Reported(r) = last.of

(* How far a run is that nobody disturbs.                                  *)
Expected ==
    /\ pc # "idle" => cache = vlans
    /\ pc \in {"collect", "scope", "vlan"} => report = NoReport
    /\ pc = "vlan" => iface = loaded
    /\ pc = "vlan read" =>
          /\ apply /\ Writes(loaded) /\ iface = VlansWritten(loaded)
          /\ report = [NoReport EXCEPT !.warned = VlansReported(loaded).warned]
    /\ pc = "meta" =>
          /\ report = VlansReported(loaded)
          /\ iface = IF apply THEN VlansWritten(loaded) ELSE loaded
    /\ pc = "meta read" =>
          /\ apply /\ MetaOf(loaded) # MetaFields(loaded)
          /\ report = VlansReported(loaded) /\ iface = Written(loaded)
    /\ pc = "done" =>
          /\ report = Reported(loaded)
          /\ iface = IF apply THEN Written(loaded) ELSE loaded
    /\ (pc = "idle" /\ run > 0) \/ (pc \in {"collect", "scope"} /\ run > 1) =>
          Follows(iface)
    /\ pc \notin {"idle", "collect", "scope"} /\ run > 1 => Follows(loaded)
Undisturbed == mishaps = 0 => Expected

IInv == Typed /\ VlansKept /\ MetadataKept /\ Undisturbed

-----------------------------------------------------------------------------
(* Resolution of VLAN numbers.                                             *)

(* A set of NetBox VLANs is finite, and of one VLAN when it counts one.    *)
LEMMA Counted ==
  ASSUME NEW S \in SUBSET Vlans
  PROVE  /\ Cardinality(S) \in Nat
         /\ Cardinality(S) = 1 => \E u \in S : S = {u}
         /\ \A u : S = {u} => Cardinality(S) = 1
<1>1. IsFiniteSet(S)
  BY VlansAssumption, FS_Subset
<1>2. Cardinality(S) \in Nat
  BY <1>1, FS_CardinalityType
<1> QED
  BY <1>1, <1>2, FS_Singleton

(* Sole keeps a VLAN that is alone, and nothing else.                      *)
LEMMA SoleIs ==
  ASSUME NEW S \in SUBSET Vlans
  PROVE  Sole(S) \subseteq S /\ \A u \in Sole(S) : Sole(S) = {u}
<1>1. CASE Cardinality(S) = 1
  BY <1>1, Counted DEF Sole
<1>2. CASE Cardinality(S) # 1
  BY <1>2 DEF Sole
<1> QED
  BY <1>1, <1>2

(* A number is resolved to one of its VLANs, or not at all.                *)
LEMMA Resolved ==
  ASSUME NEW C \in SUBSET Vlans, NEW n, NEW P, NEW voice,
         NEW R, R = ResolveVlan(C, n, P, voice)
  PROVE  /\ R \subseteq Candidates(C, n)
         /\ \A u \in R : R = {u}
<1> DEFINE cands == Candidates(C, n)
           chosen == {v \in cands : v.id \in P}
<1>1. cands \in SUBSET Vlans /\ chosen \in SUBSET Vlans
  BY DEF Candidates
<1>2. BySviAddress(cands) \subseteq cands /\ \A u \in BySviAddress(cands) : BySviAddress(cands) = {u}
  <2>1. {v \in cands : v.svi} \in SUBSET Vlans
    BY <1>1
  <2> QED
    BY <2>1, SoleIs DEF BySviAddress
<1>3. Sole(BestRanked(cands)) \subseteq cands
      /\ \A u \in Sole(BestRanked(cands)) : Sole(BestRanked(cands)) = {u}
  <2>1. BestRanked(cands) \subseteq cands
    BY DEF BestRanked
  <2> QED
    BY <1>1, <2>1, SoleIs
<1>4. Cardinality(chosen) = 1 => \A u \in chosen : chosen = {u}
  BY <1>1, Counted
<1>5. Cardinality(cands) = 1 => \A u \in cands : cands = {u}
  BY <1>1, Counted
<1>7. CASE Cardinality(cands) > 1 /\ n = voice
  BY <1>7, <1>2 DEF ResolveVlan
<1>8. CASE ~(Cardinality(cands) > 1 /\ n = voice) /\ Cardinality(chosen) = 1
  <2>1. R = chosen
    BY <1>8 DEF ResolveVlan
  <2> QED
    BY <2>1, <1>8, <1>4
<1>9. CASE ~(Cardinality(cands) > 1 /\ n = voice) /\ Cardinality(chosen) # 1 /\ Cardinality(cands) = 1
  <2>1. R = cands
    BY <1>9 DEF ResolveVlan
  <2> QED
    BY <2>1, <1>9, <1>5
<1>10. CASE ~(Cardinality(cands) > 1 /\ n = voice) /\ Cardinality(chosen) # 1 /\ Cardinality(cands) # 1
  <2>1. R = Sole(BestRanked(cands))
    BY <1>10 DEF ResolveVlan
  <2> QED
    BY <2>1, <1>3
<1> QED
  BY <1>7, <1>8, <1>9, <1>10

(* A VLAN stays resolved when the interface prefers it, and of the others  *)
(* of its number none that it did not prefer before.                       *)
LEMMA StaysResolved ==
  ASSUME NEW C \in SUBSET Vlans, NEW n, NEW P, NEW Q, NEW voice,
         NEW R, R = ResolveVlan(C, n, P, voice),
         NEW u \in R, u.id \in Q,
         \A v \in Candidates(C, n) : v.id \in Q => v = u \/ v.id \in P
  PROVE  ResolveVlan(C, n, Q, voice) = R
<1> DEFINE cands == Candidates(C, n)
           chosen == {v \in cands : v.id \in P}
           again == {v \in cands : v.id \in Q}
<1>1. cands \in SUBSET Vlans /\ chosen \in SUBSET Vlans /\ again \in SUBSET Vlans
  BY DEF Candidates
<1>2. R = {u} /\ u \in cands /\ u \in again
  BY Resolved
<1>3. Cardinality(again) = 1 => again = R
  BY <1>1, <1>2, Counted
<1>4. CASE Cardinality(cands) > 1 /\ n = voice
  BY <1>4 DEF ResolveVlan
<1>5. CASE ~(Cardinality(cands) > 1 /\ n = voice) /\ Cardinality(chosen) = 1
  <2>1. R = chosen
    BY <1>5 DEF ResolveVlan
  <2>2. again = {u}
    BY <1>2, <2>1
  <2>3. Cardinality(again) = 1
    BY <2>2, <1>1, Counted
  <2>4. ResolveVlan(C, n, Q, voice) = again
    BY <1>5, <2>3 DEF ResolveVlan
  <2> QED
    BY <2>4, <2>3, <1>3
<1>6. CASE ~(Cardinality(cands) > 1 /\ n = voice) /\ Cardinality(chosen) # 1 /\ Cardinality(cands) = 1
  <2>1. R = cands
    BY <1>6 DEF ResolveVlan
  <2>2. again = {u}
    BY <1>2, <2>1
  <2>3. Cardinality(again) = 1
    BY <2>2, <1>1, Counted
  <2>4. ResolveVlan(C, n, Q, voice) = again
    BY <1>6, <2>3 DEF ResolveVlan
  <2> QED
    BY <2>4, <2>3, <1>3
<1>7. CASE ~(Cardinality(cands) > 1 /\ n = voice) /\ Cardinality(chosen) # 1 /\ Cardinality(cands) # 1
  <2>1. R = Sole(BestRanked(cands))
    BY <1>7 DEF ResolveVlan
  <2>2. CASE Cardinality(again) = 1
    <3>1. ResolveVlan(C, n, Q, voice) = again
      BY <1>7, <2>2 DEF ResolveVlan
    <3> QED
      BY <3>1, <2>2, <1>3
  <2>3. CASE Cardinality(again) # 1
    BY <1>7, <2>1, <2>3 DEF ResolveVlan
  <2> QED
    BY <2>2, <2>3
<1> QED
  BY <1>4, <1>5, <1>6, <1>7

(* A number of which the interface has just one VLAN is resolved.          *)
LEMMA PreferredResolves ==
  ASSUME NEW C \in SUBSET Vlans, NEW n, NEW P, NEW voice, n # voice,
         ResolveVlan(C, n, P, voice) = {},
         NEW v \in Candidates(C, n), v.id \in P
  PROVE  \E w \in Candidates(C, n) : w # v /\ w.id \in P
<1> DEFINE chosen == {w \in Candidates(C, n) : w.id \in P}
<1> SUFFICES ASSUME \A w \in Candidates(C, n) : w.id \in P => w = v
             PROVE  FALSE
  OBVIOUS
<1>1. chosen = {v} /\ chosen \in SUBSET Vlans
  BY DEF Candidates
<1>2. Cardinality(chosen) = 1
  BY <1>1, Counted
<1>3. ResolveVlan(C, n, P, voice) = chosen
  BY <1>2 DEF ResolveVlan
<1> QED
  BY <1>1, <1>3

(* There is no VLAN of number zero.                                        *)
LEMMA NoneUnresolved ==
  ASSUME NEW C \in SUBSET Vlans, NEW P, NEW voice
  PROVE  ResolveVlan(C, None, P, voice) = {}
<1>1. Candidates(C, None) = {}
  BY VlansAssumption, TopVidAssumption DEF Candidates, None
<1> QED
  BY <1>1, Resolved

-----------------------------------------------------------------------------
(* What DesiredNetboxState asks for, field by field.                       *)

Preferred(cur) == (cur.tagged \cup {cur.untagged}) \ {None}
Tagged(C, state, cur, vid) == ResolveVlan(C, vid, Preferred(cur), state.voice)
Untagged(C, state, cur) == ResolveVlan(C, state.untagged, Preferred(cur), None)

(* DesiredNetboxState without its local names.                             *)
Asks(C, state, cur, W) ==
    /\ W.fatal <=>
         \/ state.untagged # None /\ Untagged(C, state, cur) = {}
         \/ state.voice \in state.tagged /\ Tagged(C, state, cur, state.voice) = {}
    /\ W.partial <=> \E t \in state.tagged : Tagged(C, state, cur, t) = {}
    /\ W.fields = [ mode |-> W.fields.mode, untagged |-> W.fields.untagged,
                    tagged |-> W.fields.tagged ]
    /\ W.fields.mode = state.mode
    /\ Untagged(C, state, cur) = {} => W.fields.untagged = None
    /\ Untagged(C, state, cur) # {} =>
         \E u \in Untagged(C, state, cur) : W.fields.untagged = u.id
    /\ \A t \in state.tagged : \A v \in Tagged(C, state, cur, t) : v.id \in W.fields.tagged
    /\ W.partial => cur.tagged \subseteq W.fields.tagged
    /\ \A i \in W.fields.tagged :
         \/ \E t \in state.tagged : \E v \in Tagged(C, state, cur, t) : i = v.id
         \/ W.partial /\ i \in cur.tagged

(* What is asked for, by name.                                             *)
LEMMA WantIs ==
  ASSUME NEW C, NEW state, NEW cur, NEW W, W = DesiredNetboxState(C, state, cur)
  PROVE  Asks(C, state, cur, W)
<1> DEFINE Ids == {v.id : v \in UNION {Tagged(C, state, cur, t) : t \in state.tagged}}
           missing == {t \in state.tagged : Tagged(C, state, cur, t) = {}}
           U == Untagged(C, state, cur)
<1>1. /\ W.fatal = (\/ state.untagged # None /\ U = {}
                    \/ state.voice \in missing)
      /\ W.partial = (missing # {})
      /\ W.fields = [ mode |-> state.mode,
                      untagged |-> IF U = {} THEN None ELSE (CHOOSE v \in U : TRUE).id,
                      tagged |-> Ids \cup (IF missing # {} THEN cur.tagged ELSE {}) ]
  BY DEF DesiredNetboxState, Tagged, Untagged, Preferred
<1>2. \A i : i \in Ids <=> \E t \in state.tagged : \E v \in Tagged(C, state, cur, t) : i = v.id
  OBVIOUS
<1> HIDE DEF Ids, U
<1>3. /\ W.fields.mode = state.mode
      /\ W.fields.untagged = IF U = {} THEN None ELSE (CHOOSE v \in U : TRUE).id
      /\ W.fields.tagged = Ids \cup (IF missing # {} THEN cur.tagged ELSE {})
      /\ W.fields = [ mode |-> W.fields.mode, untagged |-> W.fields.untagged,
                      tagged |-> W.fields.tagged ]
  BY <1>1
<1>4. U # {} => \E u \in U : W.fields.untagged = u.id
  BY <1>3
<1>5. U = {} => W.fields.untagged = None
  BY <1>3
<1> QED
  BY <1>1, <1>2, <1>3, <1>4, <1>5 DEF U, Asks

(* A port's untagged VLAN is not among its tagged ones, whatever the       *)
(* outputs say.                                                            *)
LEMMA Apart ==
  ASSUME NEW p, NEW options, NEW state, state = BuildCollectedState(p, options)
  PROVE  state.untagged = None \/ state.untagged \notin state.tagged
<1>1. CASE state = FromVlanBrief(p, options)
  <2>1. state.tagged = {}
    BY <1>1 DEF FromVlanBrief, NoState
  <2> QED
    BY <2>1
<1>2. ASSUME state = TrunkState(p, options), state # FromVlanBrief(p, options)
      PROVE  state.untagged = None \/ state.untagged \notin state.tagged
  BY <1>2 DEF TrunkState
<1>3. ASSUME state = AccessState(p, options), state # FromVlanBrief(p, options)
      PROVE  state.untagged = None \/ state.untagged \notin state.tagged
  BY <1>3 DEF AccessState
<1> QED
  BY <1>1, <1>2, <1>3 DEF BuildCollectedState

Chosen(C, state, cur) ==
    /\ Untagged(C, state, cur) \subseteq Candidates(C, state.untagged)
    /\ \A u \in Untagged(C, state, cur) : Untagged(C, state, cur) = {u}
    /\ \A t : /\ Tagged(C, state, cur, t) \subseteq Candidates(C, t)
              /\ \A u \in Tagged(C, state, cur, t) : Tagged(C, state, cur, t) = {u}

(* Each number is resolved to one of its VLANs, or not at all.             *)
LEMMA ChosenIs ==
  ASSUME NEW C \in SUBSET Vlans, NEW state, NEW cur
  PROVE  Chosen(C, state, cur)
<1>1. /\ Untagged(C, state, cur) \subseteq Candidates(C, state.untagged)
      /\ \A u \in Untagged(C, state, cur) : Untagged(C, state, cur) = {u}
  BY Resolved DEF Untagged
<1>2. ASSUME NEW t
      PROVE  /\ Tagged(C, state, cur, t) \subseteq Candidates(C, t)
             /\ \A u \in Tagged(C, state, cur, t) : Tagged(C, state, cur, t) = {u}
  BY Resolved DEF Tagged
<1> QED
  BY <1>1, <1>2 DEF Chosen

(* What was resolved once is resolved alike over what it led to.           *)
LEMMA Settles ==
  ASSUME NEW C \in SUBSET Vlans, NEW state, NEW cur, NEW next,
         state.untagged = None \/ state.untagged \notin state.tagged,
         NEW W, W = DesiredNetboxState(C, state, cur),
         next.untagged = W.fields.untagged, next.tagged = W.fields.tagged,
         ~W.fatal
  PROVE  /\ Untagged(C, state, next) = Untagged(C, state, cur)
         /\ \A t \in state.tagged :
              Tagged(C, state, cur, t) # {} =>
                Tagged(C, state, next, t) = Tagged(C, state, cur, t)
<1>1. /\ Untagged(C, state, cur) \subseteq Candidates(C, state.untagged)
      /\ \A u \in Untagged(C, state, cur) : Untagged(C, state, cur) = {u}
      /\ \A t : /\ Tagged(C, state, cur, t) \subseteq Candidates(C, t)
                /\ \A u \in Tagged(C, state, cur, t) : Tagged(C, state, cur, t) = {u}
  <2>1. Chosen(C, state, cur)
    BY ChosenIs
  <2> QED
    BY <2>1 DEF Chosen
<1>2. Asks(C, state, cur, W)
  BY WantIs
<1> DEFINE P == Preferred(cur)
           Q == Preferred(next)
           U == Untagged(C, state, cur)
           T(t) == Tagged(C, state, cur, t)
<1>3. U \subseteq Candidates(C, state.untagged) /\ \A u \in U : U = {u}
  BY <1>1
<1>4. \A t : T(t) \subseteq Candidates(C, t) /\ \A u \in T(t) : T(t) = {u}
  BY <1>1
<1>5. /\ ~(state.untagged # None /\ U = {})
      /\ U = {} => W.fields.untagged = None
      /\ U # {} => \E u \in U : W.fields.untagged = u.id
      /\ \A t \in state.tagged : \A v \in T(t) : v.id \in W.fields.tagged
      /\ \A i \in W.fields.tagged :
           (\E t \in state.tagged : \E v \in T(t) : i = v.id) \/ i \in cur.tagged
  BY <1>2 DEF Asks
<1>6. \A v, w \in C : v.id = w.id => v = w
  BY VlansAssumption
<1>7. \A v \in C : v.id # None
  BY VlansAssumption DEF None
<1>8. \A n : \A v \in Candidates(C, n) : v \in C /\ v.vid = n
  BY DEF Candidates
<1>9. \A v \in C : v.id \in Q <=> v.id \in W.fields.tagged \/ v.id = W.fields.untagged
  BY <1>7 DEF Preferred
<1>10. \A v \in C : v.id = W.fields.untagged => v \in U
  <2> SUFFICES ASSUME NEW v \in C, v.id = W.fields.untagged PROVE v \in U
    OBVIOUS
  <2>1. U # {}
    BY <1>7, <1>5
  <2>2. PICK u \in U : W.fields.untagged = u.id
    BY <2>1, <1>5
  <2> QED
    BY <2>2, <1>3, <1>6, <1>8
<1>11. \A v \in C : v.id \in W.fields.tagged =>
        v.id \in P \/ (v.vid \in state.tagged /\ v \in T(v.vid))
  <2> SUFFICES ASSUME NEW v \in C, v.id \in W.fields.tagged, v.id \notin P
               PROVE  v.vid \in state.tagged /\ v \in T(v.vid)
    OBVIOUS
  <2>1. v.id \notin cur.tagged
    BY <1>7 DEF Preferred
  <2>2. PICK t \in state.tagged : \E w \in T(t) : v.id = w.id
    BY <2>1, <1>5
  <2> QED
    BY <2>2, <1>4, <1>6, <1>8
<1>12. Untagged(C, state, next) = U
  <2>1. CASE state.untagged = None
    BY <2>1, NoneUnresolved DEF Untagged
  <2>2. CASE state.untagged # None
    <3>1. U # {}
      BY <2>2, <1>5
    <3>2. PICK u \in U : W.fields.untagged = u.id
      BY <3>1, <1>5
    <3>3. u \in C /\ u.vid = state.untagged /\ u.id \in Q
      BY <3>2, <1>3, <1>8, <1>9
    <3>4. ASSUME NEW v \in Candidates(C, state.untagged), v.id \in Q
          PROVE  v = u \/ v.id \in P
      <4>1. v \in C /\ v.vid = state.untagged /\ v.vid \notin state.tagged
        BY <1>8, <2>2
      <4>2. v.id \in W.fields.tagged \/ v.id = W.fields.untagged
        BY <4>1, <3>4, <1>9
      <4> QED
        BY <4>1, <4>2, <1>11, <3>2, <3>3, <1>6
    <3> QED
      BY <3>2, <3>3, <3>4, StaysResolved DEF Untagged
  <2> QED
    BY <2>1, <2>2
<1>13. ASSUME NEW t \in state.tagged, T(t) # {}
       PROVE  Tagged(C, state, next, t) = T(t)
  <2>1. PICK u : u \in T(t)
    BY <1>13
  <2>2. u \in C /\ u.vid = t /\ u.id \in W.fields.tagged
    BY <2>1, <1>4, <1>8, <1>5
  <2>3. u.id \in Q
    BY <2>2, <1>9
  <2>4. ASSUME NEW v \in Candidates(C, t), v.id \in Q
        PROVE  v = u \/ v.id \in P
    <3>1. v \in C /\ v.vid = t
      BY <1>8
    <3>2. CASE v.id \in W.fields.tagged
      BY <3>1, <3>2, <1>11, <1>4, <2>1
    <3>3. CASE v.id = W.fields.untagged
      <4>1. v.vid = state.untagged /\ v \in U
        BY <3>1, <3>3, <1>10, <1>3, <1>8
      <4>2. state.untagged = None
        BY <4>1, <3>1
      <4> QED
        BY <4>1, <4>2, NoneUnresolved DEF Untagged
    <3> QED
      BY <3>1, <3>2, <3>3, <2>4, <1>9
  <2> QED
    BY <2>1, <2>3, <2>4, StaysResolved DEF Tagged
<1> QED
  BY <1>12, <1>13

(* An update keeps every number that the port carries and the interface    *)
(* has, through the same VLAN or another.                                  *)
LEMMA NumbersKept ==
  ASSUME NEW C \in SUBSET Vlans, NEW state, NEW cur,
         NEW W, W = DesiredNetboxState(C, state, cur), ~W.fatal,
         NEW v \in C, v.id \in cur.tagged \cup {cur.untagged},
         v.vid \in state.tagged \cup {state.untagged}
  PROVE  \E w \in C : w.vid = v.vid /\ w.id \in W.fields.tagged \cup {W.fields.untagged}
<1>1. Asks(C, state, cur, W)
  BY WantIs
<1>2. /\ Untagged(C, state, cur) \subseteq Candidates(C, state.untagged)
      /\ \A t : Tagged(C, state, cur, t) \subseteq Candidates(C, t)
  BY ChosenIs DEF Chosen
<1>3. \A n : \A w \in Candidates(C, n) : w \in C /\ w.vid = n
  BY DEF Candidates
<1>4. v.id # None /\ v.vid # None /\ v \in Candidates(C, v.vid) /\ v.id \in Preferred(cur)
  BY VlansAssumption, TopVidAssumption DEF None, Candidates, Preferred
<1>5. CASE v.vid = state.untagged
  <2>1. PICK u \in Untagged(C, state, cur) : W.fields.untagged = u.id
    BY <1>1, <1>4, <1>5 DEF Asks
  <2> QED
    BY <2>1, <1>2, <1>3, <1>5
<1>6. CASE v.vid \in state.tagged
  <2>1. CASE Tagged(C, state, cur, v.vid) # {}
    <3>1. PICK w : w \in Tagged(C, state, cur, v.vid)
      BY <2>1
    <3>2. w.id \in W.fields.tagged
      BY <3>1, <1>1, <1>6 DEF Asks
    <3> QED
      BY <3>1, <3>2, <1>2, <1>3
  <2>2. CASE Tagged(C, state, cur, v.vid) = {}
    <3>1. v.vid # state.voice /\ cur.tagged \subseteq W.fields.tagged
      BY <1>1, <1>6, <2>2 DEF Asks
    <3>2. PICK w \in Candidates(C, v.vid) : w # v /\ w.id \in Preferred(cur)
      BY <2>2, <3>1, <1>4, PreferredResolves DEF Tagged
    <3>3. w \in C /\ w.vid = v.vid /\ w.id # v.id
      BY <3>2, <1>3, VlansAssumption
    <3>4. v.id \in cur.tagged \/ w.id \in cur.tagged
      BY <3>2, <3>3 DEF Preferred
    <3> QED
      BY <3>1, <3>3, <3>4
  <2> QED
    BY <2>1, <2>2
<1> QED
  BY <1>5, <1>6

(* When every number was resolved, what is asked for has the port's        *)
(* numbers and no other.                                                   *)
Numbered(W, state) ==
    /\ W.fields.mode = state.mode
    /\ Vids({W.fields.untagged}) = {state.untagged} \ {None}
    /\ Vids(W.fields.tagged) = state.tagged

(* What DesiredNetboxState asks for is.                                    *)
LEMMA NumbersExact ==
  ASSUME NEW C \in SUBSET Vlans, NEW state, NEW cur,
         NEW W, W = DesiredNetboxState(C, state, cur), ~W.fatal, ~W.partial
  PROVE  Numbered(W, state)
<1>1. Asks(C, state, cur, W)
  BY WantIs
<1>2. /\ Untagged(C, state, cur) \subseteq Candidates(C, state.untagged)
      /\ \A t : Tagged(C, state, cur, t) \subseteq Candidates(C, t)
  BY ChosenIs DEF Chosen
<1>3. \A n : \A w \in Candidates(C, n) : w \in Vlans /\ w.vid = n
  BY DEF Candidates
<1>4. /\ \A v, w \in Vlans : v.id = w.id => v = w
      /\ \A v \in Vlans : v.id # None /\ v.vid # None
  BY VlansAssumption, TopVidAssumption DEF None
<1>5. \A ids : \A n : n \in Vids(ids) <=> \E w \in Vlans : w.id \in ids /\ n = w.vid
  BY DEF Vids
<1>6. Vids({W.fields.untagged}) = {state.untagged} \ {None}
  <2>1. CASE state.untagged = None
    <3>1. Untagged(C, state, cur) = {}
      BY <2>1, NoneUnresolved DEF Untagged
    <3>2. W.fields.untagged = None
      BY <1>1, <3>1 DEF Asks
    <3>3. \A n : n \notin Vids({W.fields.untagged})
      BY <3>2, <1>4, <1>5
    <3> QED
      BY <3>3, <2>1
  <2>2. CASE state.untagged # None
    <3>1. PICK u \in Untagged(C, state, cur) : W.fields.untagged = u.id
      BY <1>1, <2>2 DEF Asks
    <3>2. u \in Vlans /\ u.vid = state.untagged
      BY <1>2, <1>3
    <3>3. \A n : n \in Vids({W.fields.untagged}) <=> n = u.vid
      BY <3>1, <3>2, <1>4, <1>5
    <3> QED
      BY <3>2, <3>3, <2>2
  <2> QED
    BY <2>1, <2>2
<1>7. Vids(W.fields.tagged) = state.tagged
  <2>1. ASSUME NEW n \in Vids(W.fields.tagged)
        PROVE  n \in state.tagged
    <3>1. PICK w \in Vlans : w.id \in W.fields.tagged /\ n = w.vid
      BY <1>5
    <3>2. PICK t \in state.tagged : \E v \in Tagged(C, state, cur, t) : w.id = v.id
      BY <3>1, <1>1 DEF Asks
    <3> QED
      BY <3>1, <3>2, <1>2, <1>3, <1>4
  <2>2. ASSUME NEW t \in state.tagged
        PROVE  t \in Vids(W.fields.tagged)
    <3>1. PICK v : v \in Tagged(C, state, cur, t)
      BY <1>1 DEF Asks
    <3>2. v.id \in W.fields.tagged /\ v \in Vlans /\ v.vid = t
      BY <3>1, <1>1, <1>2, <1>3 DEF Asks
    <3> QED
      BY <3>2, <1>5
  <2> QED
    BY <2>1, <2>2
<1> QED
  BY <1>1, <1>6, <1>7 DEF Asks, Numbered

(* One VLAN at most is untagged.                                           *)
LEMMA UntaggedAlone ==
  ASSUME NEW C \in SUBSET Vlans, NEW state, NEW cur
  PROVE  \A x, y \in Untagged(C, state, cur) : x = y
<1>1. \A u \in Untagged(C, state, cur) : Untagged(C, state, cur) = {u}
  BY ChosenIs DEF Chosen
<1> QED
  BY <1>1

(* Over what it led to, a run can still tell the VLANs; if it could tell   *)
(* all of them it asks for the same again.                                 *)
LEMMA AsksAgain ==
  ASSUME NEW C \in SUBSET Vlans, NEW state, NEW cur, NEW next,
         state.untagged = None \/ state.untagged \notin state.tagged,
         NEW W, W = DesiredNetboxState(C, state, cur), ~W.fatal,
         next.untagged = W.fields.untagged, next.tagged = W.fields.tagged,
         NEW W2, W2 = DesiredNetboxState(C, state, next)
  PROVE  ~W2.fatal /\ (~W.partial => W2.fields = W.fields)
<1>1. Asks(C, state, cur, W) /\ Asks(C, state, next, W2)
  BY WantIs
<1>2. /\ Untagged(C, state, next) = Untagged(C, state, cur)
      /\ \A t \in state.tagged :
           Tagged(C, state, cur, t) # {} =>
             Tagged(C, state, next, t) = Tagged(C, state, cur, t)
  BY Settles
<1>3. \A x, y \in Untagged(C, state, cur) : x = y
  BY UntaggedAlone
<1>4. ~W2.fatal
  BY <1>1, <1>2 DEF Asks
<1>5. ASSUME ~W.partial
      PROVE  W2.fields = W.fields
  <2>1. \A t \in state.tagged : /\ Tagged(C, state, cur, t) # {}
                                /\ Tagged(C, state, next, t) = Tagged(C, state, cur, t)
    BY <1>1, <1>2, <1>5 DEF Asks
  <2>2. ~W2.partial
    BY <1>1, <2>1 DEF Asks
  <2>3. \A i : i \in W.fields.tagged <=>
                 \E t \in state.tagged : \E v \in Tagged(C, state, cur, t) : i = v.id
    BY <1>1, <1>5 DEF Asks
  <2>4. \A i : i \in W2.fields.tagged <=>
                 \E t \in state.tagged : \E v \in Tagged(C, state, next, t) : i = v.id
    BY <1>1, <2>2 DEF Asks
  <2>5. \A i : i \in W2.fields.tagged <=> i \in W.fields.tagged
    BY <2>1, <2>3, <2>4
  <2>6. W2.fields.untagged = W.fields.untagged
    <3>1. CASE Untagged(C, state, cur) = {}
      BY <1>1, <1>2, <3>1 DEF Asks
    <3>2. CASE Untagged(C, state, cur) # {}
      <4>1. PICK u \in Untagged(C, state, cur) : W.fields.untagged = u.id
        BY <1>1, <3>2 DEF Asks
      <4>2. PICK x \in Untagged(C, state, cur) : W2.fields.untagged = x.id
        BY <1>1, <1>2, <3>2 DEF Asks
      <4>3. x = u
        BY <1>2, <1>3
      <4> QED
        BY <4>1, <4>2, <4>3
    <3> QED
      BY <3>1, <3>2
  <2> DEFINE f == W.fields
             g == W2.fields
  <2>7. /\ f = [mode |-> f.mode, untagged |-> f.untagged, tagged |-> f.tagged]
        /\ g = [mode |-> g.mode, untagged |-> g.untagged, tagged |-> g.tagged]
        /\ f.mode = state.mode /\ g.mode = state.mode
    BY <1>1 DEF Asks
  <2>8. f.untagged = g.untagged /\ \A i : i \in f.tagged <=> i \in g.tagged
    BY <2>5, <2>6
  <2> HIDE DEF f, g
  <2>9. f.tagged = g.tagged
    BY <2>8
  <2>10. f = g
    BY <2>7, <2>8, <2>9
  <2> QED
    BY <2>10 DEF f, g
<1> QED
  BY <1>4, <1>5

(* An update names VLANs that the run has read, or that the interface has. *)
LEMMA AskedIsKnown ==
  ASSUME NEW C \in SUBSET Vlans, NEW state, NEW cur,
         NEW W, W = DesiredNetboxState(C, state, cur),
         NEW i \in W.fields.tagged \cup {W.fields.untagged}
  PROVE  i = None \/ (\E v \in C : i = v.id) \/ i \in cur.tagged
<1>1. Asks(C, state, cur, W)
  BY WantIs
<1>2. /\ Untagged(C, state, cur) \subseteq C
      /\ \A t : Tagged(C, state, cur, t) \subseteq C
  BY ChosenIs DEF Chosen, Candidates
<1> QED
  BY <1>1, <1>2 DEF Asks

(* What is wanted of the metadata is wanted of itself.                     *)
LEMMA MetadataSettles ==
  ASSUME NEW p, NEW m
  PROVE  /\ DesiredMetadata(p, DesiredMetadata(p, m)) = DesiredMetadata(p, m)
         /\ DOMAIN DesiredMetadata(p, m) = {"enabled", "text"}
BY DEF DesiredMetadata

-----------------------------------------------------------------------------
(* The steps.                                                              *)

(* A write of the VLANs leaves the metadata alone, and the other way.      *)
LEMMA WithIs ==
  ASSUME Typed
  PROVE  /\ DOMAIN With("vlan") = RecordFields /\ DOMAIN With("meta") = RecordFields
         /\ VlanFields(With("vlan")) = Want.fields
         /\ MetaFields(With("vlan")) = MetaFields(iface)
         /\ VlanFields(With("meta")) = VlanFields(iface)
         /\ MetaFields(With("meta")) = DesiredMetadata(port, MetaFields(iface))
<1>1. DOMAIN iface = RecordFields
  BY DEF Typed
<1>2. Want.fields = [ mode |-> Want.fields.mode, untagged |-> Want.fields.untagged,
                      tagged |-> Want.fields.tagged ]
  BY WantIs DEF Asks, Want
<1>3. PICK f : f = Want.fields
  OBVIOUS
<1>4. With("vlan") = [iface EXCEPT !.mode = f.mode, !.tagged = f.tagged,
                                   !.untagged = f.untagged]
  BY <1>3 DEF With
<1>5. /\ DOMAIN With("vlan") = RecordFields
      /\ VlanFields(With("vlan")) = [mode |-> f.mode, untagged |-> f.untagged, tagged |-> f.tagged]
      /\ MetaFields(With("vlan")) = MetaFields(iface)
  BY <1>1, <1>4 DEF RecordFields, VlanFields, MetaFields
<1>6. PICK m : m = DesiredMetadata(port, MetaFields(iface))
  OBVIOUS
<1>7. m = [enabled |-> m.enabled, text |-> m.text]
  BY <1>6 DEF DesiredMetadata
<1>8. With("meta") = [iface EXCEPT !.enabled = m.enabled, !.text = m.text]
  BY <1>6 DEF With
<1>9. /\ DOMAIN With("meta") = RecordFields
      /\ VlanFields(With("meta")) = VlanFields(iface)
      /\ MetaFields(With("meta")) = [enabled |-> m.enabled, text |-> m.text]
  BY <1>1, <1>8 DEF RecordFields, VlanFields, MetaFields
<1> QED
  BY <1>2, <1>3, <1>5, <1>6, <1>7, <1>9

(* The program starts in the invariant.                                    *)
LEMMA InitIInv == Init => IInv
<1> SUFFICES ASSUME Init PROVE IInv
  OBVIOUS
<1>1. iface \in Records /\ vlans \subseteq Vlans /\ pc = "idle" /\ run = 0 /\ mishaps = 0
  BY VlansAssumption DEF Init
<1>2. Typed
  BY <1>1, RecordsAssumption, BoundsAssumption DEF Init, Typed, TypeOK, Known, RecordFields, NoReport
<1>3. VlansKept /\ MetadataKept /\ Undisturbed
  BY <1>1 DEF Init, VlansKept, MetadataKept, Undisturbed, Expected
<1> QED
  BY <1>2, <1>3 DEF IInv

(* Each step keeps the records records.                                    *)
LEMMA NextTyped ==
  ASSUME Typed, [Next]_vars
  PROVE  Typed'
<1>0. mishaps < MaxMishaps => mishaps + 1 \in 0 .. MaxMishaps
  <2>1. mishaps \in 0 .. MaxMishaps
    BY DEF Typed, TypeOK
  <2> QED
    BY <2>1, BoundsAssumption
<1> USE DEF Typed, TypeOK
<1>1. CASE StartRun
  BY <1>1, BoundsAssumption DEF StartRun, Fixed, Known, NoReport
<1>2. CASE Collect
  BY <1>2 DEF Collect, Fixed, Known
<1>3. CASE LoadScope
  BY <1>3 DEF LoadScope, Fixed, Known
<1>4. CASE CompareVlans
  BY <1>4 DEF CompareVlans, Fixed, Known
<1>5. CASE CompareMetadata
  BY <1>5 DEF CompareMetadata, Fixed, Known
<1>6. ASSUME NEW pass \in {"vlan", "meta"}, Update(pass)
      PROVE  Typed'
  <2>1. /\ With(pass).tagged \cup {With(pass).untagged} \subseteq Known
        /\ iface' = With(pass) /\ Known' = Known
    BY <1>6 DEF Update, Known
  <2>2. DOMAIN With(pass) = RecordFields
    BY WithIs
  <2>3. pc # "idle" /\ pc # "collect" /\ pc' \in {"vlan read", "meta read"}
    BY <1>6 DEF Update, MustWrite
  <2> QED
    BY <1>6, <2>1, <2>2, <2>3 DEF Update, Fixed
<1>7. ASSUME NEW pass \in {"vlan", "meta"}, UpdateFails(pass)
      PROVE  Typed'
  <2>1. /\ \/ iface' = iface
           \/ /\ With(pass).tagged \cup {With(pass).untagged} \subseteq Known
              /\ iface' = With(pass)
        /\ Known' = Known /\ mishaps' \in 0 .. MaxMishaps
    BY <1>0, <1>7 DEF UpdateFails, Known
  <2>2. DOMAIN With(pass) = RecordFields
    BY WithIs
  <2>3. pc # "idle" /\ pc # "collect" /\ pc' \in {"meta", "done"}
    BY <1>7 DEF UpdateFails, MustWrite, After
  <2> QED
    BY <1>7, <2>1, <2>2, <2>3 DEF UpdateFails, Fixed
<1>8. ASSUME NEW pass \in {"vlan", "meta"}, ReadBack(pass)
      PROVE  Typed'
  <2>1. Known' = Known /\ pc \in {"vlan read", "meta read"} /\ pc' \in {"meta", "done"}
    BY <1>8 DEF ReadBack, Known, After
  <2>2. DOMAIN report' = DOMAIN report
    BY <1>8 DEF ReadBack
  <2> QED
    BY <1>8, <2>1, <2>2 DEF ReadBack, Fixed
<1>9. CASE Return
  BY <1>9 DEF Return, Fixed, Known
<1>10. CASE SomebodyEdits
  <2>1. /\ vlans' \subseteq Vlans /\ DOMAIN iface' = RecordFields
        /\ iface'.tagged \cup {iface'.untagged} \subseteq Known'
    <3>1. CASE CreateVlan
      BY <3>1 DEF CreateVlan, Known
    <3>2. CASE DeleteVlan
      <4>1. PICK v \in vlans :
              /\ vlans' = vlans \ {v}
              /\ iface' = [iface EXCEPT !.tagged = @ \ {v.id},
                                        !.untagged = IF @ = v.id THEN None ELSE @]
        BY <3>2 DEF DeleteVlan
      <4>2. /\ DOMAIN iface' = RecordFields /\ iface'.tagged = iface.tagged \ {v.id}
            /\ iface'.untagged = IF iface.untagged = v.id THEN None ELSE iface.untagged
        BY <4>1 DEF RecordFields
      <4> QED
        BY <4>1, <4>2 DEF Known
    <3>3. CASE EditInterface
      BY <3>3, RecordsAssumption DEF EditInterface, Known, RecordFields
    <3> QED
      BY <1>10, <3>1, <3>2, <3>3 DEF SomebodyEdits
  <2> QED
    BY <1>0, <1>10, <2>1 DEF SomebodyEdits, Fixed
<1>11. CASE UNCHANGED vars
  BY <1>11 DEF vars, Known
<1> QED
  BY <1>1, <1>2, <1>3, <1>4, <1>5, <1>6, <1>7, <1>8, <1>9, <1>10, <1>11 DEF Next

(* What a run wrote of the VLANs stays until somebody edits it.            *)
LEMMA NextVlansKept ==
  ASSUME Typed, VlansKept, [Next]_vars
  PROVE  VlansKept'
<1> USE DEF NoticedOfVlans
<1>0. UNCHANGED <<cache, found, loaded>> => Want' = Want
  BY DEF Want
<1>1. CASE StartRun \/ Collect \/ LoadScope \/ Return
  BY <1>1 DEF StartRun, Collect, LoadScope, Return, VlansKept
<1>2. CASE CompareVlans
  <2>1. /\ pc = "vlan" /\ pc' = "meta" /\ Want' = Want
        /\ UNCHANGED <<iface, apply, cache, found, loaded, edits>>
    BY <1>0, <1>2 DEF CompareVlans
  <2>2. ASSUME apply, found # NoState, report'.errors = {}, ~report'.warned,
               NoticedOfVlans
        PROVE  ~Want.fatal /\ ~Want.partial /\ VlanFields(iface) = Want.fields
    <3>1. ~Want.fatal
      <4>1. ASSUME Want.fatal PROVE FALSE
        <5>1. report' = [report EXCEPT !.errors = @ \cup {"vlan"}]
          BY <1>2, <2>2, <4>1 DEF CompareVlans
        <5>2. report'.errors = report.errors \cup {"vlan"}
          BY <5>1 DEF Typed
        <5> QED
          BY <2>2, <5>2
      <4> QED
        BY <4>1
    <3>2. Want.fields = VlanFields(loaded)
      BY <1>2, <2>2, <3>1 DEF CompareVlans
    <3>3. report' = [report EXCEPT !.warned = found # NoState /\ Want.partial,
                                   !.vlan = IF found = NoState \/ Want.fields = VlanFields(loaded)
                                            THEN @ ELSE {Want.fields}]
      BY <1>2, <3>1 DEF CompareVlans
    <3>4. report'.warned = (found # NoState /\ Want.partial)
      BY <3>3 DEF Typed
    <3> QED
      BY <2>1, <2>2, <3>1, <3>2, <3>4 DEF VlansKept
  <2> QED
    BY <2>1, <2>2 DEF VlansKept
<1>3. CASE CompareMetadata
  <2>1. /\ pc = "meta" /\ pc' = "done" /\ Want' = Want
        /\ UNCHANGED <<iface, apply, found, edits>>
    BY <1>0, <1>3 DEF CompareMetadata
  <2>2. report'.errors = report.errors /\ report'.warned = report.warned
    BY <1>3 DEF CompareMetadata, Typed
  <2> QED
    BY <2>1, <2>2 DEF VlansKept
<1>4. CASE Update("vlan")
  <2>1. /\ pc' = "vlan read" /\ Want' = Want /\ ~Want.fatal
    BY <1>0, <1>4 DEF Update, MustWrite
  <2>2. report'.warned = (report.warned \/ Want.partial)
    BY <1>4 DEF Update, Warned, Typed
  <2> QED
    BY <2>1, <2>2 DEF VlansKept
<1>5. CASE Update("meta")
  <2>1. /\ pc = "meta" /\ pc' = "meta read" /\ Want' = Want /\ iface' = With("meta")
        /\ UNCHANGED <<apply, found, edits>>
    BY <1>0, <1>5 DEF Update, MustWrite
  <2>2. report'.errors = report.errors /\ (report.warned => report'.warned)
    BY <1>5 DEF Update, Warned, Typed
  <2>3. VlanFields(iface') = VlanFields(iface)
    BY <2>1, WithIs
  <2> QED
    BY <2>1, <2>2, <2>3 DEF VlansKept
<1>6. ASSUME NEW pass \in {"vlan", "meta"}, UpdateFails(pass)
      PROVE  VlansKept'
  <2>1. pc' \in {"meta", "done"}
    BY <1>6 DEF UpdateFails, After
  <2>2. report'.errors = report.errors \cup {pass}
    BY <1>6 DEF UpdateFails, Typed
  <2>3. report'.errors # {}
    BY <2>2
  <2> QED
    BY <2>1, <2>3 DEF VlansKept
<1>7. CASE ReadBack("vlan")
  <2>1. /\ pc = "vlan read" /\ pc' = "meta" /\ Want' = Want
        /\ UNCHANGED <<iface, apply, found, edits>>
    BY <1>0, <1>7 DEF ReadBack, After
  <2>2. CASE VlanFields(iface) = Want.fields
    <3>1. report' = [report EXCEPT !.vlan = {Want.fields}]
      BY <1>7, <2>2 DEF ReadBack
    <3>2. report'.warned = report.warned
      BY <3>1 DEF Typed
    <3> QED
      BY <2>1, <2>2, <3>2 DEF VlansKept
  <2>3. CASE VlanFields(iface) # Want.fields
    <3>1. report' = [report EXCEPT !.errors = @ \cup {"vlan"}]
      BY <1>7, <2>3 DEF ReadBack
    <3>2. report'.errors # {}
      BY <3>1 DEF Typed
    <3> QED
      BY <2>1, <3>2 DEF VlansKept
  <2> QED
    BY <2>2, <2>3
<1>8. CASE ReadBack("meta")
  <2>1. /\ pc = "meta read" /\ pc' = "done" /\ Want' = Want
        /\ UNCHANGED <<iface, apply, found, edits>>
    BY <1>0, <1>8 DEF ReadBack, After
  <2>2. /\ report' \in {[report EXCEPT !.errors = @ \cup {"meta"}],
                        [report EXCEPT !.meta = {WantMeta}]}
    BY <1>8 DEF ReadBack
  <2>3. report'.warned = report.warned /\ (report'.errors = {} => report.errors = {})
    BY <2>2 DEF Typed
  <2> QED
    BY <2>1, <2>3 DEF VlansKept
<1>9. CASE SomebodyEdits
  <2>1. /\ Want' = Want /\ UNCHANGED <<pc, apply, found, loaded, report>>
    BY <1>0, <1>9 DEF SomebodyEdits
  <2>2. NoticedOfVlans' => /\ NoticedOfVlans
                           /\ iface' = iface \/ pc \notin {"vlan", "meta", "meta read", "done"}
    <3>1. CASE CreateVlan
      BY <3>1 DEF CreateVlan
    <3>2. CASE DeleteVlan
      <4>1. "delete" \in edits'
        BY <3>2 DEF DeleteVlan
      <4> QED
        BY <4>1
    <3>3. CASE EditInterface
      <4>1. edits' = edits \cup {EditKind}
        BY <3>3 DEF EditInterface
      <4>2. EditKind \in {"create", "edit before", "edit of vlans written"} =>
              pc \notin {"vlan", "meta", "meta read", "done"}
        BY DEF EditKind
      <4> QED
        BY <4>1, <4>2
    <3> QED
      BY <1>9, <3>1, <3>2, <3>3 DEF SomebodyEdits
  <2> QED
    BY <2>1, <2>2 DEF VlansKept
<1>10. CASE UNCHANGED vars
  <2>1. Want' = Want
    BY <1>0, <1>10 DEF vars
  <2> QED
    BY <2>1, <1>10 DEF vars, VlansKept
<1> QED
  BY <1>1, <1>2, <1>3, <1>4, <1>5, <1>6, <1>7, <1>8, <1>9, <1>10 DEF Next

(* The metadata that was read, or written, stays until somebody edits it.  *)
LEMMA NextMetadataKept ==
  ASSUME Typed, MetadataKept, [Next]_vars
  PROVE  MetadataKept'
<1> USE DEF NoticedOfMetadata
<1>1. CASE StartRun \/ Collect \/ LoadScope \/ Return
  BY <1>1 DEF StartRun, Collect, LoadScope, Return, MetadataKept
<1>2. CASE CompareVlans
  BY <1>2 DEF CompareVlans, MetadataKept
<1>3. CASE CompareMetadata
  <2>1. /\ pc = "meta" /\ pc' = "done" /\ UNCHANGED <<port, iface, apply, loaded, edits>>
        /\ apply => WantMeta = MetaFields(loaded)
    BY <1>3 DEF CompareMetadata, Fixed
  <2> QED
    BY <2>1 DEF MetadataKept, WantMeta
<1>4. CASE Update("vlan")
  <2>1. /\ pc = "vlan" /\ pc' = "vlan read" /\ iface' = With("vlan")
        /\ UNCHANGED <<loaded, edits>>
    BY <1>4 DEF Update, MustWrite
  <2>2. MetaFields(iface') = MetaFields(iface)
    BY <2>1, WithIs
  <2> QED
    BY <2>1, <2>2 DEF MetadataKept
<1>5. CASE Update("meta")
  <2>1. pc' = "meta read"
    BY <1>5 DEF Update
  <2> QED
    BY <2>1 DEF MetadataKept
<1>6. CASE UpdateFails("vlan")
  <2>1. /\ pc = "vlan" /\ pc' = "meta" /\ iface' \in {iface, With("vlan")}
        /\ UNCHANGED <<loaded, edits>>
    BY <1>6 DEF UpdateFails, MustWrite, After
  <2>2. MetaFields(iface') = MetaFields(iface)
    BY <2>1, WithIs
  <2> QED
    BY <2>1, <2>2 DEF MetadataKept
<1>7. CASE UpdateFails("meta")
  <2>1. pc' = "done" /\ report'.errors = report.errors \cup {"meta"}
    BY <1>7 DEF UpdateFails, After, Typed
  <2> QED
    BY <2>1 DEF MetadataKept
<1>8. CASE ReadBack("vlan")
  <2>1. pc = "vlan read" /\ pc' = "meta" /\ UNCHANGED <<iface, loaded, edits>>
    BY <1>8 DEF ReadBack, After
  <2> QED
    BY <2>1 DEF MetadataKept
<1>9. CASE ReadBack("meta")
  <2>1. pc' = "done" /\ UNCHANGED <<port, iface, loaded, edits>>
    BY <1>9 DEF ReadBack, After, Fixed
  <2>2. CASE DesiredMetadata(port, MetaFields(iface)) = MetaFields(iface)
    BY <2>1, <2>2 DEF MetadataKept
  <2>3. CASE DesiredMetadata(port, MetaFields(iface)) # MetaFields(iface)
    <3>1. report' = [report EXCEPT !.errors = @ \cup {"meta"}]
      BY <1>9, <2>3 DEF ReadBack
    <3>2. "meta" \in report'.errors
      BY <3>1 DEF Typed
    <3> QED
      BY <2>1, <3>2 DEF MetadataKept
  <2> QED
    BY <2>2, <2>3
<1>10. CASE SomebodyEdits
  <2>1. UNCHANGED <<port, pc, apply, loaded, report>>
    BY <1>10 DEF SomebodyEdits, Fixed
  <2>2. NoticedOfMetadata' =>
          /\ NoticedOfMetadata
          /\ \/ MetaFields(iface') = MetaFields(iface)
             \/ pc \notin {"vlan", "vlan read", "meta", "done"}
    <3>1. CASE CreateVlan
      BY <3>1 DEF CreateVlan
    <3>2. CASE DeleteVlan
      <4>1. PICK v \in vlans :
              /\ edits' = edits \cup {"delete"}
              /\ iface' = [iface EXCEPT !.tagged = @ \ {v.id},
                                        !.untagged = IF @ = v.id THEN None ELSE @]
        BY <3>2 DEF DeleteVlan
      <4>2. iface'.enabled = iface.enabled /\ iface'.text = iface.text
        BY <4>1 DEF Typed, RecordFields
      <4> QED
        BY <4>1, <4>2 DEF MetaFields
    <3>3. CASE EditInterface
      <4>1. edits' = edits \cup {EditKind}
        BY <3>3 DEF EditInterface
      <4>2. EditKind \notin {"edit", "edit of vlans written"} =>
              pc \notin {"vlan", "vlan read", "meta", "done"}
        BY DEF EditKind, Typed, TypeOK
      <4> QED
        BY <4>1, <4>2
    <3> QED
      BY <1>10, <3>1, <3>2, <3>3 DEF SomebodyEdits
  <2> QED
    BY <2>1, <2>2 DEF MetadataKept
<1>11. CASE UNCHANGED vars
  BY <1>11 DEF vars, MetadataKept
<1> QED
  BY <1>1, <1>2, <1>3, <1>4, <1>5, <1>6, <1>7, <1>8, <1>9, <1>10, <1>11 DEF Next

-----------------------------------------------------------------------------
(* Runs that nobody disturbs.                                              *)

(* What a run writes over a record, field by field.                        *)
LEMMA WrittenIs ==
  ASSUME NEW r, DOMAIN r = RecordFields
  PROVE  /\ DOMAIN VlansWritten(r) = RecordFields /\ DOMAIN Written(r) = RecordFields
         /\ Writes(r) => VlanFields(VlansWritten(r)) = WantOf(r).fields
         /\ ~Writes(r) => VlansWritten(r) = r
         /\ MetaFields(VlansWritten(r)) = MetaFields(r)
         /\ VlanFields(Written(r)) = VlanFields(VlansWritten(r))
         /\ MetaFields(Written(r)) = MetaOf(r)
         /\ MetaOf(r) = MetaFields(r) => Written(r) = VlansWritten(r)
<1>1. PICK f : f = WantOf(r).fields
  OBVIOUS
<1>2. f = [mode |-> f.mode, untagged |-> f.untagged, tagged |-> f.tagged]
  BY <1>1, WantIs DEF Asks, WantOf
<1>3. PICK w : w = VlansWritten(r)
  OBVIOUS
<1>4. /\ Writes(r) => w = [r EXCEPT !.mode = f.mode, !.tagged = f.tagged,
                                    !.untagged = f.untagged]
      /\ ~Writes(r) => w = r
  BY <1>1, <1>3 DEF VlansWritten
<1>5. /\ DOMAIN w = RecordFields
      /\ Writes(r) => VlanFields(w) = f
      /\ MetaFields(w) = MetaFields(r)
  BY <1>2, <1>4 DEF RecordFields, VlanFields, MetaFields
<1>6. PICK m : m = MetaOf(r)
  OBVIOUS
<1>7. m = [enabled |-> m.enabled, text |-> m.text]
  BY <1>6 DEF MetaOf, DesiredMetadata
<1>8. PICK x : x = Written(r)
  OBVIOUS
<1>9. /\ m = MetaFields(r) => x = w
      /\ m # MetaFields(r) => x = [w EXCEPT !.enabled = m.enabled, !.text = m.text]
  BY <1>3, <1>6, <1>8 DEF Written
<1>10. /\ DOMAIN x = RecordFields
       /\ VlanFields(x) = VlanFields(w)
       /\ MetaFields(x) = m
  <2>1. CASE m = MetaFields(r)
    BY <2>1, <1>5, <1>9
  <2>2. CASE m # MetaFields(r)
    BY <2>2, <1>5, <1>7, <1>9 DEF RecordFields, VlanFields, MetaFields
  <2> QED
    BY <2>1, <2>2
<1> QED
  BY <1>1, <1>3, <1>4, <1>5, <1>6, <1>8, <1>9, <1>10

(* The run after an apply has no metadata left to write, the same errors,  *)
(* and no VLANs when that one could tell all of them.                      *)
LEMMA FollowsApply ==
  ASSUME vlans \subseteq Vlans, NEW r, DOMAIN r = RecordFields, NEW w, w = Written(r)
  PROVE  /\ Reported(w).meta = {} /\ Reported(w).errors = Reported(r).errors
         /\ ~Reported(r).warned => Reported(w).vlan = {}
<1>1. /\ Writes(r) => VlanFields(w) = WantOf(r).fields
      /\ ~Writes(r) => VlanFields(w) = VlanFields(r)
      /\ MetaFields(w) = MetaOf(r)
  BY WrittenIs
<1>2. \A x : /\ Reported(x).meta = IF MetaOf(x) = MetaFields(x) THEN {} ELSE {MetaOf(x)}
             /\ Reported(x).errors = IF Blocked(x) THEN {"vlan"} ELSE {}
             /\ Reported(x).vlan = IF Writes(x) THEN {WantOf(x).fields} ELSE {}
             /\ Reported(x).warned = (State # NoState /\ ~WantOf(x).fatal /\ WantOf(x).partial)
  BY DEF Reported, VlansReported
<1>3. Reported(w).meta = {}
  <2>1. MetaOf(w) = MetaFields(w)
    BY <1>1, MetadataSettles DEF MetaOf
  <2> QED
    BY <2>1, <1>2
<1>4. CASE Writes(r)
  <2>1. State.untagged = None \/ State.untagged \notin State.tagged
    BY Apart DEF State
  <2>2. ~WantOf(w).fatal /\ (~WantOf(r).partial => WantOf(w).fields = WantOf(r).fields)
    <3>1. PICK cur : cur = VlanFields(r)
      OBVIOUS
    <3>2. PICK next : next = VlanFields(w)
      OBVIOUS
    <3>3. PICK W : W = WantOf(r)
      OBVIOUS
    <3>4. /\ W = DesiredNetboxState(vlans, State, cur) /\ ~W.fatal
          /\ WantOf(w) = DesiredNetboxState(vlans, State, next)
          /\ next = W.fields
      BY <1>1, <1>4, <3>1, <3>2, <3>3 DEF WantOf, Writes
    <3>5. next.untagged = W.fields.untagged /\ next.tagged = W.fields.tagged
      BY <3>4
    <3> QED
      BY <2>1, <3>3, <3>4, <3>5, AsksAgain
  <2> QED
    BY <1>1, <1>2, <1>3, <1>4, <2>2 DEF Writes, Blocked
<1>5. CASE ~Writes(r)
  <2>1. WantOf(w) = WantOf(r) /\ VlanFields(w) = VlanFields(r)
    BY <1>1, <1>5 DEF WantOf
  <2>2. (Writes(w) <=> Writes(r)) /\ (Blocked(w) <=> Blocked(r))
    BY <2>1 DEF Writes, Blocked
  <2> QED
    BY <1>2, <1>3, <1>5, <2>2
<1> QED
  BY <1>4, <1>5

(* What is expected of a run over a record depends on the port and on      *)
(* NetBox's VLANs alone.                                                   *)
LEMMA SameRun ==
  ASSUME UNCHANGED <<port, policy, vlans>>
  PROVE  /\ loaded' = loaded =>
              /\ Writes(loaded)' = Writes(loaded) /\ VlansReported(loaded)' = VlansReported(loaded)
              /\ VlansWritten(loaded)' = VlansWritten(loaded) /\ Written(loaded)' = Written(loaded)
              /\ Reported(loaded)' = Reported(loaded) /\ MetaOf(loaded)' = MetaOf(loaded)
         /\ iface' = iface => Reported(iface)' = Reported(iface)
         /\ UNCHANGED <<loaded, last>> => Follows(loaded)' = Follows(loaded)
         /\ UNCHANGED <<iface, last>> => Follows(iface)' = Follows(iface)
         /\ loaded' = iface /\ last' = last => Follows(loaded)' = Follows(iface)
<1> USE DEF State, WantOf, MetaOf, Blocked, Writes, VlansReported, Reported
<1>1. ASSUME loaded' = loaded
      PROVE  /\ Writes(loaded)' = Writes(loaded) /\ MetaOf(loaded)' = MetaOf(loaded)
             /\ VlansReported(loaded)' = VlansReported(loaded)
             /\ Reported(loaded)' = Reported(loaded)
  BY <1>1
<1>2. ASSUME loaded' = loaded
      PROVE  VlansWritten(loaded)' = VlansWritten(loaded) /\ Written(loaded)' = Written(loaded)
  BY <1>2 DEF VlansWritten, Written
<1>3. iface' = iface => Reported(iface)' = Reported(iface)
  OBVIOUS
<1>4. UNCHANGED <<loaded, last>> => Follows(loaded)' = Follows(loaded)
  BY DEF Follows
<1>5. UNCHANGED <<iface, last>> => Follows(iface)' = Follows(iface)
  BY DEF Follows
<1>6. loaded' = iface /\ last' = last => Follows(loaded)' = Follows(iface)
  BY DEF Follows
<1> HIDE DEF State, WantOf, MetaOf, Blocked, Writes, VlansReported, Reported
<1> QED
  BY <1>1, <1>2, <1>3, <1>4, <1>5, <1>6

(* A run that nobody disturbs refuses no update: it only names VLANs it    *)
(* has just read.                                                          *)
LEMMA NotRefused ==
  ASSUME Typed, Expected, NEW pass \in {"vlan", "meta"}, MustWrite(pass)
  PROVE  With(pass).tagged \cup {With(pass).untagged} \subseteq Known
<1>1. CASE pass = "vlan"
  <2>1. pc = "vlan" /\ cache = vlans /\ iface = loaded
    BY <1>1 DEF MustWrite, Expected
  <2>2. With("vlan").tagged = Want.fields.tagged /\ With("vlan").untagged = Want.fields.untagged
    BY WithIs DEF VlanFields
  <2>3. PICK cur : cur = VlanFields(loaded)
    OBVIOUS
  <2>4. PICK W : W = Want
    OBVIOUS
  <2>5. W = DesiredNetboxState(cache, found, cur) /\ cur.tagged = loaded.tagged
    BY <2>3, <2>4 DEF Want, VlanFields
  <2>6. cache \in SUBSET Vlans
    BY DEF Typed, TypeOK
  <2>7. \A i \in W.fields.tagged \cup {W.fields.untagged} :
           i = None \/ (\E v \in cache : i = v.id) \/ i \in cur.tagged
    BY <2>5, <2>6, AskedIsKnown
  <2>8. iface.tagged \subseteq Known
    BY DEF Typed, TypeOK
  <2> QED
    BY <1>1, <2>1, <2>2, <2>4, <2>5, <2>7, <2>8 DEF Known
<1>2. CASE pass = "meta"
  <2>1. With("meta").tagged = iface.tagged /\ With("meta").untagged = iface.untagged
    BY WithIs DEF VlanFields
  <2> QED
    BY <1>2, <2>1 DEF Typed, TypeOK
<1> QED
  BY <1>1, <1>2

(* Each step of such a run is the expected one.                            *)
LEMMA NextUndisturbed ==
  ASSUME Typed, Undisturbed, [Next]_vars
  PROVE  Undisturbed'
<1> SUFFICES ASSUME mishaps' = 0 PROVE Expected'
  BY DEF Undisturbed
<1>0. mishaps \in Nat /\ run \in Nat
  <2>1. mishaps \in 0 .. MaxMishaps /\ run \in 0 .. MaxRuns
    BY DEF Typed, TypeOK
  <2> QED
    BY <2>1, BoundsAssumption
<1>1. CASE SomebodyEdits
  BY <1>0, <1>1 DEF SomebodyEdits
<1>2. CASE UNCHANGED vars
  <2>1. Expected
    BY <1>2 DEF Undisturbed, vars
  <2> QED
    BY <2>1, <1>2, SameRun DEF vars, Expected
<1> SUFFICES ASSUME ~SomebodyEdits, Next PROVE Expected'
  BY <1>1, <1>2
<1>3. mishaps = 0 /\ UNCHANGED <<port, policy, vlans>>
  <2>1. ASSUME NEW pass \in {"vlan", "meta"}, UpdateFails(pass)
        PROVE  mishaps = 0 /\ UNCHANGED <<port, policy, vlans>>
    BY <1>0, <2>1 DEF UpdateFails, Fixed
  <2> QED
    BY <2>1 DEF Next, StartRun, Collect, LoadScope, CompareVlans, CompareMetadata,
                Update, ReadBack, Return, Fixed
<1>4. Expected
  BY <1>3 DEF Undisturbed
<1>5. pc \notin {"idle", "collect"} => found = State
  BY DEF Typed, State
<1>6. pc \notin {"idle", "collect"} => Want = WantOf(loaded) /\ WantMeta = MetaOf(loaded)
  BY <1>4, <1>5 DEF Expected, Want, WantOf, WantMeta, MetaOf
<1>7. CASE StartRun
  <2>1. /\ pc = "idle" /\ pc' = "collect" /\ cache' = vlans' /\ report' = NoReport
        /\ run' = run + 1 /\ UNCHANGED <<iface, last>>
    BY <1>3, <1>7 DEF StartRun
  <2>2. run' > 1 => run > 0
    BY <2>1, <1>0
  <2> QED
    BY <2>1, <2>2, <1>3, <1>4, SameRun DEF Expected
<1>8. CASE Collect
  <2>1. /\ pc = "collect" /\ pc' = "scope" /\ UNCHANGED <<cache, report, iface, last, run>>
    BY <1>8 DEF Collect
  <2> QED
    BY <2>1, <1>3, <1>4, SameRun DEF Expected
<1>9. CASE LoadScope
  <2>1. /\ pc = "scope" /\ pc' = "vlan" /\ loaded' = iface
        /\ UNCHANGED <<cache, report, iface, last, run>>
    BY <1>9 DEF LoadScope
  <2> QED
    BY <2>1, <1>3, <1>4, SameRun DEF Expected
<1>10. CASE CompareVlans
  <2>1. /\ pc = "vlan" /\ pc' = "meta" /\ UNCHANGED <<cache, iface, apply, loaded, last, run>>
        /\ report = NoReport /\ iface = loaded
    BY <1>4, <1>10 DEF CompareVlans, Expected
  <2>2. /\ Want = WantOf(loaded) /\ found = State
    BY <2>1, <1>5, <1>6
  <2>3. report' = VlansReported(loaded)
    BY <1>10, <2>1, <2>2 DEF CompareVlans, VlansReported, Blocked, Writes, NoReport
  <2>4. ~(apply /\ Writes(loaded))
    BY <1>10, <2>2 DEF CompareVlans, Writes
  <2>5. iface = IF apply THEN VlansWritten(loaded) ELSE loaded
    BY <2>1, <2>4 DEF VlansWritten
  <2> QED
    BY <2>1, <2>3, <2>5, <1>3, <1>4, SameRun DEF Expected
<1>11. CASE CompareMetadata
  <2>1. /\ pc = "meta" /\ pc' = "done" /\ UNCHANGED <<cache, iface, apply, loaded, last, run>>
        /\ report = VlansReported(loaded)
        /\ iface = IF apply THEN VlansWritten(loaded) ELSE loaded
        /\ WantMeta = MetaOf(loaded)
    BY <1>4, <1>6, <1>11 DEF CompareMetadata, Expected
  <2>2. report' = Reported(loaded)
    BY <1>11, <2>1 DEF CompareMetadata, Reported, VlansReported
  <2>3. iface = IF apply THEN Written(loaded) ELSE loaded
    BY <1>11, <2>1 DEF CompareMetadata, Written
  <2> QED
    BY <2>1, <2>2, <2>3, <1>3, <1>4, SameRun DEF Expected
<1>12. CASE Update("vlan")
  <2>1. /\ pc = "vlan" /\ pc' = "vlan read" /\ apply
        /\ UNCHANGED <<cache, apply, loaded, last, run>>
        /\ iface' = With("vlan") /\ report = NoReport /\ iface = loaded
    BY <1>4, <1>12 DEF Update, MustWrite, Expected
  <2>2. Want = WantOf(loaded) /\ found = State
    BY <2>1, <1>5, <1>6
  <2>3. Writes(loaded)
    BY <1>12, <2>2 DEF Update, MustWrite, Writes
  <2>4. iface' = VlansWritten(loaded)
    BY <2>1, <2>2, <2>3 DEF With, VlansWritten
  <2>5. report' = [NoReport EXCEPT !.warned = VlansReported(loaded).warned]
    BY <1>12, <2>1, <2>2, <2>3 DEF Update, Warned, Writes, VlansReported, NoReport
  <2> QED
    BY <2>1, <2>3, <2>4, <2>5, <1>3, <1>4, SameRun DEF Expected
<1>13. CASE Update("meta")
  <2>1. /\ pc = "meta" /\ pc' = "meta read" /\ apply
        /\ UNCHANGED <<cache, apply, loaded, last, run>>
        /\ iface' = With("meta") /\ report = VlansReported(loaded)
        /\ iface = VlansWritten(loaded)
    BY <1>4, <1>13 DEF Update, MustWrite, Expected
  <2>2. MetaOf(loaded) # MetaFields(loaded)
    BY <1>6, <1>13, <2>1 DEF Update, MustWrite
  <2>3. MetaFields(iface) = MetaFields(loaded)
    BY <2>1, WrittenIs DEF Typed
  <2>4. iface' = Written(loaded)
    BY <2>1, <2>2, <2>3 DEF With, Written, MetaOf
  <2>5. report' = report
    <3>1. report' = [report EXCEPT !.warned = report.warned \/ FALSE]
      BY <1>13 DEF Update, Warned
    <3>2. report = [ vlan |-> report.vlan, meta |-> report.meta,
                     errors |-> report.errors, warned |-> report.warned ]
      BY <2>1 DEF VlansReported
    <3>3. report.warned \in BOOLEAN
      BY <2>1 DEF VlansReported
    <3>4. (report.warned \/ FALSE) = report.warned
      BY <3>3
    <3> QED
      BY <3>1, <3>2, <3>4
  <2> QED
    BY <2>1, <2>2, <2>4, <2>5, <1>3, <1>4, SameRun DEF Expected
<1>14. ASSUME NEW pass \in {"vlan", "meta"}, UpdateFails(pass)
       PROVE  Expected'
  <2>1. MustWrite(pass) /\ ~(With(pass).tagged \cup {With(pass).untagged} \subseteq Known)
    BY <1>0, <1>3, <1>14 DEF UpdateFails
  <2> QED
    BY <2>1, <1>4, NotRefused
<1>15. CASE ReadBack("vlan")
  <2>1. /\ pc = "vlan read" /\ pc' = "meta" /\ apply
        /\ UNCHANGED <<cache, iface, apply, loaded, last, run>>
        /\ report = [NoReport EXCEPT !.warned = VlansReported(loaded).warned]
        /\ Writes(loaded) /\ iface = VlansWritten(loaded)
    BY <1>4, <1>15 DEF ReadBack, After, Expected
  <2>2. Want = WantOf(loaded)
    BY <2>1, <1>6
  <2>3. VlanFields(iface) = Want.fields
    BY <2>1, <2>2, WrittenIs DEF Typed
  <2>4. report' = [report EXCEPT !.vlan = {Want.fields}]
    BY <1>15, <2>3 DEF ReadBack
  <2>5. report' = VlansReported(loaded)
    BY <2>1, <2>2, <2>4 DEF VlansReported, NoReport, Writes, Blocked
  <2> QED
    BY <2>1, <2>5, <1>3, <1>4, SameRun DEF Expected
<1>16. CASE ReadBack("meta")
  <2>1. /\ pc = "meta read" /\ pc' = "done" /\ apply
        /\ UNCHANGED <<cache, iface, apply, loaded, last, run>>
        /\ report = VlansReported(loaded) /\ MetaOf(loaded) # MetaFields(loaded)
        /\ iface = Written(loaded) /\ WantMeta = MetaOf(loaded)
    BY <1>4, <1>6, <1>16 DEF ReadBack, After, Expected
  <2>2. MetaFields(iface) = MetaOf(loaded)
    BY <2>1, WrittenIs DEF Typed
  <2>3. DesiredMetadata(port, MetaFields(iface)) = MetaFields(iface)
    BY <2>2, MetadataSettles DEF MetaOf
  <2>4. report' = [report EXCEPT !.meta = {WantMeta}]
    BY <1>16, <2>3 DEF ReadBack
  <2>5. report' = Reported(loaded)
    BY <2>1, <2>4 DEF Reported, VlansReported
  <2> QED
    BY <2>1, <2>5, <1>3, <1>4, SameRun DEF Expected
<1>17. CASE Return
  <2>1. /\ pc = "done" /\ pc' = "idle" /\ UNCHANGED <<iface, loaded>>
        /\ last' = [of |-> report, applied |-> apply]
        /\ report = Reported(loaded)
        /\ iface = IF apply THEN Written(loaded) ELSE loaded
    BY <1>4, <1>17 DEF Return, Expected
  <2>2. Reported(iface)' = Reported(iface)
    BY <2>1, <1>3, SameRun
  <2>3. CASE apply
    <3>1. /\ Reported(iface).meta = {} /\ Reported(iface).errors = report.errors
          /\ ~report.warned => Reported(iface).vlan = {}
      BY <2>1, <2>3, FollowsApply DEF Typed, TypeOK
    <3>2. last'.applied /\ last'.of = report
      BY <2>1, <2>3
    <3>3. Follows(iface)'
      BY <2>2, <3>1, <3>2 DEF Follows
    <3> QED
      BY <2>1, <3>3 DEF Expected
  <2>4. CASE ~apply
    <3>1. ~last'.applied /\ last'.of = report
      BY <2>1, <2>4
    <3>2. Follows(iface)'
      BY <2>1, <2>2, <2>4, <3>1 DEF Follows
    <3> QED
      BY <2>1, <3>2 DEF Expected
  <2> QED
    BY <2>3, <2>4
<1> QED
  BY <1>7, <1>8, <1>9, <1>10, <1>11, <1>12, <1>13, <1>14, <1>15, <1>16, <1>17 DEF Next

-----------------------------------------------------------------------------
(* In every state the records are whole, what was written is still there,  *)
(* and a run that nobody disturbs is as expected.                          *)
THEOREM Invariance == Spec => []IInv
<1>1. Init => IInv
  BY InitIInv
<1>2. IInv /\ [Next]_vars => IInv'
  BY NextTyped, NextVlansKept, NextMetadataKept, NextUndisturbed DEF IInv
<1> QED
  BY <1>1, <1>2, PTL DEF Spec

(* The interface only names VLANs that are in NetBox.                      *)
THEOREM TypeCorrect == Spec => []TypeOK
<1>1. IInv => TypeOK
  BY DEF IInv, Typed
<1> QED
  BY <1>1, Invariance, PTL

(* An apply that ends without an error or a warning has left the interface *)
(* with the mode and the VLAN numbers of the port, whichever VLANs of one  *)
(* number NetBox has and although more are made meanwhile.                 *)
THEOREM QuietCarried == Spec => []QuietMeansCarried
<1>1. IInv => QuietMeansCarried
  <2> SUFFICES ASSUME IInv, pc = "done", apply, found # NoState,
                      report.errors = {}, ~report.warned, NoticedOfVlans
               PROVE  /\ iface.mode = found.mode
                      /\ Vids({iface.untagged}) = {found.untagged} \ {None}
                      /\ Vids(iface.tagged) = found.tagged
    BY DEF QuietMeansCarried, NoticedOfVlans
  <2>1. PICK W : W = Want
    OBVIOUS
  <2>2. ~W.fatal /\ ~W.partial /\ VlanFields(iface) = W.fields
    BY <2>1 DEF IInv, VlansKept
  <2>3. PICK cur : cur = VlanFields(loaded)
    OBVIOUS
  <2>4. W = DesiredNetboxState(cache, found, cur)
    BY <2>1, <2>3 DEF Want
  <2>5. cache \in SUBSET Vlans
    BY DEF IInv, Typed, TypeOK
  <2>6. /\ W.fields.mode = found.mode
        /\ Vids({W.fields.untagged}) = {found.untagged} \ {None}
        /\ Vids(W.fields.tagged) = found.tagged
    <3>1. Numbered(W, found)
      BY <2>2, <2>4, <2>5, NumbersExact
    <3> QED
      BY <3>1 DEF Numbered
  <2>7. /\ iface.mode = W.fields.mode
        /\ iface.untagged = W.fields.untagged /\ iface.tagged = W.fields.tagged
    BY <2>2 DEF VlanFields
  <2> QED
    BY <2>6, <2>7
<1> QED
  BY <1>1, Invariance, PTL

(* Whatever becomes of the VLANs, an apply in which no request on the      *)
(* metadata failed leaves the status and description reported.             *)
THEOREM MetadataWritten == Spec => []MetadataNotHeldBack
<1>1. IInv => MetadataNotHeldBack
  BY DEF IInv, MetadataKept, MetadataNotHeldBack, NoticedOfMetadata
<1> QED
  BY <1>1, Invariance, PTL

(* An apply that nobody disturbs writes what the plan before it listed;    *)
(* the run after an apply has the same errors, no metadata to write, and   *)
(* no VLANs when that one could tell all of them.                          *)
THEOREM NextFollows == Spec => []NextRunFollows
<1>1. IInv => NextRunFollows
  <2> SUFFICES ASSUME IInv, pc = "done", run > 1, mishaps = 0
               PROVE  IF last.applied
                      THEN /\ report.meta = {} /\ report.errors = last.of.errors
                           /\ ~last.of.warned => report.vlan = {}
                      ELSE report = last.of
    BY DEF NextRunFollows
  <2>1. report = Reported(loaded) /\ Follows(loaded)
    BY DEF IInv, Undisturbed, Expected
  <2> QED
    BY <2>1 DEF Follows
<1> QED
  BY <1>1, Invariance, PTL

(* No update takes a VLAN number off the interface that the port carries,  *)
(* by a VLAN the run knows: what is missing, ambiguous or out of scope     *)
(* cannot remove anything.                                                 *)
THEOREM CarriedKept == Spec => KeepsCarried
<1>1. IInv /\ [Next]_vars =>
        [Update("vlan") =>
           \A v \in cache :
              /\ v.id \in loaded.tagged \cup {loaded.untagged}
              /\ v.vid \in found.tagged \cup {found.untagged}
              => v.vid \in Assigned(iface')]_vars
  <2> SUFFICES ASSUME IInv, Update("vlan"), NEW v \in cache,
                      v.id \in loaded.tagged \cup {loaded.untagged},
                      v.vid \in found.tagged \cup {found.untagged}
               PROVE  v.vid \in Assigned(iface')
    OBVIOUS
  <2>1. PICK W : W = Want
    OBVIOUS
  <2>2. PICK cur : cur = VlanFields(loaded)
    OBVIOUS
  <2>3. W = DesiredNetboxState(cache, found, cur) /\ ~W.fatal
    BY <2>1, <2>2 DEF Want, Update, MustWrite
  <2>4. cache \in SUBSET Vlans
    BY DEF IInv, Typed, TypeOK
  <2>5. v.id \in cur.tagged \cup {cur.untagged}
    BY <2>2 DEF VlanFields
  <2>6. v.vid \in Vids(W.fields.tagged \cup {W.fields.untagged})
    <3>1. \E w \in cache : /\ w.vid = v.vid
                           /\ w.id \in W.fields.tagged \cup {W.fields.untagged}
      BY <2>3, <2>4, <2>5, NumbersKept
    <3> QED
      BY <3>1, <2>4 DEF Vids
  <2>7. VlanFields(iface') = W.fields
    BY <2>1, WithIs DEF Update, IInv
  <2>8. iface'.tagged = W.fields.tagged /\ iface'.untagged = W.fields.untagged
    BY <2>7 DEF VlanFields
  <2> QED
    BY <2>6, <2>8 DEF Assigned
<1> QED
  BY <1>1, Invariance, PTL DEF Spec, KeepsCarried

-----------------------------------------------------------------------------
(* A set of numbers that is not empty has a least one.                     *)
LEMMA LeastNumber ==
  ASSUME NEW S \in SUBSET Nat, S # {}
  PROVE  \E x \in S : \A y \in S : x <= y
<1> DEFINE Less == {ss \in Nat \X Nat : ss[1] < ss[2]}
<1>1. IsWellFoundedOn(Less, Nat)
  BY NatLessThanWellFounded DEF OpToRel
<1>2. \A x, y \in Nat : y < x => <<y, x>> \in Less
  OBVIOUS
<1> HIDE DEF Less
<1>3. PICK x \in S : \A y \in S : <<y, x>> \notin Less
  BY <1>1, WFMin
<1>4. ASSUME NEW y \in S PROVE x <= y
  <2>1. x \in Nat /\ y \in Nat
    OBVIOUS
  <2>2. ~(y < x)
    BY <1>2, <1>3, <2>1
  <2> QED
    BY <2>1, <2>2
<1> QED
  BY <1>4

(* The states of the parser after each line of a configuration.            *)
AreStates(f, lines) ==
    f = [n \in 0 .. Len(lines) |->
            IF n = 0 THEN NoSwitchport ELSE ConfigLine(f[n - 1], lines[n])]

(* Only one function gives the parser's states.                            *)
LEMMA StatesUnique ==
  ASSUME NEW lines, Len(lines) \in Nat, NEW f, NEW g,
         AreStates(f, lines), AreStates(g, lines)
  PROVE  f[Len(lines)] = g[Len(lines)]
<1> DEFINE S == {n \in 0 .. Len(lines) : f[n] # g[n]}
<1> SUFFICES ASSUME S # {} PROVE FALSE
  BY DEF S
<1>1. S \in SUBSET Nat
  OBVIOUS
<1>2. PICK n \in S : \A m \in S : n <= m
  BY <1>1, LeastNumber
<1>3. n \in 0 .. Len(lines) /\ f[n] # g[n]
  OBVIOUS
<1>4. n # 0
  BY <1>3 DEF AreStates
<1>5. n - 1 \in 0 .. Len(lines) /\ n - 1 \notin S
  BY <1>2, <1>3, <1>4
<1>6. f[n - 1] = g[n - 1]
  BY <1>5
<1>7. f[n] = ConfigLine(f[n - 1], lines[n])
  BY <1>3, <1>4 DEF AreStates
<1>8. g[n] = ConfigLine(g[n - 1], lines[n])
  BY <1>3, <1>4 DEF AreStates
<1> QED
  BY <1>3, <1>6, <1>7, <1>8

(* A line with a value; what stands in it is left alone in what follows.   *)
Line(kind, x) == <<kind, x>>
NoSwitchportLine == <<"no switchport">>

(* The parser's state after the last line.                                 *)
AreStatesOf(f, p) ==
    Len(RunningConfig(p)) \in Nat /\ AreStates(f, RunningConfig(p))
LastOf(f, p) == f[Len(RunningConfig(p))]
Completed(state) ==
    IF state.admin = "access" /\ state.access = None
    THEN [state EXCEPT !.access = 1] ELSE state

(* That state is what is parsed, once the states are known.                *)
LEMMA ParsedIsLast ==
  ASSUME NEW p, NEW g, AreStatesOf(g, p)
  PROVE  ParsePortChannelRunningConfig(p) = Completed(LastOf(g, p))
<1> DEFINE lines == RunningConfig(p)
           state[n \in 0 .. Len(lines)] ==
             IF n = 0 THEN NoSwitchport ELSE ConfigLine(state[n - 1], lines[n])
           parsed == state[Len(lines)]
<1>1. g = [n \in 0 .. Len(lines) |->
             IF n = 0 THEN NoSwitchport ELSE ConfigLine(g[n - 1], lines[n])]
  BY DEF AreStates, AreStatesOf
<1>2. state = [n \in 0 .. Len(lines) |->
             IF n = 0 THEN NoSwitchport ELSE ConfigLine(state[n - 1], lines[n])]
  BY <1>1
<1>3. ParsePortChannelRunningConfig(p) = Completed(parsed)
  BY Zenon DEF ParsePortChannelRunningConfig, Completed
<1> HIDE DEF state
<1>4. AreStates(state, lines)
  BY <1>2 DEF AreStates
<1>5. parsed = LastOf(g, p)
  BY <1>4, StatesUnique DEF AreStatesOf, LastOf
<1> QED
  BY <1>3, <1>5

(* Two sequences joined: first the one, then the other.                    *)
AreJoined(r, U, s, k, t, m) ==
    /\ s \in Seq(U) /\ k \in Nat /\ Len(s) = k
    /\ t \in Seq(U) /\ m \in Nat /\ Len(t) = m
    /\ r = s \o t
JoinedAs(r, U, s, k, t, m) ==
    /\ r \in Seq(U)
    /\ Len(r) = k + m
    /\ \A i \in 1 .. k : r[i] = s[i]
    /\ \A i \in 1 .. m : r[k + i] = t[i]

(* What stands where in them.                                              *)
LEMMA Joined ==
  ASSUME NEW U, NEW s, NEW t, NEW r, NEW k, NEW m, AreJoined(r, U, s, k, t, m)
  PROVE  JoinedAs(r, U, s, k, t, m)
<1>1. /\ s \in Seq(U) /\ k \in Nat /\ Len(s) = k
      /\ t \in Seq(U) /\ m \in Nat /\ Len(t) = m
      /\ r = s \o t
  BY DEF AreJoined
<1>2. r \in Seq(U)
  BY <1>1
<1>3. Len(r) = k + m
  <2>1. s \in Seq(U) /\ t \in Seq(U) /\ r = s \o t
    BY <1>1
  <2>2. Len(r) = Len(s) + Len(t)
    BY <2>1
  <2> QED
    BY <1>1, <2>2
<1>4. \A i \in 1 .. k : r[i] = s[i]
  BY <1>1
<1>5. \A i \in 1 .. m : r[k + i] = t[i]
  BY <1>1
<1> QED
  BY <1>2, <1>3, <1>4, <1>5 DEF JoinedAs

(* Two items, a sequence of items and one more, end to end.                *)
IsEndToEnd(r, a, b, B, c) == r = <<a, b>> \o B \o <<c>>

(* What stands where in them.                                              *)
HasEnds(r, m, a, b, B, c) ==
    /\ Len(r) = m + 3 /\ r[1] = a /\ r[2] = b /\ r[m + 3] = c
    /\ \A i \in 1 .. m : r[i + 2] = B[i]

(* A sequence put together of them has them there.                         *)
LEMMA EndToEnd ==
  ASSUME NEW U, NEW a \in U, NEW b \in U, NEW c \in U, NEW m \in Nat,
         NEW B \in [1 .. m -> U], NEW r, IsEndToEnd(r, a, b, B, c)
  PROVE  HasEnds(r, m, a, b, B, c)
<1>1. PICK A : A = <<a, b>>
  OBVIOUS
<1>2. PICK C : C = <<c>>
  OBVIOUS
<1>3. A \in Seq(U) /\ Len(A) = 2 /\ A[1] = a /\ A[2] = b
  BY <1>1
<1>4. C \in Seq(U) /\ Len(C) = 1 /\ C[1] = c
  BY <1>2
<1>5. B \in Seq(U) /\ Len(B) = m
  OBVIOUS
<1>6. PICK AB : AB = A \o B
  OBVIOUS
<1>7. /\ AB \in Seq(U) /\ Len(AB) = 2 + m
      /\ \A i \in 1 .. 2 : AB[i] = A[i]
      /\ \A i \in 1 .. m : AB[2 + i] = B[i]
  <2>1. AreJoined(AB, U, A, 2, B, m)
    BY <1>3, <1>5, <1>6 DEF AreJoined
  <2>2. JoinedAs(AB, U, A, 2, B, m)
    BY <2>1, Joined
  <2> QED
    BY <2>2 DEF JoinedAs
<1>8. r = AB \o C
  BY <1>1, <1>2, <1>6 DEF IsEndToEnd
<1>9. PICK k \in Nat : k = 2 + m
  OBVIOUS
<1>10. /\ Len(r) = k + 1
       /\ \A i \in 1 .. k : r[i] = AB[i]
       /\ \A i \in 1 .. 1 : r[k + i] = C[i]
  <2>1. AreJoined(r, U, AB, k, C, 1)
    BY <1>4, <1>7, <1>8, <1>9 DEF AreJoined
  <2>2. JoinedAs(r, U, AB, k, C, 1)
    BY <2>1, Joined
  <2> QED
    BY <2>2 DEF JoinedAs
<1>11. r[k + 1] = c
  BY <1>4, <1>10
<1>12. \A i \in 1 .. m : i + 2 \in 1 .. k /\ 2 + i = i + 2
  BY <1>9
<1>13. ASSUME NEW i \in 1 .. m
       PROVE  r[i + 2] = B[i]
  <2>1. i + 2 \in 1 .. k /\ 2 + i = i + 2
    BY <1>12
  <2>2. r[i + 2] = AB[i + 2]
    BY <1>10, <2>1
  <2>3. AB[2 + i] = B[i]
    BY <1>7
  <2> QED
    BY <2>1, <2>2, <2>3
<1>14. 1 \in 1 .. k /\ 2 \in 1 .. k /\ k + 1 = m + 3 /\ 1 \in 1 .. 2 /\ 2 \in 1 .. 2
  BY <1>9
<1>15. r[1] = a /\ r[2] = b
  BY <1>3, <1>7, <1>10, <1>14
<1> QED
  BY <1>10, <1>11, <1>13, <1>14, <1>15 DEF HasEnds

(* The lines of a trunk: the native VLAN, the rows of the list, the mode.  *)
AreTrunkLines(lines, N, allowed, native) ==
    /\ Len(lines) = N + 2
    /\ lines[1] = Line("native", native)
    /\ lines[2] = Line("allowed", allowed[1])
    /\ \A n \in 3 .. N + 1 : lines[n] = Line("allowed add", allowed[n - 1])
    /\ lines[N + 2] = Line("mode", "trunk")

(* The configuration of a trunk has these lines.                           *)
LEMMA TrunkLines ==
  ASSUME NEW p, p.agg, p.mode = "trunk", NEW X, p.allowed \in Seq(X),
         NEW N \in Nat, N = Len(p.allowed), N >= 1,
         NEW lines, lines = RunningConfig(p)
  PROVE  AreTrunkLines(lines, N, p.allowed, p.native)
<1>1. PICK m \in Nat : m = N - 1
  OBVIOUS
<1>2. PICK a, b, c, B :
        /\ a = Line("native", p.native) /\ b = Line("allowed", Head(p.allowed))
        /\ c = Line("mode", "trunk")
        /\ B = [i \in 1 .. m |-> Line("allowed add", p.allowed[i + 1])]
  OBVIOUS
<1>3. IsEndToEnd(lines, a, b, B, c)
  BY <1>1, <1>2 DEF RunningConfig, Line, IsEndToEnd
<1>4. Head(p.allowed) = p.allowed[1]
  OBVIOUS
<1>5. PICK U : a \in U /\ b \in U /\ c \in U /\ B \in [1 .. m -> U]
  <2>1. \A i \in 1 .. m : B[i] \in {a, b, c} \cup {B[j] : j \in 1 .. m}
    OBVIOUS
  <2>2. B = [i \in 1 .. m |-> B[i]]
    BY <1>2
  <2>3. PICK U : U = {a, b, c} \cup {B[j] : j \in 1 .. m}
    OBVIOUS
  <2>4. B \in [1 .. m -> U]
    BY <2>1, <2>2, <2>3
  <2>5. a \in U /\ b \in U /\ c \in U
    BY <2>3
  <2> QED
    BY <2>4, <2>5
<1>6. /\ Len(lines) = m + 3 /\ lines[1] = a /\ lines[2] = b /\ lines[m + 3] = c
      /\ \A i \in 1 .. m : lines[i + 2] = B[i]
  <2>1. HasEnds(lines, m, a, b, B, c)
    BY <1>3, <1>5, EndToEnd
  <2> QED
    BY <2>1 DEF HasEnds
<1>7. m + 3 = N + 2
  BY <1>1
<1>8. ASSUME NEW n \in 3 .. N + 1
       PROVE  lines[n] = Line("allowed add", p.allowed[n - 1])
  <2>1. n - 2 \in 1 .. m /\ (n - 2) + 1 = n - 1 /\ (n - 2) + 2 = n
    BY <1>1
  <2>2. lines[n] = B[n - 2]
    BY <1>6, <2>1
  <2>3. B[n - 2] = Line("allowed add", p.allowed[(n - 2) + 1])
    BY <1>2, <2>1
  <2> QED
    BY <2>1, <2>2, <2>3
<1> QED
  BY <1>2, <1>4, <1>6, <1>7, <1>8 DEF AreTrunkLines

(* What the parser does with a line, by its kind.                          *)
LEMMA RoutedRead ==
  ASSUME NEW state
  PROVE  ConfigLine(state, NoSwitchportLine) = [NoSwitchport EXCEPT !.admin = "routed"]
BY DEF ConfigLine, NoSwitchportLine

(* The mode.                                                               *)
LEMMA ModeRead ==
  ASSUME NEW state, NEW x
  PROVE  ConfigLine(state, Line("mode", x)) = [state EXCEPT !.admin = x]
BY DEF ConfigLine, Line

(* The access VLAN.                                                        *)
LEMMA AccessRead ==
  ASSUME NEW state, NEW x
  PROVE  ConfigLine(state, Line("access", x)) = [state EXCEPT !.access = x]
BY DEF ConfigLine, Line

(* The native VLAN.                                                        *)
LEMMA NativeRead ==
  ASSUME NEW state, NEW x
  PROVE  ConfigLine(state, Line("native", x)) = [state EXCEPT !.native = x]
BY DEF ConfigLine, Line

(* The first row of the list of VLANs.                                     *)
LEMMA AllowedRead ==
  ASSUME NEW state, NEW x
  PROVE  ConfigLine(state, Line("allowed", x)) =
           [state EXCEPT !.seen = TRUE, !.all = AllowsAll(x),
                         !.vlans = ExpandVlanList(x)]
BY DEF ConfigLine, Line

(* A further row.                                                          *)
LEMMA AddRead ==
  ASSUME NEW state, NEW x
  PROVE  ConfigLine(state, Line("allowed add", x)) =
           [state EXCEPT !.seen = TRUE, !.all = AllowsAll(x),
                         !.vlans = @ \cup ExpandVlanList(x)]
BY DEF ConfigLine, Line

(* What a configuration says of the port, once read.                       *)
Configured(conf, p) ==
    /\ conf.admin = IF p.agg THEN p.mode ELSE ""
    /\ conf.access = IF p.agg /\ p.mode = "access" THEN p.access ELSE None
    /\ conf.native = IF p.agg /\ p.mode = "trunk" THEN p.native ELSE None
    /\ conf.voice = None
    /\ (p.agg /\ p.mode = "trunk") \/ conf.seen = FALSE

(* A trunk's configuration is read row by row, and its rows add up.        *)
LEMMA TrunkStates ==
  ASSUME NEW N \in Nat, N >= 1, NEW allowed, NEW native, NEW lines,
         AreTrunkLines(lines, N, allowed, native)
  PROVE  \E g : /\ AreStates(g, lines)
               /\ g[N + 2].admin = "trunk" /\ g[N + 2].access = None
               /\ g[N + 2].native = native /\ g[N + 2].voice = None
<1> DEFINE Some(n) == UNION { ExpandVlanList(allowed[i]) : i \in 1 .. n }
           Row(n) == [ NoSwitchport EXCEPT
                         !.native = native, !.seen = TRUE,
                         !.all = AllowsAll(allowed[n]), !.vlans = Some(n) ]
           First == [NoSwitchport EXCEPT !.native = native]
           End == [Row(N) EXCEPT !.admin = "trunk"]
<1>1. Some(1) = ExpandVlanList(allowed[1])
  <2>1. 1 .. 1 = {1}
    OBVIOUS
  <2> QED
    BY <2>1
<1>2. ASSUME NEW n \in 2 .. N
      PROVE  Some(n) = Some(n - 1) \cup ExpandVlanList(allowed[n])
  <2>1. 1 .. n = (1 .. (n - 1)) \cup {n}
    OBVIOUS
  <2> QED
    BY <2>1
<1> HIDE DEF Some
<1>3. ConfigLine(NoSwitchport, lines[1]) = First
  BY NativeRead DEF AreTrunkLines
<1>4. ConfigLine(First, lines[2]) = Row(1)
  <2>1. ConfigLine(First, lines[2]) =
          [First EXCEPT !.seen = TRUE, !.all = AllowsAll(allowed[1]),
                        !.vlans = ExpandVlanList(allowed[1])]
    <3>1. PICK first : first = First
      OBVIOUS
    <3>2. ConfigLine(first, Line("allowed", allowed[1])) =
            [first EXCEPT !.seen = TRUE, !.all = AllowsAll(allowed[1]),
                          !.vlans = ExpandVlanList(allowed[1])]
      BY AllowedRead
    <3>3. lines[2] = Line("allowed", allowed[1])
      BY DEF AreTrunkLines
    <3> HIDE DEF First
    <3> QED
      BY <3>1, <3>2, <3>3
  <2> QED
    BY <1>1, <2>1 DEF NoSwitchport
<1>5. ASSUME NEW n \in 3 .. N + 1 PROVE ConfigLine(Row(n - 2), lines[n]) = Row(n - 1)
  <2>1. n - 1 \in 2 .. N /\ (n - 1) - 1 = n - 2
    OBVIOUS
  <2>2. PICK row : row = Row(n - 2)
    OBVIOUS
  <2>3. ConfigLine(row, lines[n]) =
          [row EXCEPT !.seen = TRUE, !.all = AllowsAll(allowed[n - 1]),
             !.vlans = @ \cup ExpandVlanList(allowed[n - 1])]
    <3>1. lines[n] = Line("allowed add", allowed[n - 1])
      BY DEF AreTrunkLines
    <3> QED
      BY <3>1, AddRead
  <2>4. Some(n - 1) = Some(n - 2) \cup ExpandVlanList(allowed[n - 1])
    BY <1>2, <2>1
  <2> QED
    BY <2>2, <2>3, <2>4 DEF NoSwitchport
<1>6. ConfigLine(Row(N), lines[N + 2]) = End
  <2>1. PICK row : row = Row(N)
    OBVIOUS
  <2>2. lines[N + 2] = Line("mode", "trunk")
    BY DEF AreTrunkLines
  <2>3. ConfigLine(row, lines[N + 2]) = [row EXCEPT !.admin = "trunk"]
    BY <2>2, ModeRead
  <2> HIDE DEF Row
  <2> QED
    BY <2>1, <2>3
<1>7. End.admin = "trunk" /\ End.access = None /\ End.native = native /\ End.voice = None
  BY DEF NoSwitchport
<1> HIDE DEF Row, First, End
<1> DEFINE g == [n \in 0 .. N + 2 |-> IF n = 0 THEN NoSwitchport
                                     ELSE IF n = 1 THEN First
                                     ELSE IF n = N + 2 THEN End
                                     ELSE Row(n - 1)]
<1>8. /\ g[0] = NoSwitchport /\ g[1] = First /\ g[N + 2] = End
      /\ \A n \in 2 .. N + 1 : g[n] = Row(n - 1)
      /\ g = [n \in 0 .. N + 2 |-> g[n]]
  <2>1. g[0] = NoSwitchport /\ g[1] = First /\ g[N + 2] = End
    OBVIOUS
  <2>2. ASSUME NEW n \in 2 .. N + 1 PROVE g[n] = Row(n - 1)
    <3>1. n \in 0 .. N + 2 /\ n # 0 /\ n # 1 /\ n # N + 2
      OBVIOUS
    <3> QED
      BY <3>1
  <2>3. g = [n \in 0 .. N + 2 |-> g[n]]
    OBVIOUS
  <2> HIDE DEF g
  <2> QED
    BY <2>1, <2>2, <2>3
<1> HIDE DEF g
<1>9. ASSUME NEW n \in 0 .. N + 2, n # 0 PROVE g[n] = ConfigLine(g[n - 1], lines[n])
  <2>1. CASE n = 1
    BY <1>3, <1>8, <2>1
  <2>2. CASE n = 2
    <3>1. 2 \in 2 .. N + 1 /\ 2 - 1 = 1
      OBVIOUS
    <3>2. g[2] = Row(1)
      BY <1>8, <3>1
    <3> QED
      BY <1>4, <1>8, <2>2, <3>1, <3>2
  <2>3. CASE n \in 3 .. N + 1
    <3>1. n \in 2 .. N + 1 /\ n - 1 \in 2 .. N + 1 /\ (n - 1) - 1 = n - 2
      BY <2>3
    <3>2. g[n] = Row(n - 1) /\ g[n - 1] = Row(n - 2)
      BY <1>8, <3>1
    <3> QED
      BY <1>5, <2>3, <3>2
  <2>4. CASE n = N + 2
    <3>1. N + 1 \in 2 .. N + 1 /\ (N + 1) - 1 = N /\ (N + 2) - 1 = N + 1
      OBVIOUS
    <3>2. g[N + 1] = Row(N)
      BY <1>8, <3>1
    <3> QED
      BY <1>6, <1>8, <2>4, <3>1, <3>2
  <2>5. n = 1 \/ n = 2 \/ n \in 3 .. N + 1 \/ n = N + 2
    BY <1>9
  <2> QED
    BY <2>1, <2>2, <2>3, <2>4, <2>5
<1>10. g = [n \in 0 .. Len(lines) |->
              IF n = 0 THEN NoSwitchport ELSE ConfigLine(g[n - 1], lines[n])]
  <2>1. Len(lines) = N + 2
    BY DEF AreTrunkLines
  <2> QED
    BY <1>8, <1>9, <2>1
<1> QED
  BY <1>7, <1>8, <1>10 DEF AreStates

(* A trunk's configuration is read row by row, to its last line.           *)
LEMMA TrunkConfigured ==
  ASSUME NEW p, IsPort(p), p.agg, p.mode = "trunk"
  PROVE  Configured(ParsePortChannelRunningConfig(p), p)
<1>1. PICK X : p.allowed \in Seq(X) /\ p.allowed # << >>
  BY DEF IsPort
<1>2. PICK N \in Nat : N = Len(p.allowed) /\ N >= 1
  BY <1>1
<1>3. PICK lines : lines = RunningConfig(p)
  OBVIOUS
<1>4. AreTrunkLines(lines, N, p.allowed, p.native)
  BY <1>1, <1>2, <1>3, TrunkLines
<1>5. PICK g : /\ AreStates(g, lines)
               /\ g[N + 2].admin = "trunk" /\ g[N + 2].access = None
               /\ g[N + 2].native = p.native /\ g[N + 2].voice = None
  BY <1>2, <1>4, TrunkStates
<1>6. AreStatesOf(g, p) /\ LastOf(g, p) = g[N + 2]
  <2>1. Len(lines) = N + 2
    BY <1>4 DEF AreTrunkLines
  <2> QED
    BY <1>2, <1>3, <1>5, <2>1 DEF AreStatesOf, LastOf
<1>7. PICK end : end = LastOf(g, p)
  OBVIOUS
<1>8. Completed(end) = end
  BY <1>5, <1>6, <1>7 DEF Completed
<1>9. ParsePortChannelRunningConfig(p) = end
  BY <1>6, <1>7, <1>8, ParsedIsLast
<1> QED
  BY <1>5, <1>6, <1>7, <1>9 DEF Configured

(* Of another port it says the mode and an access VLAN, or nothing.        *)
LEMMA OtherConfigured ==
  ASSUME NEW p, IsPort(p), ~p.agg \/ p.mode # "trunk"
  PROVE  Configured(ParsePortChannelRunningConfig(p), p)
<1> DEFINE lines == RunningConfig(p)
<1>1. CASE ~p.agg
  <2> DEFINE g == [n \in 0 .. 0 |-> NoSwitchport]
  <2>1. lines = << >> /\ Len(lines) = 0
    BY <1>1 DEF RunningConfig
  <2>2. AreStates(g, lines) /\ g[Len(lines)] = NoSwitchport
    <3>1. \A n \in 0 .. 0 : n = 0
      OBVIOUS
    <3> QED
      BY <2>1, <3>1 DEF AreStates
  <2> HIDE DEF g, lines
  <2>3. PICK end : end = NoSwitchport
    OBVIOUS
  <2>4. end.admin = "" /\ end.access = None /\ end.voice = None /\ end.native = None
        /\ end.seen = FALSE
    BY <2>3 DEF NoSwitchport
  <2>5. ParsePortChannelRunningConfig(p) = end
    <3>1. AreStatesOf(g, p) /\ LastOf(g, p) = end
      BY <2>1, <2>2, <2>3 DEF AreStatesOf, LastOf, lines
    <3>2. Completed(end) = end
      BY <2>4 DEF Completed
    <3> QED
      BY <3>1, <3>2, ParsedIsLast
  <2> QED
    BY <1>1, <2>4, <2>5 DEF Configured
<1>2. CASE p.agg /\ p.mode = "routed"
  <2> DEFINE g == [n \in 0 .. 1 |-> IF n = 0 THEN NoSwitchport
                                    ELSE [NoSwitchport EXCEPT !.admin = "routed"]]
  <2>1. lines = << NoSwitchportLine >> /\ Len(lines) = 1
    BY <1>2 DEF RunningConfig, NoSwitchportLine
  <2>2. ConfigLine(NoSwitchport, lines[1]) = [NoSwitchport EXCEPT !.admin = "routed"]
    <3>1. lines[1] = NoSwitchportLine
      BY <2>1
    <3> HIDE DEF lines
    <3> QED
      BY <3>1, RoutedRead
  <2>3. AreStates(g, lines) /\ g[Len(lines)] = [NoSwitchport EXCEPT !.admin = "routed"]
    <3>1. \A n \in 0 .. 1 : n = 0 \/ (n = 1 /\ n - 1 = 0)
      OBVIOUS
    <3>2. g[0] = NoSwitchport /\ g[1] = [NoSwitchport EXCEPT !.admin = "routed"]
      OBVIOUS
    <3>3. g = [n \in 0 .. 1 |-> g[n]]
      OBVIOUS
    <3> HIDE DEF g, lines
    <3> QED
      BY <2>1, <2>2, <3>1, <3>2, <3>3 DEF AreStates
  <2> HIDE DEF g, lines
  <2>4. PICK end : end = [NoSwitchport EXCEPT !.admin = "routed"]
    OBVIOUS
  <2>5. end.admin = "routed" /\ end.access = None /\ end.voice = None /\ end.native = None
        /\ end.seen = FALSE
    BY <2>4 DEF NoSwitchport
  <2>6. ParsePortChannelRunningConfig(p) = end
    <3>1. AreStatesOf(g, p) /\ LastOf(g, p) = end
      BY <2>1, <2>3, <2>4 DEF AreStatesOf, LastOf, lines
    <3>2. Completed(end) = end
      BY <2>5 DEF Completed
    <3> QED
      BY <3>1, <3>2, ParsedIsLast
  <2> QED
    BY <1>2, <2>5, <2>6 DEF Configured
<1>3. CASE p.agg /\ p.mode = "access"
  <2> DEFINE one == [NoSwitchport EXCEPT !.access = p.access]
             two == [one EXCEPT !.admin = "access"]
             g == [n \in 0 .. 2 |-> IF n = 0 THEN NoSwitchport
                                    ELSE IF n = 1 THEN one ELSE two]
  <2>1. /\ lines = << Line("access", p.access), Line("mode", "access") >>
        /\ Len(lines) = 2
    BY <1>3 DEF RunningConfig, Line
  <2>2. ConfigLine(NoSwitchport, lines[1]) = one /\ ConfigLine(one, lines[2]) = two
    <3>1. lines[1] = Line("access", p.access) /\ lines[2] = Line("mode", "access")
      BY <2>1
    <3> HIDE DEF lines
    <3>2. ConfigLine(NoSwitchport, lines[1]) = one
      BY <3>1, AccessRead
    <3> HIDE DEF one
    <3>3. ConfigLine(one, lines[2]) = two
      BY <3>1, ModeRead
    <3> QED
      BY <3>2, <3>3
  <2>3. AreStates(g, lines) /\ g[Len(lines)] = two
    <3> HIDE DEF one, two
    <3>1. \A n \in 0 .. 2 : n = 0 \/ (n = 1 /\ n - 1 = 0) \/ (n = 2 /\ n - 1 = 1)
      OBVIOUS
    <3>2. g[0] = NoSwitchport /\ g[1] = one /\ g[2] = two
      OBVIOUS
    <3>3. g = [n \in 0 .. 2 |-> g[n]]
      OBVIOUS
    <3> HIDE DEF g, lines
    <3> QED
      BY <2>1, <2>2, <3>1, <3>2, <3>3 DEF AreStates
  <2> HIDE DEF g, lines
  <2>4. PICK end : end = two
    OBVIOUS
  <2>5. end.admin = "access" /\ end.access = p.access /\ end.voice = None
        /\ end.native = None /\ end.seen = FALSE
    BY <2>4 DEF NoSwitchport
  <2>6. p.access # None
    BY TopVidAssumption DEF IsPort, None
  <2>7. ParsePortChannelRunningConfig(p) = end
    <3>1. AreStatesOf(g, p) /\ LastOf(g, p) = end
      BY <2>1, <2>3, <2>4 DEF AreStatesOf, LastOf, lines
    <3>2. Completed(end) = end
      BY <2>5, <2>6 DEF Completed
    <3> QED
      BY <3>1, <3>2, ParsedIsLast
  <2> QED
    BY <1>3, <2>5, <2>7 DEF Configured
<1> QED
  BY <1>1, <1>2, <1>3 DEF IsPort

(* What the table of the switchports and the configuration give together.  *)
IsSwitchport(s, p) ==
    IF p.mode # "routed" /\ (p.listed \/ p.agg)
    THEN /\ s.admin = p.mode /\ s.access = p.access /\ s.voice = p.voice
         /\ s.native = p.native /\ s.seen = TRUE
         /\ s.all = AllowsAll(UNION Range(p.allowed))
         /\ s.vlans = ExpandVlanList(UNION Range(p.allowed))
         /\ s.nativeTagged = p.tagNative
    ELSE /\ s.admin = IF p.agg THEN "routed" ELSE ""
         /\ s.access = None /\ s.voice = None
         /\ s.seen = FALSE /\ s.nativeTagged = FALSE

(* The two never contradict each other.                                    *)
LEMMA SwitchportIs ==
  ASSUME NEW p, IsPort(p)
  PROVE  IsSwitchport(Switchport(p), p)
<1>1. PICK conf : conf = ParsePortChannelRunningConfig(p)
  OBVIOUS
<1>2. Configured(conf, p)
  BY <1>1, TrunkConfigured, OtherConfigured
<1>3. PICK live : live = ParseSwitchports(p)
  OBVIOUS
<1>4. PICK s : s = Switchport(p)
  OBVIOUS
<1>5. s = [ live EXCEPT
              !.admin  = IF conf.admin # "" THEN conf.admin ELSE live.admin,
              !.access = IF conf.access # None THEN conf.access ELSE live.access,
              !.voice = IF conf.voice # None THEN conf.voice ELSE live.voice,
              !.native = IF conf.native # None THEN conf.native ELSE live.native,
              !.seen   = live.seen \/ conf.seen,
              !.all    = IF ~live.seen /\ conf.seen THEN conf.all ELSE live.all,
              !.vlans  = IF ~live.seen /\ conf.seen THEN conf.vlans ELSE live.vlans ]
  BY <1>1, <1>3, <1>4 DEF Switchport
<1>6. /\ p.mode \in {"routed", "access", "trunk"}
      /\ p.access # None
  BY DEF IsPort, None
<1>7. CASE p.mode # "routed" /\ (p.listed \/ p.agg)
  <2>1. live = [ admin |-> p.mode, access |-> p.access, voice |-> p.voice,
                 native |-> p.native, seen |-> TRUE,
                 all |-> AllowsAll(UNION Range(p.allowed)),
                 vlans |-> ExpandVlanList(UNION Range(p.allowed)),
                 nativeTagged |-> p.tagNative ]
    BY <1>3, <1>7 DEF ParseSwitchports
  <2>2. /\ live.seen = TRUE /\ live.all = AllowsAll(UNION Range(p.allowed))
        /\ live.vlans = ExpandVlanList(UNION Range(p.allowed))
        /\ live.nativeTagged = p.tagNative
    BY <2>1
  <2>3. s.admin = p.mode /\ s.access = p.access /\ s.voice = p.voice
        /\ s.native = p.native
    BY <1>2, <1>5, <1>6, <2>1 DEF Configured
  <2>4. s.nativeTagged = p.tagNative
    BY <1>5, <2>1
  <2>5. s.seen = TRUE
    BY <1>5, <2>1
  <2>6. s.all = AllowsAll(UNION Range(p.allowed))
        /\ s.vlans = ExpandVlanList(UNION Range(p.allowed))
    BY <1>5, <2>1
  <2> QED
    BY <1>4, <1>7, <2>3, <2>4, <2>5, <2>6 DEF IsSwitchport
<1>8. CASE p.mode = "routed" \/ ~(p.listed \/ p.agg)
  <2>1. live = NoSwitchport
    BY <1>3, <1>8 DEF ParseSwitchports
  <2>2. /\ conf.access = None /\ conf.native = None /\ conf.voice = None
        /\ conf.seen = FALSE
    <3>1. ~(p.agg /\ p.mode = "trunk") /\ ~(p.agg /\ p.mode = "access")
      BY <1>8
    <3> QED
      BY <1>2, <3>1 DEF Configured
  <2>3. s.admin = IF p.agg THEN "routed" ELSE ""
    <3>1. s.admin = IF conf.admin # "" THEN conf.admin ELSE live.admin
      BY <1>5, <2>1 DEF NoSwitchport
    <3>2. live.admin = ""
      BY <2>1 DEF NoSwitchport
    <3>3. p.agg => p.mode = "routed"
      BY <1>8
    <3>4. CASE p.agg
      BY <1>2, <3>1, <3>3, <3>4 DEF Configured
    <3>5. CASE ~p.agg
      BY <1>2, <3>1, <3>2, <3>5 DEF Configured
    <3> QED
      BY <3>4, <3>5
  <2>4. s.access = None /\ s.voice = None
    <3>1. live.access = None /\ live.voice = None
      BY <2>1 DEF NoSwitchport
    <3>2. s.access = IF conf.access # None THEN conf.access ELSE live.access
      BY <1>5, <2>1 DEF NoSwitchport
    <3>3. s.voice = IF conf.voice # None THEN conf.voice ELSE live.voice
      BY <1>5, <2>1 DEF NoSwitchport
    <3> QED
      BY <2>2, <3>1, <3>2, <3>3
  <2>5. s.seen = FALSE
    BY <1>5, <2>1, <2>2 DEF NoSwitchport
  <2>6. s.nativeTagged = FALSE
    BY <1>5, <2>1, <2>2 DEF NoSwitchport
  <2> QED
    BY <1>4, <1>8, <2>3, <2>4, <2>5, <2>6 DEF IsSwitchport
<1> QED
  BY <1>7, <1>8

-----------------------------------------------------------------------------
(* The VLANs of a trunk, over all the rows of its list.                    *)
AllVlans(p) == UNION { ExpandVlanList(p.allowed[i]) : i \in DOMAIN p.allowed }

(* One line with every range gives what the rows give.                     *)
LEMMA RowsAddUp ==
  ASSUME NEW p
  PROVE  ExpandVlanList(UNION Range(p.allowed)) = AllVlans(p)
<1> DEFINE F(r) == IF r[1] <= r[2] THEN r[1] .. r[2] ELSE r[2] .. r[1]
<1>1. \A R : ExpandVlanList(R) = UNION { F(r) : r \in R }
  BY DEF ExpandVlanList
<1>2. Range(p.allowed) = { p.allowed[i] : i \in DOMAIN p.allowed }
  BY DEF Range
<1> HIDE DEF F
<1>3. PICK a, D : a = p.allowed /\ D = DOMAIN p.allowed
  OBVIOUS
<1>4. ASSUME NEW v PROVE v \in ExpandVlanList(UNION Range(p.allowed)) <=> v \in AllVlans(p)
  <2>1. v \in AllVlans(p) <=> \E i \in D : \E r \in a[i] : v \in F(r)
    BY <1>1, <1>3 DEF AllVlans
  <2>2. v \in ExpandVlanList(UNION Range(p.allowed)) <=>
          \E r \in UNION {a[i] : i \in D} : v \in F(r)
    BY <1>1, <1>2, <1>3
  <2> QED
    BY <2>1, <2>2
<1> QED
  BY <1>4

(* A list is the whole range exactly when it is printed so.                *)
LEMMA AllIsPrinted ==
  ASSUME NEW p, IsPort(p), p.mode = "trunk"
  PROVE  /\ (\E i \in DOMAIN p.allowed : AllowsAll(p.allowed[i])) <=> AllVlans(p) = 1 .. TopVid
         /\ AllowsAll(UNION Range(p.allowed)) <=> AllVlans(p) = 1 .. TopVid
<1>1. PICK a : a = p.allowed
  OBVIOUS
<1>2. TopVid \in Nat /\ 1 <= TopVid
  BY TopVidAssumption
<1>3. ExpandVlanList({<<1, TopVid>>}) = 1 .. TopVid
  BY <1>2 DEF ExpandVlanList
<1>4. \A i \in DOMAIN a : a[i] \in SUBSET ((1 .. TopVid) \X (1 .. TopVid))
  BY <1>1 DEF IsPort
<1>5. ASSUME NEW R \in SUBSET ((1 .. TopVid) \X (1 .. TopVid))
      PROVE  ExpandVlanList(R) \subseteq 1 .. TopVid
  <2>1. \A r \in R : r[1] \in 1 .. TopVid /\ r[2] \in 1 .. TopVid
    OBVIOUS
  <2>2. \A x, y \in 1 .. TopVid : x .. y \subseteq 1 .. TopVid
    BY <1>2
  <2> QED
    BY <2>1, <2>2 DEF ExpandVlanList
<1>6. AllVlans(p) \subseteq 1 .. TopVid
  BY <1>1, <1>4, <1>5 DEF AllVlans
<1>7. AllVlans(p) = 1 .. TopVid => a = << {<<1, TopVid>>} >>
  BY <1>1 DEF IsPort, AllVlans
<1>8. a = << {<<1, TopVid>>} >> =>
        /\ \E i \in DOMAIN a : AllowsAll(a[i])
        /\ AllowsAll(UNION Range(a))
  <2> SUFFICES ASSUME a = << {<<1, TopVid>>} >>
               PROVE  /\ \E i \in DOMAIN a : AllowsAll(a[i])
                      /\ AllowsAll(UNION Range(a))
    OBVIOUS
  <2>1. PICK R : R = {<<1, TopVid>>}
    OBVIOUS
  <2>2. a = <<R>> /\ AllowsAll(R)
    BY <2>1 DEF AllowsAll
  <2>3. DOMAIN a = {1} /\ a[1] = R
    BY <2>2
  <2>4. UNION Range(a) = R
    BY <2>3 DEF Range
  <2> QED
    BY <2>2, <2>3, <2>4
<1>9. ASSUME NEW i \in DOMAIN a, AllowsAll(a[i]) PROVE AllVlans(p) = 1 .. TopVid
  <2>1. ExpandVlanList(a[i]) = 1 .. TopVid
    BY <1>3, <1>9 DEF AllowsAll
  <2>2. ExpandVlanList(a[i]) \subseteq AllVlans(p)
    BY <1>1 DEF AllVlans
  <2> QED
    BY <1>6, <2>1, <2>2
<1>10. ASSUME AllowsAll(UNION Range(a)) PROVE AllVlans(p) = 1 .. TopVid
  BY <1>1, <1>3, <1>10, RowsAddUp DEF AllowsAll
<1> QED
  BY <1>1, <1>7, <1>8, <1>9, <1>10

-----------------------------------------------------------------------------
(* The state of a trunk that is told in full is what it carries.           *)
LEMMA TrunkIsCarried ==
  ASSUME NEW p, IsPort(p), ToldInFull(p), p.mode = "trunk", NEW o
  PROVE  BuildCollectedState(p, o) = Carried(p, o)
<1>1. PICK live : live = ParseTrunks(p)
  OBVIOUS
<1>2. PICK s : s = Switchport(p)
  OBVIOUS
<1>3. IsSwitchport(s, p)
  BY <1>2, SwitchportIs
<1>4. PICK V : V = AllVlans(p)
  OBVIOUS
<1>5. PICK whole : whole = (V = 1 .. TopVid)
  OBVIOUS
<1>6. /\ live.trunk = p.up \/ live.trunk = FALSE
      /\ live.trunk <=> p.up
      /\ live.native = p.native /\ live.vlans = V /\ (live.all <=> whole)
  BY <1>1, <1>4, <1>5, AllIsPrinted DEF ParseTrunks, AllVlans
<1>7. p.listed \/ p.agg =>
        /\ s.admin = "trunk" /\ s.native = p.native /\ s.seen = TRUE /\ s.vlans = V
        /\ (s.all <=> whole) /\ s.nativeTagged = p.tagNative
  BY <1>3, <1>4, <1>5, AllIsPrinted, RowsAddUp DEF IsSwitchport
<1>8. ~(p.listed \/ p.agg) => p.up /\ ~p.tagNative /\ s.nativeTagged = FALSE
  BY <1>3 DEF IsSwitchport, ToldInFull
<1>9. p.tagNative \in BOOLEAN
  BY DEF IsPort
<1>10. live.trunk \/ s.admin = "trunk"
  BY <1>6, <1>7, <1>8
<1>11. BuildCollectedState(p, o) = TrunkState(p, o)
  BY <1>1, <1>2, <1>10 DEF BuildCollectedState
<1>12. /\ live.trunk \/ s.seen = TRUE
       /\ s.nativeTagged <=> p.tagNative
       /\ (IF live.trunk THEN live.native ELSE s.native) = p.native
       /\ (IF live.trunk THEN live.vlans ELSE s.vlans) = V
       /\ (IF live.trunk THEN live.all ELSE s.all) <=> whole
  BY <1>6, <1>7, <1>8, <1>9
<1>13. TrunkState(p, o) =
         [ mode |-> IF whole THEN "tagged-all" ELSE "tagged",
           untagged |-> IF p.tagNative THEN None ELSE p.native,
           tagged |-> IF p.tagNative THEN (IF whole THEN {} ELSE V)
                      ELSE (IF whole THEN {} ELSE V) \ {p.native},
           voice |-> None ]
  BY <1>1, <1>2, <1>12 DEF TrunkState
<1>14. Carried(p, o) =
         [ mode |-> IF whole THEN "tagged-all" ELSE "tagged",
           untagged |-> IF p.tagNative THEN None ELSE p.native,
           tagged |-> IF whole THEN {}
                      ELSE V \ (IF p.tagNative THEN {} ELSE {p.native}),
           voice |-> None ]
  BY <1>4, <1>5 DEF Carried, AllVlans
<1>15. (IF p.tagNative THEN (IF whole THEN {} ELSE V)
        ELSE (IF whole THEN {} ELSE V) \ {p.native})
       = (IF whole THEN {} ELSE V \ (IF p.tagNative THEN {} ELSE {p.native}))
  OBVIOUS
<1> QED
  BY <1>11, <1>13, <1>14, <1>15

(* So is that of an access port, with its phone or without.                *)
LEMMA AccessIsCarried ==
  ASSUME NEW p, IsPort(p), ToldInFull(p), p.mode = "access",
         NEW o, o \in {"tagged", "access"} \X {"clear", "untagged"}
  PROVE  BuildCollectedState(p, o) = Carried(p, o)
<1>1. PICK s : s = Switchport(p)
  OBVIOUS
<1>2. IsSwitchport(s, p)
  BY <1>1, SwitchportIs
<1>3. ~ParseTrunks(p).trunk
  BY DEF ParseTrunks
<1>4. p.access # None /\ p.access \in Nat /\ p.voice \in Nat
  BY TopVidAssumption DEF IsPort, None
<1>5. o[2] \in {"clear", "untagged"}
  OBVIOUS
<1> DEFINE phone == o[1] = "tagged" /\ p.voice # None
           data == IF o[2] = "untagged" \/ (p.agg /\ p.voice = None)
                   THEN p.access ELSE None
           tagged == IF phone THEN {p.voice, p.access} \ {data} ELSE {}
<1>6. Carried(p, o) = [ mode |-> IF tagged = {} THEN "access" ELSE "tagged",
                        untagged |-> data, tagged |-> tagged, voice |-> p.voice ]
  <2>1. (p.voice # None /\ o[1] = "tagged") = phone
    OBVIOUS
  <2> QED
    BY <2>1 DEF Carried
<1>7. CASE p.listed \/ p.agg
  <2>1. s.admin = "access" /\ s.access = p.access /\ s.voice = p.voice
    BY <1>2, <1>7 DEF IsSwitchport
  <2>2. BuildCollectedState(p, o) = AccessState(p, o)
    BY <1>1, <1>3, <2>1 DEF BuildCollectedState
  <2> DEFINE mine == ((IF phone THEN {p.voice} ELSE {})
                      \cup (IF phone /\ o[2] = "clear" THEN {p.access} ELSE {}))
                     \ {data, None}
  <2>3. AccessState(p, o) = [ mode |-> IF mine = {} THEN "access" ELSE "tagged",
                              untagged |-> data, tagged |-> mine, voice |-> p.voice ]
    BY <1>1, <1>4, <2>1 DEF AccessState
  <2>4. mine = tagged
    BY <1>4, <1>5
  <2> HIDE DEF mine, tagged, data
  <2> QED
    BY <1>6, <2>2, <2>3, <2>4
<1>8. CASE ~(p.listed \/ p.agg)
  <2>1. p.voice = None /\ ~p.agg
    BY <1>8 DEF ToldInFull
  <2>2. s.admin = "" /\ s.access = None /\ s.voice = None
    BY <1>2, <1>8 DEF IsSwitchport
  <2>3. BuildCollectedState(p, o) = AccessState(p, o)
    BY <1>1, <1>3, <2>2 DEF BuildCollectedState
  <2>4. AccessState(p, o) = FromVlanBrief(p, o)
    BY <1>1, <2>2 DEF AccessState
  <2>5. VlanBrief(p) = {p.access}
    BY <1>4, <2>1 DEF VlanBrief
  <2>6. ParseVlanBrief(p) = p.access
    BY <1>4, <2>5 DEF ParseVlanBrief
  <2>7. FromVlanBrief(p, o) =
          [NoState EXCEPT !.mode = "access",
             !.untagged = IF o[2] = "untagged" THEN p.access ELSE None]
    BY <1>4, <2>6 DEF FromVlanBrief
  <2>8. tagged = {} /\ data = IF o[2] = "untagged" THEN p.access ELSE None
    BY <2>1
  <2> HIDE DEF tagged, data
  <2> QED
    BY <1>6, <2>1, <2>3, <2>4, <2>7, <2>8 DEF NoState
<1> QED
  BY <1>7, <1>8

(* A routed port has no VLANs to hold.                                     *)
LEMMA RoutedIsCarried ==
  ASSUME NEW p, IsPort(p), p.mode = "routed", NEW o
  PROVE  BuildCollectedState(p, o) = Carried(p, o)
<1>1. PICK s : s = Switchport(p)
  OBVIOUS
<1>2. IsSwitchport(s, p)
  BY <1>1, SwitchportIs
<1>3. s.admin # "trunk" /\ s.access = None /\ s.voice = None
  BY <1>2 DEF IsSwitchport
<1>4. ~ParseTrunks(p).trunk
  BY DEF ParseTrunks
<1>5. BuildCollectedState(p, o) = FromVlanBrief(p, o)
  BY <1>1, <1>3, <1>4 DEF BuildCollectedState, AccessState
<1>6. VlanBrief(p) = {}
  BY DEF VlanBrief
<1>7. FromVlanBrief(p, o) = NoState
  BY <1>6 DEF FromVlanBrief, ParseVlanBrief
<1> QED
  BY <1>5, <1>7 DEF Carried

(* The port and the options of the run are among those given.              *)
InputIs == IsPort(port) /\ policy \in {"tagged", "access"} \X {"clear", "untagged"}

(* They never change.                                                      *)
LEMMA InputFixed == Spec => []InputIs
<1>1. Init => InputIs
  BY InputsAssumption DEF Init, InputIs
<1>2. InputIs /\ [Next]_vars => InputIs'
  <2> SUFFICES ASSUME InputIs, [Next]_vars PROVE InputIs'
    OBVIOUS
  <2>1. UNCHANGED <<port, policy>>
    <3>1. CASE StartRun \/ Collect \/ LoadScope \/ CompareVlans \/ CompareMetadata \/ Return
      BY <3>1 DEF StartRun, Collect, LoadScope, CompareVlans, CompareMetadata, Return, Fixed
    <3>2. ASSUME NEW pass \in {"vlan", "meta"},
                 Update(pass) \/ UpdateFails(pass) \/ ReadBack(pass)
          PROVE  UNCHANGED <<port, policy>>
      BY <3>2 DEF Update, UpdateFails, ReadBack, Fixed
    <3>3. CASE SomebodyEdits
      BY <3>3 DEF SomebodyEdits, Fixed
    <3>4. CASE UNCHANGED vars
      BY <3>4 DEF vars
    <3> QED
      BY <3>1, <3>2, <3>3, <3>4 DEF Next
  <2> QED
    BY <2>1 DEF InputIs
<1> QED
  BY <1>1, <1>2, PTL DEF Spec

(* However the outputs of a switch overlap, are wrapped or leave the port  *)
(* out, what a run collects of a port that they tell in full is what the   *)
(* port carries.                                                           *)
THEOREM CollectedCarried == Spec => []CollectedIsCarried
<1>1. IInv /\ InputIs => CollectedIsCarried
  <2> SUFFICES ASSUME IInv, InputIs, pc \notin {"idle", "collect"}, ToldInFull(port)
               PROVE  found = Carried(port, policy)
    BY DEF CollectedIsCarried
  <2>1. found = BuildCollectedState(port, policy)
    BY DEF IInv, Typed
  <2>2. PICK p, o : p = port /\ o = policy
    OBVIOUS
  <2>3. IsPort(p) /\ ToldInFull(p) /\ o \in {"tagged", "access"} \X {"clear", "untagged"}
    BY <2>2 DEF InputIs
  <2>4. p.mode \in {"routed", "access", "trunk"}
    BY <2>3 DEF IsPort
  <2>5. BuildCollectedState(p, o) = Carried(p, o)
    BY <2>3, <2>4, TrunkIsCarried, AccessIsCarried, RoutedIsCarried
  <2> QED
    BY <2>1, <2>2, <2>5
<1> QED
  BY <1>1, Invariance, InputFixed, PTL
=============================================================================
