------------------------- MODULE WirelessSyncProofs -------------------------
(***************************************************************************)
(* Theorems about WirelessSync, for whatever is reported and recorded and  *)
(* however many runs and failures: a primary IP is on an interface of its  *)
(* own device, a run that was cut short is taken up by the next (but for a *)
(* device that got one of its two ports only), no port is ever taken off   *)
(* its bridge, a green run leaves in NetBox what was reported (but for     *)
(* radios left out with a note, and the address of a WLC it did not make), *)
(* and an apply that nothing disturbs ends as the plan before it said it   *)
(* would, if the cables come to the same in both.                          *)
(***************************************************************************)
EXTENDS WirelessSync, FiniteSetTheorems, SequenceTheorems, TLAPS

(* What a write needs to be there, what it must be the first to make, and  *)
(* what it gives: interfaces, a bond that is in its bridge, addresses that *)
(* are the device's own.                                                   *)
BondIn == <<"bond", "br0">>
If(names) == {<<"interface", n>> : n \in names}
Needs(w) ==
  CASE w.op = "interface" -> If({w.lag, w.bridge} \ {NoName})
    [] w.op = "link" -> If({w.on, w.lag, w.bridge} \ {NoName})
                        \cup (IF w.bridge = "br0" THEN {} ELSE {BondIn})
    [] w.op = "primary" -> {<<"address", w.on>>}
    [] OTHER -> {}
Fresh(w) == IF w.op = "interface" THEN If({w.on}) ELSE {}
Gives(w) ==
  CASE w.op = "interface" -> If({w.on}) \cup (IF w.on = "bond0" THEN {BondIn} ELSE {})
    [] w.op = "link" -> IF w.on = "bond0" THEN {BondIn} ELSE {}
    [] w.op \in {"address", "assign"} -> {<<"address", w.on>>}
    [] OTHER -> {}

(* The writes of a sequence find what they need: it was there, or an       *)
(* earlier one gives it.                                                   *)
Given(q, k) == UNION {Gives(q[j]) : j \in 1 .. (k - 1)}
Ready(q, held) ==
  \A k \in DOMAIN q : /\ Needs(q[k]) \subseteq held \cup Given(q, k)
                      /\ Fresh(q[k]) \cap (held \cup Given(q, k)) = {}

Own(ip) == addresses[ip] \notin Places /\ addresses[ip][1] = device
BondIsIn == Has("bond0") /\ This.ifs["bond0"].bridge = "br0"
Held == If(DOMAIN This.ifs) \cup (IF BondIsIn THEN {BondIn} ELSE {})
        \cup {<<"address", ip>> : ip \in {a \in DOMAIN addresses : Own(a)}}

(* A write of its kind: a port goes into the bridge or the bond, the bond  *)
(* into the bridge, and an address to one that may have it.                *)
Proper(w) ==
  /\ w.op = "link" =>
       \/ w.on \in Ports /\ w.bridge = "br0"
       \/ w.on \in Ports /\ w.bridge = NoName /\ w.lag = "bond0"
       \/ w.on = "bond0" /\ w.bridge = "br0" /\ w.lag = NoName
  /\ w.op = "interface" /\ w.on = "bond0" => w.bridge = "br0"
  /\ w.op \in {"interface", "link", "address", "assign", "primary"} => w.after = "chain"
  /\ w.op \in {"address", "assign"} =>
       /\ w.on \in DOMAIN addresses
       /\ addresses[w.on] \in Places \/ Own(w.on)

Ops == [start |-> {}, tag |-> {}, lans |-> {"tag"}, device |-> {"lan"},
        identity |-> {"device"}, bridge |-> {"field", "serial"},
        ip |-> {"field", "serial", "interface", "link"},
        radio |-> {"interface", "address", "assign", "primary"}, next |-> {"radio"}]

(* The queue holds the writes of one stage, in an order that works out.    *)
Queued ==
  /\ queue \in Seq(Range(queue))
  /\ \A k \in DOMAIN queue : queue[k].op \in Ops[stage] /\ Proper(queue[k])
  /\ stage # "start" => apply \/ queue = <<>>
  /\ Ready(queue, Held)

(* Where a run is, and on which device.                                    *)
OnDevice == {"identity", "bridge", "ip", "radio"}
Located ==
  /\ report \in Reports /\ stage \in DOMAIN Ops
  /\ at \in Nat \ {0}
  /\ ended \in Seq({"ok", "drift", "changed", "partial", "error"})
  /\ stage # "start" =>
       \A i \in DOMAIN report :
         /\ matches[i].action \in {"update", "create", "blocked"}
         /\ matches[i].action = "update" => matches[i].id \in DOMAIN devices
         /\ matches[i].action # "update" => matches[i].id = Preview
  /\ device \in {Preview} \cup DOMAIN devices
  /\ stage \in OnDevice /\ apply /\ device = Preview =>
       stage = "identity" /\ queue = <<Set("device", NoName)>>
  /\ stage = "identity" /\ queue # <<>> => queue = <<Set("device", NoName)>>
  /\ stage \in OnDevice => at \in DOMAIN report

(* What NetBox keeps of its own accord.                                    *)
Recorded ==
  /\ devices \in Seq(Range(devices))
  /\ \A i \in DOMAIN devices :
       /\ DOMAIN devices[i] = {"name", "serial", "wrong", "primary", "ifs"}
       /\ devices[i].primary \in DOMAIN addresses \cup {NoIp}
       /\ \A n \in DOMAIN devices[i].ifs :
            {devices[i].ifs[n].lag, devices[i].ifs[n].bridge} \ {NoName} \subseteq DOMAIN devices[i].ifs
  /\ \A d \in Range(report) : d.ip \in DOMAIN addresses \cup {NoIp}

(* What has gone wrong in this run, or is not for it to settle.            *)
Halfway == \E j \in DOMAIN report : matches[j].action = "update" /\ matches[j].id \in stunted
Stunting ==
  /\ stunted \subseteq DOMAIN devices
  /\ stage \in OnDevice /\ device \in stunted =>
       faulty \/ (matches[at].action = "update" /\ matches[at].id = device)
Excused ==
  stage # "start" =>
    /\ failed \/ issues => faulty \/ blocked \/ Halfway
    /\ unread \/ silent # {} \/ noLans # {} => faulty
    /\ stage \in OnDevice /\ noBridge => faulty

IInv == /\ Located /\ Recorded /\ Queued /\ Stunting /\ Excused
        /\ PrimaryIsOwn /\ ResumesAlone

-----------------------------------------------------------------------------
(* Sequences.                                                              *)
IsSeq(s) == s \in Seq(Range(s))

(* A sequence is a function on the numbers from 1 to its length.           *)
LEMMA SeqIs ==
  ASSUME NEW s
  PROVE  IsSeq(s) <=> Len(s) \in Nat /\ s = [i \in 1 .. Len(s) |-> s[i]]
<1>1. ASSUME IsSeq(s) PROVE Len(s) \in Nat /\ s = [i \in 1 .. Len(s) |-> s[i]]
  BY <1>1 DEF IsSeq
<1>2. ASSUME Len(s) \in Nat, s = [i \in 1 .. Len(s) |-> s[i]] PROVE IsSeq(s)
  <2>1. s \in [1 .. Len(s) -> Range(s)]
    BY <1>2 DEF Range
  <2> QED
    BY <1>2, <2>1 DEF IsSeq
<1> QED
  BY <1>1, <1>2

(* A sequence over some set is one over what occurs in it.                 *)
LEMMA InSeq ==
  ASSUME NEW W, NEW s \in Seq(W)
  PROVE  IsSeq(s)
<1>1. Len(s) \in Nat /\ s = [i \in 1 .. Len(s) |-> s[i]]
  OBVIOUS
<1> QED
  BY <1>1, SeqIs

(* The members of two sequences put together, one by one.                  *)
LEMMA Joined ==
  ASSUME NEW s, NEW t, IsSeq(s), IsSeq(t)
  PROVE  /\ IsSeq(s \o t) /\ Len(s) \in Nat /\ Len(t) \in Nat
         /\ DOMAIN s = 1 .. Len(s) /\ DOMAIN t = 1 .. Len(t)
         /\ DOMAIN (s \o t) = 1 .. (Len(s) + Len(t))
         /\ \A i \in 1 .. Len(s) : (s \o t)[i] = s[i]
         /\ \A i \in 1 .. Len(t) : (s \o t)[Len(s) + i] = t[i]
<1> DEFINE W == Range(s) \cup Range(t)
<1>1. s \in Seq(W) /\ t \in Seq(W)
  BY DEF IsSeq
<1> HIDE DEF W
<1>2. s \o t \in Seq(W)
  BY <1>1
<1>3. IsSeq(s \o t)
  BY <1>2, InSeq
<1> QED
  BY <1>1, <1>2, <1>3

(* Head and tail of a sequence, one by one.                                *)
LEMMA Rest ==
  ASSUME NEW s, IsSeq(s), s # <<>>
  PROVE  /\ IsSeq(Tail(s)) /\ Len(s) \in Nat /\ DOMAIN s = 1 .. Len(s) /\ Len(s) # 0
         /\ Head(s) = s[1] /\ 1 \in DOMAIN s
         /\ DOMAIN Tail(s) = 1 .. (Len(s) - 1)
         /\ \A i \in 1 .. (Len(s) - 1) : Tail(s)[i] = s[i + 1]
<1>1. s \in Seq(Range(s))
  BY DEF IsSeq
<1>2. Tail(s) \in Seq(Range(s))
  BY <1>1
<1>3. IsSeq(Tail(s))
  BY <1>2, InSeq
<1>4. Len(s) # 0
  BY <1>1
<1> QED
  BY <1>1, <1>2, <1>3, <1>4

(* The sequence of no writes.                                              *)
LEMMA Empty == IsSeq(<<>>) /\ DOMAIN <<>> = {} /\ Len(<<>>) = 0
<1>1. DOMAIN <<>> = {} /\ Len(<<>>) = 0
  OBVIOUS
<1>2. IsSeq(<<>>)
  BY DEF IsSeq
<1> QED
  BY <1>1, <1>2

(* The sequence of one write.                                              *)
LEMMA Single ==
  ASSUME NEW a
  PROVE  /\ IsSeq(<<a>>) /\ DOMAIN <<a>> = {1} /\ <<a>>[1] = a /\ Len(<<a>>) = 1
         /\ Tail(<<a>>) = <<>>
<1>1. DOMAIN <<a>> = {1} /\ <<a>>[1] = a /\ Len(<<a>>) = 1
  OBVIOUS
<1>2. Tail(<<a>>) = <<>>
  OBVIOUS
<1>3. a \in Range(<<a>>)
  BY <1>1 DEF Range
<1>4. IsSeq(<<a>>)
  BY <1>3 DEF IsSeq
<1> QED
  BY <1>1, <1>2, <1>4

(* Order lists each port of a set once.                                    *)
LEMMA OrderIs ==
  ASSUME NEW P
  PROVE  /\ IsSeq(Order(P))
         /\ \A k \in DOMAIN Order(P) : Order(P)[k] \in P \cap Ports
         /\ \A p \in P \cap Ports : \E k \in DOMAIN Order(P) : Order(P)[k] = p
         /\ \A j, k \in DOMAIN Order(P) : j # k => Order(P)[j] # Order(P)[k]
<1> DEFINE s == When("e0" \in P, "e0")
           t == When("e1" \in P, "e1")
           q == Order(P)
<1>1. /\ IsSeq(s) /\ IsSeq(t)
      /\ "e0" \in P => Len(s) = 1 /\ s[1] = "e0"
      /\ "e0" \notin P => Len(s) = 0
      /\ "e1" \in P => Len(t) = 1 /\ t[1] = "e1"
      /\ "e1" \notin P => Len(t) = 0
  <2>1. /\ "e0" \in P => s = <<"e0">>
        /\ "e0" \notin P => s = <<>>
        /\ "e1" \in P => t = <<"e1">>
        /\ "e1" \notin P => t = <<>>
    BY DEF When
  <2> HIDE DEF s, t
  <2> QED
    BY <2>1, Single, Empty
<1>2. /\ IsSeq(q) /\ DOMAIN q = 1 .. (Len(s) + Len(t))
      /\ \A i \in 1 .. Len(s) : q[i] = s[i]
      /\ \A i \in 1 .. Len(t) : q[Len(s) + i] = t[i]
  BY <1>1, Joined DEF Order
<1> HIDE DEF s, t, q
<1>3. CASE "e0" \in P /\ "e1" \in P
  <2>0. Len(s) = 1 /\ s[1] = "e0" /\ Len(t) = 1 /\ t[1] = "e1"
    BY <1>1, <1>3
  <2>1. 1 \in 1 .. Len(s) /\ 1 \in 1 .. Len(t) /\ Len(s) + 1 = 2 /\ Len(s) + Len(t) = 2
    BY <2>0
  <2>2. DOMAIN q = {1, 2}
    BY <1>2, <2>1
  <2>3. q[1] = "e0" /\ q[2] = "e1"
    BY <1>2, <2>0, <2>1
  <2> QED
    BY <1>2, <1>3, <2>2, <2>3 DEF Ports, q
<1>4. CASE "e0" \in P /\ "e1" \notin P
  <2>0. Len(s) = 1 /\ s[1] = "e0" /\ Len(t) = 0
    BY <1>1, <1>4
  <2>1. 1 \in 1 .. Len(s) /\ Len(s) + Len(t) = 1
    BY <2>0
  <2>2. DOMAIN q = {1} /\ q[1] = "e0"
    BY <1>2, <2>0, <2>1
  <2> QED
    BY <1>2, <1>4, <2>2 DEF Ports, q
<1>5. CASE "e0" \notin P /\ "e1" \in P
  <2>0. Len(s) = 0 /\ Len(t) = 1 /\ t[1] = "e1"
    BY <1>1, <1>5
  <2>1. 1 \in 1 .. Len(t) /\ Len(s) + 1 = 1 /\ Len(s) + Len(t) = 1
    BY <2>0
  <2>2. DOMAIN q = {1} /\ q[1] = "e1"
    BY <1>2, <2>0, <2>1
  <2> QED
    BY <1>2, <1>5, <2>2 DEF Ports, q
<1>6. CASE "e0" \notin P /\ "e1" \notin P
  <2>1. DOMAIN q = {}
    BY <1>1, <1>2, <1>6
  <2> QED
    BY <1>2, <1>6, <2>1 DEF Ports, q
<1> QED
  BY <1>3, <1>4, <1>5, <1>6

-----------------------------------------------------------------------------
(* Sequences of writes.                                                    *)
LEMMA ReadyJoined ==
  ASSUME NEW s, NEW t, IsSeq(s), IsSeq(t), NEW held,
         Ready(s, held), Ready(t, held \cup Given(s, Len(s) + 1))
  PROVE  Ready(s \o t, held) /\ IsSeq(s \o t)
<1> DEFINE q == s \o t
<1>1. /\ IsSeq(q) /\ Len(s) \in Nat /\ Len(t) \in Nat
      /\ DOMAIN s = 1 .. Len(s) /\ DOMAIN t = 1 .. Len(t)
      /\ DOMAIN q = 1 .. (Len(s) + Len(t))
      /\ \A i \in 1 .. Len(s) : q[i] = s[i]
      /\ \A i \in 1 .. Len(t) : q[Len(s) + i] = t[i]
  BY Joined
<1> HIDE DEF q
<1>2. ASSUME NEW k \in DOMAIN q
      PROVE  /\ Needs(q[k]) \subseteq held \cup Given(q, k)
             /\ Fresh(q[k]) \cap (held \cup Given(q, k)) = {}
  <2>1. CASE k <= Len(s)
    <3>1. k \in DOMAIN s /\ q[k] = s[k] /\ \A j \in 1 .. (k - 1) : q[j] = s[j]
      BY <1>1, <2>1
    <3>2. Given(q, k) = Given(s, k)
      BY <3>1 DEF Given
    <3> QED
      BY <3>1, <3>2 DEF Ready
  <2>2. CASE k > Len(s)
    <3> DEFINE m == k - Len(s)
    <3>1. m \in DOMAIN t /\ k = Len(s) + m
      BY <1>1, <2>2
    <3>2. q[k] = t[m]
      BY <1>1, <3>1
    <3>3. \A j \in 1 .. Len(s) : j \in 1 .. (k - 1) /\ q[j] = s[j]
      BY <1>1, <2>2
    <3>4. \A j \in 1 .. (m - 1) : Len(s) + j \in 1 .. (k - 1) /\ q[Len(s) + j] = t[j]
      BY <1>1, <3>1
    <3>5. \A j \in 1 .. (k - 1) : j \in 1 .. Len(s) \/ \E i \in 1 .. (m - 1) : j = Len(s) + i
      <4> SUFFICES ASSUME NEW j \in 1 .. (k - 1), j \notin 1 .. Len(s)
                   PROVE  \E i \in 1 .. (m - 1) : j = Len(s) + i
        OBVIOUS
      <4>1. j - Len(s) \in 1 .. (m - 1) /\ j = Len(s) + (j - Len(s))
        BY <1>1, <3>1
      <4> QED
        BY <4>1
    <3> HIDE DEF m
    <3>6. 1 .. (Len(s) + 1 - 1) = 1 .. Len(s)
      BY <1>1
    <3>7. Given(q, k) = Given(s, Len(s) + 1) \cup Given(t, m)
      <4>1. Given(q, k) \subseteq Given(s, Len(s) + 1) \cup Given(t, m)
        <5> SUFFICES ASSUME NEW j \in 1 .. (k - 1), NEW x \in Gives(q[j])
                     PROVE  x \in Given(s, Len(s) + 1) \cup Given(t, m)
          BY DEF Given
        <5>1. CASE j \in 1 .. Len(s)
          <6>1. x \in Gives(s[j])
            BY <3>3, <5>1
          <6>2. x \in Given(s, Len(s) + 1)
            BY <3>6, <5>1, <6>1 DEF Given
          <6> QED
            BY <6>2
        <5>2. CASE \E i \in 1 .. (m - 1) : j = Len(s) + i
          <6>1. PICK i \in 1 .. (m - 1) : x \in Gives(t[i])
            BY <3>4, <5>2
          <6>2. x \in Given(t, m)
            BY <6>1 DEF Given
          <6> QED
            BY <6>2
        <5> QED
          BY <3>5, <5>1, <5>2
      <4>2. Given(s, Len(s) + 1) \subseteq Given(q, k)
        BY <3>3, <3>6 DEF Given
      <4>3. Given(t, m) \subseteq Given(q, k)
        BY <3>4 DEF Given
      <4> QED
        BY <4>1, <4>2, <4>3
    <3> QED
      BY <3>1, <3>2, <3>7 DEF Ready
  <2> QED
    BY <1>1, <2>1, <2>2
<1> QED
  BY <1>1, <1>2 DEF Ready, q

(* When the head of a ready queue is carried out, the rest is ready.       *)
LEMMA ReadyTail ==
  ASSUME NEW q, IsSeq(q), q # <<>>, NEW held, Ready(q, held)
  PROVE  /\ Needs(Head(q)) \subseteq held /\ Fresh(Head(q)) \cap held = {}
         /\ Ready(Tail(q), held \cup Gives(Head(q)))
<1> DEFINE t == Tail(q)
<1>1. /\ Len(q) \in Nat /\ DOMAIN q = 1 .. Len(q) /\ Head(q) = q[1] /\ 1 \in DOMAIN q
      /\ DOMAIN t = 1 .. (Len(q) - 1)
      /\ \A i \in 1 .. (Len(q) - 1) : t[i] = q[i + 1]
  BY Rest
<1> HIDE DEF t
<1>2. Given(q, 1) = {}
  BY DEF Given
<1>3. ASSUME NEW k \in DOMAIN t
      PROVE  /\ Needs(t[k]) \subseteq held \cup Gives(Head(q)) \cup Given(t, k)
             /\ Fresh(t[k]) \cap (held \cup Gives(Head(q)) \cup Given(t, k)) = {}
  <2>1. k \in Nat /\ k + 1 \in DOMAIN q /\ t[k] = q[k + 1] /\ (k + 1) - 1 = k
    BY <1>1
  <2>2. \A j \in 1 .. (k - 1) : j + 1 \in 1 .. k /\ t[j] = q[j + 1]
    BY <1>1, <2>1
  <2>3. \A j \in 1 .. k : j = 1 \/ \E i \in 1 .. (k - 1) : j = i + 1
    <3> SUFFICES ASSUME NEW j \in 1 .. k, j # 1 PROVE \E i \in 1 .. (k - 1) : j = i + 1
      OBVIOUS
    <3>1. j - 1 \in 1 .. (k - 1) /\ j = (j - 1) + 1
      BY <2>1
    <3> QED
      BY <3>1
  <2>4. 1 \in 1 .. k
    BY <1>1
  <2>5. Given(q, k + 1) = Gives(Head(q)) \cup Given(t, k)
    <3>1. Given(q, k + 1) \subseteq Gives(Head(q)) \cup Given(t, k)
      BY <1>1, <2>1, <2>2, <2>3 DEF Given
    <3>2. Gives(Head(q)) \subseteq Given(q, k + 1)
      BY <1>1, <2>1, <2>4 DEF Given
    <3>3. Given(t, k) \subseteq Given(q, k + 1)
      BY <2>1, <2>2 DEF Given
    <3> QED
      BY <3>1, <3>2, <3>3
  <2> QED
    BY <2>1, <2>5 DEF Ready
<1>4. Needs(Head(q)) \subseteq held /\ Fresh(Head(q)) \cap held = {}
  BY <1>1, <1>2 DEF Ready
<1> QED
  BY <1>3, <1>4 DEF Ready, t

(* All that a sequence gives.                                              *)
Whole(q) == UNION {Gives(q[k]) : k \in DOMAIN q}

(* What is given before the end of a sequence is what all of it gives.     *)
LEMMA WholeIs ==
  ASSUME NEW q, IsSeq(q)
  PROVE  Given(q, Len(q) + 1) = Whole(q)
<1>1. Len(q) \in Nat /\ DOMAIN q = 1 .. Len(q)
  BY Joined
<1>2. (Len(q) + 1) - 1 = Len(q)
  BY <1>1
<1> QED
  BY <1>1, <1>2 DEF Given, Whole

(* Two sequences together give what either gives.                          *)
LEMMA WholeJoined ==
  ASSUME NEW s, NEW t, IsSeq(s), IsSeq(t)
  PROVE  Whole(s \o t) = Whole(s) \cup Whole(t)
<1> DEFINE q == s \o t
<1>1. /\ Len(s) \in Nat /\ Len(t) \in Nat
      /\ DOMAIN s = 1 .. Len(s) /\ DOMAIN t = 1 .. Len(t)
      /\ DOMAIN q = 1 .. (Len(s) + Len(t))
      /\ \A i \in 1 .. Len(s) : q[i] = s[i]
      /\ \A i \in 1 .. Len(t) : q[Len(s) + i] = t[i]
  BY Joined
<1> HIDE DEF q
<1>2. \A i \in DOMAIN s : i \in DOMAIN q /\ q[i] = s[i]
  BY <1>1
<1>3. \A i \in DOMAIN t : Len(s) + i \in DOMAIN q /\ q[Len(s) + i] = t[i]
  BY <1>1
<1>4. ASSUME NEW k \in DOMAIN q
      PROVE  (\E i \in DOMAIN s : q[k] = s[i]) \/ (\E i \in DOMAIN t : q[k] = t[i])
  <2>1. CASE k <= Len(s)
    BY <1>1, <2>1
  <2>2. CASE k > Len(s)
    <3>1. k - Len(s) \in DOMAIN t /\ k = Len(s) + (k - Len(s))
      BY <1>1, <2>2
    <3> QED
      BY <1>1, <3>1
  <2> QED
    BY <1>1, <2>1, <2>2
<1>5. Whole(q) \subseteq Whole(s) \cup Whole(t)
  BY <1>4 DEF Whole
<1>6. Whole(s) \subseteq Whole(q)
  BY <1>2 DEF Whole
<1>7. Whole(t) \subseteq Whole(q)
  BY <1>3 DEF Whole
<1> QED
  BY <1>5, <1>6, <1>7 DEF q

(* The writes of a stage, to be made where "held" is there.                *)
Fits(q, held, ops) ==
  /\ IsSeq(q)
  /\ Ready(q, held)
  /\ \A k \in DOMAIN q : q[k].op \in ops /\ Proper(q[k])

(* A stage may be planned in parts, each upon what the parts before it     *)
(* give.                                                                   *)
LEMMA FitsJoined ==
  ASSUME NEW held, NEW ops, NEW s, NEW t, Fits(s, held, ops), Fits(t, held \cup Whole(s), ops)
  PROVE  Fits(s \o t, held, ops) /\ Whole(s \o t) = Whole(s) \cup Whole(t)
<1> DEFINE q == s \o t
<1>1. IsSeq(s) /\ IsSeq(t) /\ Ready(s, held) /\ Ready(t, held \cup Given(s, Len(s) + 1))
  BY WholeIs DEF Fits
<1>2. Ready(q, held) /\ IsSeq(q)
  BY <1>1, ReadyJoined
<1>3. /\ Len(s) \in Nat /\ Len(t) \in Nat
      /\ DOMAIN s = 1 .. Len(s) /\ DOMAIN t = 1 .. Len(t)
      /\ DOMAIN q = 1 .. (Len(s) + Len(t))
      /\ \A i \in 1 .. Len(s) : q[i] = s[i]
      /\ \A i \in 1 .. Len(t) : q[Len(s) + i] = t[i]
  BY <1>1, Joined
<1>4. Whole(q) = Whole(s) \cup Whole(t)
  BY <1>1, WholeJoined
<1> HIDE DEF q
<1>5. ASSUME NEW k \in DOMAIN q PROVE q[k].op \in ops /\ Proper(q[k])
  <2>1. CASE k <= Len(s)
    <3>1. k \in DOMAIN s /\ q[k] = s[k]
      BY <1>3, <2>1
    <3> QED
      BY <3>1 DEF Fits
  <2>2. CASE k > Len(s)
    <3>1. k - Len(s) \in DOMAIN t /\ k = Len(s) + (k - Len(s))
      BY <1>3, <2>2
    <3>2. q[k] = t[k - Len(s)]
      BY <1>3, <3>1
    <3> QED
      BY <3>1, <3>2 DEF Fits
  <2> QED
    BY <1>3, <2>1, <2>2
<1>6. Fits(q, held, ops)
  BY <1>2, <1>5 DEF Fits
<1> QED
  BY <1>4, <1>6 DEF q

(* A stage with nothing to write fits.                                     *)
LEMMA FitsNone ==
  ASSUME NEW held, NEW ops
  PROVE  Fits(<<>>, held, ops) /\ Whole(<<>>) = {}
BY Empty DEF Fits, Ready, Whole

(* One write fits when it finds what it needs.                             *)
LEMMA FitsOne ==
  ASSUME NEW held, NEW ops, NEW w, w.op \in ops, Proper(w),
         Needs(w) \subseteq held, Fresh(w) \cap held = {}
  PROVE  Fits(<<w>>, held, ops) /\ Whole(<<w>>) = Gives(w)
<1> DEFINE q == <<w>>
<1>1. IsSeq(q) /\ DOMAIN q = {1} /\ q[1] = w
  BY Single
<1> HIDE DEF q
<1>2. Given(q, 1) = {}
  BY DEF Given
<1>3. Ready(q, held)
  BY <1>1, <1>2 DEF Ready
<1>4. Fits(q, held, ops)
  BY <1>1, <1>3 DEF Fits
<1>5. Whole(q) = Gives(w)
  BY <1>1 DEF Whole
<1> QED
  BY <1>4, <1>5 DEF q

(* One write for each name of a sequence, none of them in the way of       *)
(* another.                                                                *)
LEMMA FitsMany ==
  ASSUME NEW held, NEW ops, NEW q, IsSeq(q),
         \A k \in DOMAIN q : /\ q[k].op \in ops /\ Proper(q[k])
                             /\ Needs(q[k]) \subseteq held /\ Fresh(q[k]) \cap held = {}
                             /\ \A j \in DOMAIN q : j # k => Fresh(q[k]) \cap Gives(q[j]) = {}
  PROVE  Fits(q, held, ops)
<1>1. Len(q) \in Nat /\ DOMAIN q = 1 .. Len(q)
  BY Joined
<1>2. ASSUME NEW k \in DOMAIN q, NEW j \in 1 .. (k - 1) PROVE j \in DOMAIN q /\ j # k
  BY <1>1, <1>2
<1>3. \A k \in DOMAIN q : Fresh(q[k]) \cap Given(q, k) = {}
  BY <1>2 DEF Given
<1>4. Ready(q, held)
  BY <1>3 DEF Ready
<1> QED
  BY <1>4 DEF Fits

-----------------------------------------------------------------------------
(* The writes of each stage fit.                                           *)
LEMMA Mapped ==
  ASSUME NEW n, IsSeq(n), NEW q, q = [i \in DOMAIN n |-> q[i]]
  PROVE  IsSeq(q) /\ DOMAIN q = DOMAIN n
<1>1. Len(n) \in Nat /\ DOMAIN n = 1 .. Len(n)
  BY Joined
<1>2. q \in [1 .. Len(n) -> Range(q)]
  BY <1>1 DEF Range
<1>3. q \in Seq(Range(q))
  BY <1>1, <1>2
<1> QED
  BY <1>3 DEF IsSeq

(* The names of bridge and bond are no port's.                             *)
LEMMA PortNames == Ports = {"e0", "e1"} /\ "br0" \notin Ports /\ "bond0" \notin Ports /\ "none" \notin Ports
BY DEF Ports

(* A field, a tag, a device: a write that needs nothing and gives nothing. *)
LEMMA SetFits ==
  ASSUME NEW op \in {"tag", "lan", "device", "field", "serial", "radio"}, NEW on
  PROVE  LET w == Set(op, on) IN
         w.op = op /\ Proper(w) /\ Needs(w) = {} /\ Fresh(w) = {} /\ Gives(w) = {}
BY DEF Set, Write, Proper, Needs, Fresh, Gives

(* A write of a field or a tag needs nothing and gives nothing.            *)
LEMMA WhenSetFits ==
  ASSUME NEW op \in {"tag", "lan", "device", "field", "serial", "radio"}, NEW on,
         NEW held, NEW ops, op \in ops,
         NEW q, q = <<>> \/ q = <<Set(op, on)>>
  PROVE  Fits(q, held, ops) /\ Whole(q) = {}
<1> DEFINE w == Set(op, on)
<1>1. w.op = op /\ Proper(w) /\ Needs(w) = {} /\ Fresh(w) = {} /\ Gives(w) = {}
  BY SetFits
<1> HIDE DEF w
<1>2. Fits(<<w>>, held, ops) /\ Whole(<<w>>) = {}
  BY <1>1, FitsOne
<1> QED
  BY <1>2, FitsNone DEF w

(* The writes of the identity step fit.                                    *)
LEMMA IdentityFits ==
  ASSUME NEW held
  PROVE  Fits(IdentityWrites, held, Ops["bridge"])
<1> DEFINE fields == (This.wrong \cap FieldsOf(Reported.kind)) \ Reported.lacks
           role == When("role" \in fields, Set("field", "role"))
           tag == When("tag" \in fields, Set("field", "tag"))
           serial == When(Reported.serial \notin {"", This.serial}, Set("serial", NoName))
           platform == When("platform" \in fields, Set("field", "platform"))
           ops == Ops["bridge"]
<1>0. "field" \in ops /\ "serial" \in ops
  BY DEF Ops
<1>1. /\ role = <<>> \/ role = <<Set("field", "role")>>
      /\ tag = <<>> \/ tag = <<Set("field", "tag")>>
      /\ platform = <<>> \/ platform = <<Set("field", "platform")>>
      /\ serial = <<>> \/ serial = <<Set("serial", NoName)>>
  BY DEF When
<1>2. IdentityWrites = role \o tag \o serial \o platform
  BY DEF IdentityWrites
<1> HIDE DEF role, tag, serial, platform, ops
<1>3. \A h : Fits(role, h, ops) /\ Whole(role) = {} /\ Fits(tag, h, ops) /\ Whole(tag) = {}
  BY <1>0, <1>1, WhenSetFits
<1>4. \A h : Fits(serial, h, ops) /\ Whole(serial) = {}
  BY <1>0, <1>1, WhenSetFits
<1>5. \A h : Fits(platform, h, ops)
  BY <1>0, <1>1, WhenSetFits
<1> DEFINE a == role \o tag
           b == a \o serial
<1>6. Fits(a, held, ops)
  BY <1>3, FitsJoined
<1> HIDE DEF a
<1>7. Fits(b, held, ops)
  BY <1>4, <1>6, FitsJoined
<1> HIDE DEF b
<1>8. Fits(b \o platform, held, ops)
  BY <1>5, <1>7, FitsJoined
<1> QED
  BY <1>2, <1>8 DEF a, b, ops

(* The wireless LANs are created independently of one another.             *)
LEMMA LansFit ==
  ASSUME NEW S, IsFiniteSet(S), NEW held
  PROVE  LET Create(ssid) == Set("lan", ssid) IN Fits(Each(Create, SetToSeq(S)), held, Ops["device"])
<1> DEFINE Create(ssid) == Set("lan", ssid)
           n == SetToSeq(S)
           q == Each(Create, n)
<1>1. IsSeq(n)
  <2>1. Cardinality(S) \in Nat
    BY FS_CardinalityType
  <2>2. \E f \in [1 .. Cardinality(S) -> S] : IsInjective(f)
    <3>1. PICK f : f \in Bijection(1 .. Cardinality(S), S)
      BY FS_CardinalityType, FS_CountingElements DEF ExistsBijection
    <3> QED
      BY <3>1 DEF IsInjective, Bijection, Injection
  <2>3. n \in [1 .. Cardinality(S) -> S]
    BY <2>2 DEF SetToSeq
  <2>4. n \in Seq(S)
    BY <2>1, <2>3
  <2> QED
    BY <2>4, InSeq
<1> HIDE DEF n
<1>2. q = [i \in DOMAIN n |-> Set("lan", n[i])]
  BY DEF Each
<1>3. DOMAIN q = DOMAIN n /\ \A k \in DOMAIN q : q[k] = Set("lan", n[k])
  BY <1>2
<1>4. q = [i \in DOMAIN n |-> q[i]]
  BY <1>2
<1> HIDE DEF q
<1>5. IsSeq(q)
  BY <1>1, <1>4, Mapped
<1>6. "lan" \in Ops["device"]
  BY DEF Ops
<1>7. \A k \in DOMAIN q : /\ q[k].op = "lan" /\ Proper(q[k])
                          /\ Needs(q[k]) = {} /\ Fresh(q[k]) = {}
  BY <1>3, SetFits
<1>8. Fits(q, held, Ops["device"])
  BY <1>5, <1>6, <1>7, FitsMany
<1> QED
  BY <1>8 DEF q, n

(* What is held, name by name.                                             *)
LEMMA Tokens ==
  /\ \A n, S : <<"interface", n>> \in If(S) <=> n \in S
  /\ \A S : BondIn \notin If(S)
  /\ \A a, S : <<"address", a>> \notin If(S)
  /\ \A a : <<"address", a>> # BondIn
  /\ \A n : <<"interface", n>> # BondIn
  /\ \A a, n : <<"interface", n>> # <<"address", a>>
<1>1. "interface" # "address" /\ "interface" # "bond" /\ "address" # "bond"
  OBVIOUS
<1> QED
  BY <1>1 DEF If, BondIn

(* What the device at hand holds.                                          *)
LEMMA HeldIs ==
  /\ \A n : <<"interface", n>> \in Held <=> Has(n)
  /\ BondIn \in Held <=> BondIsIn
  /\ \A a : <<"address", a>> \in Held <=> a \in DOMAIN addresses /\ Own(a)
<1> DEFINE A == {<<"address", ip>> : ip \in {a \in DOMAIN addresses : Own(a)}}
           B == IF BondIsIn THEN {BondIn} ELSE {}
<1>1. Held = If(DOMAIN This.ifs) \cup B \cup A
  BY DEF Held
<1>2. /\ \A a : <<"address", a>> \in A <=> a \in DOMAIN addresses /\ Own(a)
      /\ BondIn \notin A /\ \A n : <<"interface", n>> \notin A
  BY Tokens
<1>3. /\ BondIn \in B <=> BondIsIn
      /\ \A a : <<"address", a>> \notin B
      /\ \A n : <<"interface", n>> \notin B
  BY Tokens
<1> HIDE DEF A, B
<1> QED
  BY <1>1, <1>2, <1>3, Tokens DEF Has

(* An interface of its own, and a port that joins.                         *)
LEMMA InterfaceIs ==
  ASSUME NEW name, NEW bridge, NEW w, w = Interface(name, bridge)
  PROVE  /\ w.op = "interface" /\ w.on = name /\ w.lag = NoName /\ w.bridge = bridge
         /\ Needs(w) = If({bridge} \ {NoName}) /\ Fresh(w) = If({name})
         /\ Gives(w) = If({name}) \cup (IF name = "bond0" THEN {BondIn} ELSE {})
         /\ name # "bond0" \/ bridge = "br0" => Proper(w)
<1>1. /\ w.op = "interface" /\ w.on = name /\ w.lag = NoName /\ w.bridge = bridge
      /\ w.after = "chain"
  BY DEF Interface, Write
<1>2. {w.lag, w.bridge} \ {NoName} = {bridge} \ {NoName}
  BY <1>1
<1>3. Needs(w) = If({bridge} \ {NoName}) /\ Fresh(w) = If({name})
  BY <1>1, <1>2 DEF Needs, Fresh
<1>4. Gives(w) = If({name}) \cup (IF name = "bond0" THEN {BondIn} ELSE {})
  BY <1>1 DEF Gives
<1>5. name # "bond0" \/ bridge = "br0" => Proper(w)
  BY <1>1 DEF Proper
<1> QED
  BY <1>1, <1>3, <1>4, <1>5

(* What linking an interface needs and gives.                              *)
LEMMA LinkIs ==
  ASSUME NEW name, NEW lag, NEW bridge, NEW w, w = Link(name, lag, bridge)
  PROVE  /\ w.op = "link" /\ Fresh(w) = {}
         /\ Needs(w) = If({name, lag, bridge} \ {NoName})
                         \cup (IF bridge = "br0" THEN {} ELSE {BondIn})
         /\ name \in Ports => Gives(w) = {}
         /\ name = "bond0" => Gives(w) = {BondIn}
         /\ name \in Ports /\ bridge = "br0" => Proper(w)
         /\ name \in Ports /\ lag = "bond0" /\ bridge = NoName => Proper(w)
         /\ name = "bond0" /\ lag = NoName /\ bridge = "br0" => Proper(w)
<1>1. /\ w.op = "link" /\ w.on = name /\ w.lag = lag /\ w.bridge = bridge
      /\ w.after = "chain"
  BY DEF Link, Write
<1>2. {w.on, w.lag, w.bridge} \ {NoName} = {name, lag, bridge} \ {NoName}
  BY <1>1
<1>3. Fresh(w) = {} /\ Needs(w) = If({name, lag, bridge} \ {NoName})
                         \cup (IF bridge = "br0" THEN {} ELSE {BondIn})
  BY <1>1, <1>2 DEF Needs, Fresh
<1>4. /\ name \in Ports => Gives(w) = {}
      /\ name = "bond0" => Gives(w) = {BondIn}
  BY <1>1, PortNames DEF Gives
<1>5. /\ name \in Ports /\ bridge = "br0" => Proper(w)
      /\ name \in Ports /\ lag = "bond0" /\ bridge = NoName => Proper(w)
      /\ name = "bond0" /\ lag = NoName /\ bridge = "br0" => Proper(w)
  BY <1>1 DEF Proper
<1> QED
  BY <1>1, <1>3, <1>4, <1>5

(* What a write of an address needs and gives.                             *)
LEMMA AddressIs ==
  ASSUME NEW op \in {"address", "assign", "primary"}, NEW ip, NEW w, w = Address(op, ip)
  PROVE  /\ w.op = op /\ Fresh(w) = {}
         /\ Needs(w) = IF op = "primary" THEN {<<"address", ip>>} ELSE {}
         /\ Gives(w) = IF op = "primary" THEN {} ELSE {<<"address", ip>>}
         /\ op = "primary" \/ (ip \in DOMAIN addresses /\ (addresses[ip] \in Places \/ Own(ip)))
               => Proper(w)
<1>1. w.op = op /\ w.on = ip /\ w.after = "chain"
  BY DEF Address, Write
<1>2. /\ Fresh(w) = {}
      /\ Needs(w) = IF op = "primary" THEN {<<"address", ip>>} ELSE {}
      /\ Gives(w) = IF op = "primary" THEN {} ELSE {<<"address", ip>>}
  BY <1>1 DEF Needs, Fresh, Gives
<1>3. op = "primary" \/ (ip \in DOMAIN addresses /\ (addresses[ip] \in Places \/ Own(ip))) => Proper(w)
  BY <1>1 DEF Proper
<1> QED
  BY <1>1, <1>2, <1>3

(* The members of an order, each with its own write.                       *)
LEMMA Ordered ==
  ASSUME NEW P, NEW q, q = [i \in DOMAIN Order(P) |-> q[i]]
  PROVE  IsSeq(q) /\ DOMAIN q = DOMAIN Order(P)
BY OrderIs, Mapped

(* The ports of a device that had none.                                    *)
LEMMA NewPortsFit ==
  ASSUME NEW held, NEW P, \A p \in P \cap Ports : <<"interface", p>> \notin held
  PROVE  LET Create(name) == Interface(name, NoName)
             q == Each(Create, Order(P)) IN
         Fits(q, held, Ops["ip"]) /\ Whole(q) = If(P \cap Ports)
<1> DEFINE Create(name) == Interface(name, NoName)
           n == Order(P)
           q == Each(Create, n)
<1>1. q = [i \in DOMAIN n |-> Interface(n[i], NoName)]
  BY DEF Each
<1>2. \A k \in DOMAIN n : q[k] = Interface(n[k], NoName)
  BY <1>1
<1>3. q = [i \in DOMAIN n |-> q[i]]
  BY <1>1
<1> HIDE DEF q
<1>4. IsSeq(q) /\ DOMAIN q = DOMAIN n
  BY <1>3, Ordered
<1>5. /\ \A k \in DOMAIN n : n[k] \in P \cap Ports
      /\ \A p \in P \cap Ports : \E k \in DOMAIN n : n[k] = p
      /\ \A j, k \in DOMAIN n : j # k => n[j] # n[k]
  BY OrderIs
<1> HIDE DEF n
<1>6. ASSUME NEW k \in DOMAIN q
      PROVE  /\ q[k].op = "interface" /\ Proper(q[k]) /\ Needs(q[k]) = {}
             /\ Fresh(q[k]) = If({n[k]}) /\ Gives(q[k]) = If({n[k]})
  <2>1. n[k] \in Ports /\ n[k] # "bond0"
    BY <1>4, <1>5, PortNames
  <2>2. {NoName} \ {NoName} = {} /\ If({}) = {}
    BY DEF If
  <2>3. PICK w, name : w = q[k] /\ name = n[k]
    OBVIOUS
  <2>4. w = Interface(name, NoName) /\ name # "bond0"
    BY <1>2, <1>4, <2>1, <2>3
  <2>5. /\ w.op = "interface" /\ Needs(w) = If({NoName} \ {NoName})
        /\ Fresh(w) = If({name})
        /\ Gives(w) = If({name}) \cup (IF name = "bond0" THEN {BondIn} ELSE {})
        /\ name # "bond0" \/ NoName = "br0" => Proper(w)
    BY <2>4, InterfaceIs
  <2> QED
    BY <2>2, <2>3, <2>4, <2>5
<1>7. ASSUME NEW k \in DOMAIN q, NEW j \in DOMAIN q, j # k
      PROVE  Fresh(q[k]) \cap Gives(q[j]) = {}
  BY <1>4, <1>5, <1>6, <1>7 DEF If
<1>8. ASSUME NEW k \in DOMAIN q PROVE Fresh(q[k]) \cap held = {}
  BY <1>4, <1>5, <1>6 DEF If
<1>9. "interface" \in Ops["ip"]
  BY DEF Ops
<1>10. Fits(q, held, Ops["ip"])
  BY <1>4, <1>6, <1>7, <1>8, <1>9, FitsMany
<1>11. Whole(q) = If(P \cap Ports)
  <2>1. Whole(q) \subseteq If(P \cap Ports)
    BY <1>4, <1>5, <1>6 DEF Whole, If
  <2>2. If(P \cap Ports) \subseteq Whole(q)
    BY <1>4, <1>5, <1>6 DEF Whole, If
  <2> QED
    BY <2>1, <2>2
<1> QED
  BY <1>10, <1>11 DEF q, n

(* Ports that go into the bridge, and ports that go into the bond.         *)
LEMMA JoinsFit ==
  ASSUME NEW held, NEW uplinks,
         \A p \in Linked(uplinks) \cap Ports :
           If({p, LinkOf(p).lag, "br0"} \ {NoName}) \subseteq held
  PROVE  Fits(PortWrites(uplinks), held, Ops["ip"])
<1> DEFINE In(p) == Has("br0") /\ LinkOf(p).bridge = "br0"
           P == {p \in Linked(uplinks) : ~In(p)}
           n == Order(P)
           q == PortWrites(uplinks)
<1>1. q = [i \in DOMAIN n |-> Link(n[i], LinkOf(n[i]).lag, "br0")]
  BY DEF PortWrites, Each
<1>2. \A k \in DOMAIN n : n[k] \in Linked(uplinks) \cap Ports
  BY OrderIs
<1>3. q = [i \in DOMAIN n |-> q[i]]
  BY <1>1
<1>4. \A k \in DOMAIN n : q[k] = Link(n[k], LinkOf(n[k]).lag, "br0")
  BY <1>1
<1> HIDE DEF q
<1>5. IsSeq(q) /\ DOMAIN q = DOMAIN n
  BY <1>3, Ordered
<1> HIDE DEF n
<1>6. ASSUME NEW k \in DOMAIN q
      PROVE  /\ q[k].op = "link" /\ Proper(q[k]) /\ Needs(q[k]) \subseteq held /\ Fresh(q[k]) = {}
  <2>1. n[k] \in Linked(uplinks) \cap Ports
    BY <1>2, <1>5
  <2>2. If({n[k], LinkOf(n[k]).lag, "br0"} \ {NoName}) \subseteq held
    BY <2>1
  <2> QED
    BY <1>4, <1>5, <2>1, <2>2, LinkIs
<1>7. "link" \in Ops["ip"]
  BY DEF Ops
<1>8. Fits(q, held, Ops["ip"])
  BY <1>5, <1>6, <1>7, FitsMany
<1> QED
  BY <1>8 DEF q

(* The ports go into a bond that is there.                                 *)
LEMMA MembersFit ==
  ASSUME NEW held, NEW P,
         BondIn \in held, <<"interface", "bond0">> \in held,
         \A p \in P \cap Ports : <<"interface", p>> \in held
  PROVE  Fits(Each(Member, Order(P)), held, Ops["ip"])
<1> DEFINE n == Order(P)
           q == Each(Member, n)
<1>1. q = [i \in DOMAIN n |-> Link(n[i], "bond0", NoName)]
  BY DEF Each, Member
<1>2. \A k \in DOMAIN n : n[k] \in P \cap Ports
  BY OrderIs
<1>3. q = [i \in DOMAIN n |-> q[i]]
  BY <1>1
<1>4. \A k \in DOMAIN n : q[k] = Link(n[k], "bond0", NoName)
  BY <1>1
<1> HIDE DEF q
<1>5. IsSeq(q) /\ DOMAIN q = DOMAIN n
  BY <1>3, Ordered
<1> HIDE DEF n
<1>6. ASSUME NEW k \in DOMAIN q
      PROVE  /\ q[k].op = "link" /\ Proper(q[k]) /\ Needs(q[k]) \subseteq held /\ Fresh(q[k]) = {}
  <2>1. n[k] \in P \cap Ports
    BY <1>2, <1>5
  <2>2. If({n[k], "bond0", NoName} \ {NoName}) \subseteq held
    BY <2>1 DEF If, NoName
  <2>3. q[k] = Link(n[k], "bond0", NoName) /\ NoName # "br0"
    BY <1>4, <1>5 DEF NoName
  <2>4. Needs(q[k]) = If({n[k], "bond0", NoName} \ {NoName}) \cup {BondIn}
    BY <2>3, LinkIs
  <2>5. q[k].op = "link" /\ Fresh(q[k]) = {}
    BY <2>3 DEF Link, Write, Fresh
  <2>6. n[k] \in Ports
    BY <2>1
  <2>7. Proper(q[k])
    BY <2>3, <2>6, LinkIs
  <2> QED
    BY <2>2, <2>4, <2>5, <2>7
<1>7. "link" \in Ops["ip"]
  BY DEF Ops
<1>8. Fits(q, held, Ops["ip"])
  BY <1>5, <1>6, <1>7, FitsMany
<1> QED
  BY <1>8 DEF q, n

-----------------------------------------------------------------------------
(* The bridge of an access point, from what NetBox has of it.              *)
LEMMA BondFits ==
  ASSUME NEW held,
         <<"interface", "br0">> \in held, BondIn \in held <=> BondIsIn,
         <<"interface", "bond0">> \in held <=> Has("bond0")
  PROVE  /\ Fits(Bond, held, Ops["ip"])
         /\ {BondIn, <<"interface", "bond0">>} \subseteq held \cup Whole(Bond)
<1>1. CASE ~Has("bond0")
  <2> DEFINE w == Interface("bond0", "br0")
  <2>1. Bond = <<w>>
    BY <1>1 DEF Bond
  <2>2. /\ w.op = "interface" /\ Proper(w)
        /\ Needs(w) = If({"br0"} \ {NoName}) /\ Fresh(w) = If({"bond0"})
        /\ Gives(w) = If({"bond0"}) \cup {BondIn}
    BY InterfaceIs
  <2> HIDE DEF w
  <2>3. Needs(w) \subseteq held /\ Fresh(w) \cap held = {}
    BY <1>1, <2>2 DEF If
  <2>4. "interface" \in Ops["ip"]
    BY DEF Ops
  <2>5. Fits(<<w>>, held, Ops["ip"]) /\ Whole(<<w>>) = Gives(w)
    BY <2>2, <2>3, <2>4, FitsOne
  <2> QED
    BY <2>1, <2>2, <2>5 DEF If
<1>2. CASE Has("bond0") /\ (~Has("br0") \/ This.ifs["bond0"].bridge # "br0")
  <2> DEFINE w == Link("bond0", NoName, "br0")
  <2>1. Bond = <<w>>
    BY <1>2 DEF Bond, When
  <2>0. w = Link("bond0", NoName, "br0")
    OBVIOUS
  <2> HIDE DEF w
  <2>2. /\ w.op = "link" /\ Proper(w) /\ Fresh(w) = {} /\ Gives(w) = {BondIn}
        /\ Needs(w) = If({"bond0", NoName, "br0"} \ {NoName}) \cup {}
    BY <2>0, LinkIs
  <2>3. Needs(w) \subseteq held
    BY <1>2, <2>2 DEF If
  <2>4. "link" \in Ops["ip"]
    BY DEF Ops
  <2>5. Fits(<<w>>, held, Ops["ip"]) /\ Whole(<<w>>) = Gives(w)
    BY <2>2, <2>3, <2>4, FitsOne
  <2> QED
    BY <1>2, <2>1, <2>2, <2>5
<1>3. CASE Has("bond0") /\ ~(~Has("br0") \/ This.ifs["bond0"].bridge # "br0")
  <2>1. Bond = <<>>
    BY <1>3 DEF Bond, When
  <2>2. BondIsIn
    BY <1>3 DEF BondIsIn
  <2> QED
    BY <1>3, <2>1, <2>2, FitsNone
<1> QED
  BY <1>1, <1>2, <1>3

(* A device that is in NetBox is not a preview.                            *)
LEMMA DeviceThere ==
  ASSUME Recorded, device \in DOMAIN devices
  PROVE  device # Preview /\ This = devices[device] /\ device \in Nat
<1>1. device \in 1 .. Len(devices) /\ Len(devices) \in Nat
  BY DEF Recorded
<1> QED
  BY <1>1 DEF Preview, This

(* The bridge step creates bridge and bond before it links ports to them,  *)
(* and puts the bond into the bridge before a port leaves the bridge for   *)
(* it.                                                                     *)
LEMMA BridgeFits ==
  ASSUME Recorded, device \in DOMAIN devices, NEW uplinks
  PROVE  Fits(BridgeWrites(uplinks), Held, Ops["ip"])
<1> DEFINE Create(name) == Interface(name, NoName)
           bridge == When(~Has("br0"), Create("br0"))
           ports == Each(Create, Order(NewPorts(uplinks)))
           links == IF Linked(uplinks) = {} THEN <<>>
                    ELSE IF Has("bond0") \/ Cardinality(Linked(uplinks)) > 1 THEN BondWrites(uplinks)
                    ELSE PortWrites(uplinks)
           P == NewPorts(uplinks) \cap Ports
           ops == Ops["ip"]
<1>1. BridgeWrites(uplinks) = bridge \o ports \o links
  BY DEF BridgeWrites
<1>2. /\ Fits(bridge, Held, ops) /\ Whole(bridge) \subseteq If({"br0"})
      /\ <<"interface", "br0">> \in Held \cup Whole(bridge)
  <2>1. CASE Has("br0")
    <3>1. bridge = <<>>
      BY <2>1 DEF When
    <3> QED
      BY <2>1, <3>1, FitsNone, HeldIs
  <2>2. CASE ~Has("br0")
    <3> DEFINE w == Create("br0")
    <3>1. bridge = <<w>>
      BY <2>2 DEF When
    <3>0. w = Interface("br0", NoName)
      OBVIOUS
    <3> HIDE DEF w
    <3>2. /\ w.op = "interface" /\ Fresh(w) = If({"br0"}) /\ Gives(w) = If({"br0"}) /\ Proper(w)
      BY <3>0 DEF Interface, Write, Fresh, Gives, Proper
    <3>8. Needs(w) = {}
      BY <3>0 DEF Interface, Write, Needs, If, NoName
    <3>3. Needs(w) \subseteq Held /\ Fresh(w) \cap Held = {}
      BY <2>2, <3>2, <3>8, HeldIs DEF If
    <3>4. "interface" \in ops
      BY DEF Ops
    <3>5. Fits(<<w>>, Held, ops) /\ Whole(<<w>>) = Gives(w)
      BY <3>2, <3>3, <3>4, FitsOne
    <3>6. Whole(bridge) = If({"br0"})
      BY <3>1, <3>2, <3>5
    <3>7. <<"interface", "br0">> \in If({"br0"})
      BY DEF If
    <3> QED
      BY <3>1, <3>5, <3>6, <3>7
  <2> QED
    BY <2>1, <2>2
<1> DEFINE held1 == Held \cup Whole(bridge)
           held2 == held1 \cup Whole(ports)
<1>3. /\ \A p \in Ports : <<"interface", p>> \in held1 <=> Has(p)
      /\ <<"interface", "bond0">> \in held1 <=> Has("bond0")
      /\ BondIn \in held1 <=> BondIsIn
  <2>1. /\ \A p \in Ports : <<"interface", p>> \notin Whole(bridge)
        /\ <<"interface", "bond0">> \notin Whole(bridge)
        /\ BondIn \notin Whole(bridge)
    <3>1. "br0" \notin Ports /\ "br0" # "bond0"
      BY PortNames
    <3> HIDE DEF bridge
    <3> QED
      BY <1>2, <3>1, Tokens
  <2> HIDE DEF bridge
  <2> QED
    BY <2>1, HeldIs
<1>4. \A p \in P : ~Has(p)
  BY DEF NewPorts, Wired, Has
<1>5. Fits(ports, held1, ops) /\ Whole(ports) = If(P)
  <2> HIDE DEF held1
  <2>1. \A p \in P : <<"interface", p>> \notin held1
    BY <1>3, <1>4
  <2> QED
    BY <2>1, NewPortsFit
<1> HIDE DEF bridge, ports, held1
<1>6. /\ <<"interface", "br0">> \in held2
      /\ \A p \in Linked(uplinks) \cap Ports : <<"interface", p>> \in held2
      /\ BondIn \in held2 <=> BondIsIn
      /\ <<"interface", "bond0">> \in held2 <=> Has("bond0")
  <2>1. <<"interface", "br0">> \in held2
    BY <1>2 DEF held1
  <2>2. ASSUME NEW p \in Linked(uplinks) \cap Ports PROVE <<"interface", p>> \in held2
    <3>1. Has(p) \/ p \in P
      BY DEF Linked, Wired, Has
    <3> QED
      BY <1>3, <1>5, <3>1, Tokens
  <2>3. BondIn \in held2 <=> BondIsIn
    BY <1>3, <1>5, Tokens
  <2>4. <<"interface", "bond0">> \in held2 <=> Has("bond0")
    BY <1>3, <1>5, Tokens, PortNames
  <2> QED
    BY <2>1, <2>2, <2>3, <2>4
<1>7. \A n : Has(n) => <<"interface", n>> \in held2
  BY HeldIs DEF held1
<1> HIDE DEF held2
<1>8. Fits(PortWrites(uplinks), held2, ops)
  <2>1. ASSUME NEW p \in Linked(uplinks) \cap Ports
        PROVE  If({p, LinkOf(p).lag, "br0"} \ {NoName}) \subseteq held2
    <3>1. LinkOf(p).lag = NoName \/ Has(LinkOf(p).lag)
      <4>1. CASE Has(p)
        <5>1. This = devices[device] /\ p \in DOMAIN devices[device].ifs
          BY <4>1, DeviceThere DEF Has
        <5> QED
          BY <4>1, <5>1 DEF Recorded, LinkOf, Has
      <4>2. CASE ~Has(p)
        BY <4>2 DEF LinkOf, Bare
      <4> QED
        BY <4>1, <4>2
    <3> QED
      BY <1>6, <1>7, <3>1 DEF If
  <2> QED
    BY <2>1, JoinsFit
<1>9. Fits(BondWrites(uplinks), held2, ops)
  <2> DEFINE In(p) == Has("bond0") /\ LinkOf(p) = [lag |-> "bond0", bridge |-> NoName]
             Q == {p \in Linked(uplinks) : ~In(p)}
  <2>1. /\ Fits(Bond, held2, ops)
        /\ {BondIn, <<"interface", "bond0">>} \subseteq held2 \cup Whole(Bond)
    BY <1>6, BondFits
  <2>2. \A p \in Q \cap Ports : <<"interface", p>> \in held2 \cup Whole(Bond)
    BY <1>6
  <2>3. BondWrites(uplinks) = Bond \o Each(Member, Order(Q))
    BY DEF BondWrites
  <2> HIDE DEF Q
  <2>4. Fits(Each(Member, Order(Q)), held2 \cup Whole(Bond), ops)
    BY <2>1, <2>2, MembersFit
  <2>5. PICK bond, members : bond = Bond /\ members = Each(Member, Order(Q))
    OBVIOUS
  <2>6. Fits(bond, held2, ops) /\ Fits(members, held2 \cup Whole(bond), ops)
    BY <2>1, <2>4, <2>5
  <2>7. Fits(bond \o members, held2, ops)
    BY <2>6, FitsJoined
  <2> QED
    BY <2>3, <2>5, <2>7
<1>10. Fits(links, held2, ops)
  BY <1>8, <1>9, FitsNone
<1> HIDE DEF links, ops
<1>11. Fits(bridge \o ports, Held, ops) /\ Held \cup Whole(bridge \o ports) = held2
  BY <1>2, <1>5, FitsJoined DEF held1, held2
<1>12. Fits((bridge \o ports) \o links, Held, ops)
  BY <1>10, <1>11, FitsJoined
<1> QED
  BY <1>1, <1>12 DEF ops

(* The primary IP: its interface, the address on it, and then the device   *)
(* gets it.                                                                *)
LEMMA IpFits ==
  ASSUME Recorded, device \in DOMAIN devices,
         NEW ip \in DOMAIN addresses, ~IpBlocked(ip)
  PROVE  Fits(IpWrites(ip), Held, Ops["radio"])
<1> DEFINE absent == addresses[ip] = Absent
           moved == ~absent /\ addresses[ip] # <<device, IpTarget>>
           other == absent \/ This.primary # ip
           a == When(~Has(IpTarget), Interface(IpTarget, NoName))
           b == When(absent, Address("address", ip))
           c == When(moved, Address("assign", ip))
           d == When(other, Address("primary", ip))
           ops == Ops["radio"]
<1>1. IpWrites(ip) = a \o b \o c \o d
  BY DEF IpWrites
<1>2. {"interface", "address", "assign", "primary"} \subseteq ops
  BY DEF Ops
<1>3. addresses[ip] \in Places \/ Own(ip)
  BY DEF IpBlocked, Own, Places
<1>4. IpTarget # "bond0"
  <2>1. CASE Wired # {}
    <3>1. PICK p \in Wired : TRUE
      BY <2>1
    <3>2. \E k \in DOMAIN Order(Wired) : Order(Wired)[k] = p
      BY OrderIs DEF Wired
    <3>3. IsSeq(Order(Wired)) /\ Order(Wired) # <<>>
      BY <3>2, OrderIs, Empty
    <3>4. Head(Order(Wired)) = Order(Wired)[1] /\ 1 \in DOMAIN Order(Wired)
      BY <3>3, Rest
    <3>5. Head(Order(Wired)) \in Ports
      BY <3>4, OrderIs
    <3> QED
      BY <3>5, PortNames DEF IpTarget
  <2> QED
    BY <2>1 DEF IpTarget
<1>5. \A h : Has(IpTarget) \/ <<"interface", IpTarget>> \notin h => Fits(a, h, ops)
  <2>1. CASE Has(IpTarget)
    <3>1. a = <<>>
      BY <2>1 DEF When
    <3> QED
      BY <3>1, FitsNone
  <2>2. CASE ~Has(IpTarget)
    <3> DEFINE w == Interface(IpTarget, NoName)
    <3>1. a = <<w>>
      BY <2>2 DEF When
    <3>2. w.op = "interface" /\ Fresh(w) = If({IpTarget}) /\ Proper(w)
      BY <1>4 DEF Interface, Write, Fresh, Proper
    <3>3. Needs(w) = {}
      BY DEF Interface, Write, Needs, If, NoName
    <3> HIDE DEF w
    <3>4. ASSUME NEW h, <<"interface", IpTarget>> \notin h PROVE Fits(<<w>>, h, ops)
      <4>1. Fresh(w) \cap h = {}
        BY <3>2, <3>4 DEF If
      <4> QED
        BY <1>2, <3>2, <3>3, <4>1, FitsOne
    <3> QED
      BY <2>2, <3>1, <3>4
  <2> QED
    BY <2>1, <2>2
<1>6. ASSUME NEW op \in {"address", "assign"}, NEW q, q = <<>> \/ q = <<Address(op, ip)>>, NEW h
      PROVE  /\ Fits(q, h, ops)
             /\ q # <<>> => <<"address", ip>> \in Whole(q)
  <2> DEFINE w == Address(op, ip)
  <2>1. /\ w.op = op /\ Fresh(w) = {} /\ Needs(w) = {} /\ Proper(w)
        /\ Gives(w) = {<<"address", ip>>}
    BY <1>3, AddressIs
  <2> HIDE DEF w
  <2>2. Fits(<<w>>, h, ops) /\ Whole(<<w>>) = Gives(w)
    BY <1>2, <2>1, FitsOne
  <2> QED
    BY <1>6, <2>1, <2>2, FitsNone DEF w
<1>7. ASSUME NEW h, <<"address", ip>> \in h PROVE Fits(d, h, ops)
  <2> DEFINE w == Address("primary", ip)
  <2>1. w.op = "primary" /\ Fresh(w) = {} /\ Needs(w) = {<<"address", ip>>} /\ Proper(w)
    BY DEF Address, Write, Fresh, Needs, Proper
  <2>2. d = <<>> \/ d = <<w>>
    BY DEF When
  <2> HIDE DEF w
  <2>3. Fits(<<w>>, h, ops)
    BY <1>2, <1>7, <2>1, FitsOne
  <2> QED
    BY <2>2, <2>3, FitsNone
<1>8. Has(IpTarget) \/ <<"interface", IpTarget>> \notin Held
  BY HeldIs
<1>9. /\ absent => b # <<>>
      /\ ~absent => moved \/ addresses[ip] = <<device, IpTarget>>
      /\ moved => c # <<>>
      /\ b = <<>> \/ b = <<Address("address", ip)>>
      /\ c = <<>> \/ c = <<Address("assign", ip)>>
  BY DEF When
<1>10. addresses[ip] = <<device, IpTarget>> => <<"address", ip>> \in Held
  <2> SUFFICES ASSUME addresses[ip] = <<device, IpTarget>> PROVE <<"address", ip>> \in Held
    OBVIOUS
  <2>1. device # NoDevice
    BY DeviceThere DEF NoDevice, Preview
  <2>2. <<device, IpTarget>> \notin Places
    BY <2>1 DEF Places, Absent, Unassigned, Unfit
  <2>3. Own(ip)
    BY <2>2 DEF Own
  <2> QED
    BY <2>3, HeldIs
<1> HIDE DEF a, b, c, d, absent, moved, ops
<1> DEFINE ab == a \o b
           abc == ab \o c
<1>11. Fits(a, Held, ops)
  BY <1>5, <1>8
<1>18. \A h : Fits(b, h, ops)
  BY <1>6, <1>9
<1>19. \A h : Fits(c, h, ops)
  BY <1>6, <1>9
<1>12. b # <<>> => <<"address", ip>> \in Whole(b)
  BY <1>6, <1>9
<1>13. \A h, o, s, t : Fits(s, h, o) /\ Fits(t, h \cup Whole(s), o) =>
         Fits(s \o t, h, o)
  BY FitsJoined
<1>15. \A s, t, x : IsSeq(s) /\ IsSeq(t) /\ (x \in Whole(s) \/ x \in Whole(t)) =>
         x \in Whole(s \o t)
  BY WholeJoined
<1>20. Fits(ab, Held, ops)
  BY <1>11, <1>13, <1>18
<1>23. <<"address", ip>> \in Whole(b) => <<"address", ip>> \in Whole(ab)
  BY <1>11, <1>15, <1>18 DEF Fits
<1> HIDE DEF ab
<1>14. c # <<>> => <<"address", ip>> \in Whole(c)
  BY <1>6, <1>9
<1>21. Fits(abc, Held, ops)
  BY <1>13, <1>19, <1>20
<1>24. \A x : x \in Whole(ab) \/ x \in Whole(c) => x \in Whole(abc)
  BY <1>15, <1>19, <1>20 DEF Fits
<1> HIDE DEF abc
<1>16. <<"address", ip>> \in Held \cup Whole(abc)
  BY <1>9, <1>10, <1>12, <1>14, <1>23, <1>24
<1>22. Fits(d, Held \cup Whole(abc), ops)
  BY <1>7, <1>16
<1>17. Fits(abc \o d, Held, ops)
  BY <1>13, <1>21, <1>22
<1> QED
  BY <1>1, <1>17 DEF ab, abc, ops

-----------------------------------------------------------------------------
(* The write at the head of the queue.                                     *)
LEMMA OpsOf ==
  ASSUME NEW s \in DOMAIN Ops, NEW o \in Ops[s]
  PROVE  /\ s \in {"start", "tag", "lans", "device", "identity", "bridge", "ip", "radio", "next"}
         /\ o \in {"tag", "lan", "device", "field", "serial", "radio",
                   "interface", "link", "address", "assign", "primary"}
         /\ s # "start" /\ s # "tag"
         /\ o = "tag" <=> s = "lans"
         /\ o = "device" <=> s = "identity"
         /\ o \in {"interface", "link", "address", "assign", "primary"} => s \in {"ip", "radio"}
         /\ o = "lan" <=> s = "device"
<1>1. s \in {"start", "tag", "lans", "device", "identity", "bridge", "ip", "radio", "next"}
  BY DEF Ops
<1>2. /\ Ops["start"] = {} /\ Ops["tag"] = {} /\ Ops["lans"] = {"tag"} /\ Ops["device"] = {"lan"}
      /\ Ops["identity"] = {"device"} /\ Ops["bridge"] = {"field", "serial"}
      /\ Ops["ip"] = {"field", "serial", "interface", "link"}
      /\ Ops["radio"] = {"interface", "address", "assign", "primary"} /\ Ops["next"] = {"radio"}
  BY DEF Ops
<1> QED
  BY <1>1, <1>2

Linking == {"interface", "link", "address", "assign", "primary"}

(* The write at the head of the queue is of its stage and finds what it    *)
(* needs.                                                                  *)
LEMMA HeadIs ==
  ASSUME Located, Recorded, Queued, queue # <<>>, NEW w, w = Head(queue)
  PROVE  /\ apply /\ w \in Range(queue)
         /\ w.op \in Ops[stage] /\ Proper(w) /\ Needs(w) \subseteq Held /\ Fresh(w) \cap Held = {}
         /\ Ready(Tail(queue), Held \cup Gives(w)) /\ IsSeq(Tail(queue))
         /\ \A k \in DOMAIN Tail(queue) : Tail(queue)[k].op \in Ops[stage] /\ Proper(Tail(queue)[k])
         /\ w.op = "device" => stage = "identity" /\ Tail(queue) = <<>>
         /\ w.op \in Linking => device \in DOMAIN devices /\ stage \in {"ip", "radio"}
<1>1. IsSeq(queue)
  BY DEF Queued, IsSeq
<1>2. /\ IsSeq(Tail(queue)) /\ Len(queue) \in Nat /\ DOMAIN queue = 1 .. Len(queue)
      /\ w = queue[1] /\ 1 \in DOMAIN queue
      /\ DOMAIN Tail(queue) = 1 .. (Len(queue) - 1)
      /\ \A i \in 1 .. (Len(queue) - 1) : Tail(queue)[i] = queue[i + 1]
  BY <1>1, Rest
<1>3. Needs(w) \subseteq Held /\ Fresh(w) \cap Held = {} /\ Ready(Tail(queue), Held \cup Gives(w))
  BY <1>1, ReadyTail DEF Queued
<1>4. w.op \in Ops[stage] /\ Proper(w)
  BY <1>2 DEF Queued
<1>5. stage \in DOMAIN Ops
  BY DEF Located
<1>6. apply
  BY <1>4, <1>5, OpsOf DEF Queued
<1>7. w.op = "device" => stage = "identity" /\ Tail(queue) = <<>>
  <2>1. w.op = "device" => queue = <<Set("device", NoName)>>
    BY <1>4, <1>5, OpsOf DEF Located
  <2>2. Tail(<<Set("device", NoName)>>) = <<>>
    BY Single
  <2> QED
    BY <1>4, <1>5, <2>1, <2>2, OpsOf
<1>8. w.op \in Linking => device \in DOMAIN devices /\ stage \in {"ip", "radio"}
  <2>1. w.op \in Linking => stage \in {"ip", "radio"}
    BY <1>4, <1>5, OpsOf DEF Linking
  <2>2. stage \in {"ip", "radio"} => device # Preview
    BY <1>6 DEF Located, OnDevice
  <2> QED
    BY <2>1, <2>2 DEF Located
<1>9. \A k \in DOMAIN Tail(queue) : Tail(queue)[k].op \in Ops[stage] /\ Proper(Tail(queue)[k])
  BY <1>2 DEF Queued
<1> QED
  BY <1>2, <1>3, <1>4, <1>6, <1>7, <1>8, <1>9 DEF Range

(* What a write needs to be there is there: it never fails of itself.      *)
LEMMA HeadPossible ==
  ASSUME Located, Recorded, Queued, queue # <<>>, NEW w, w = Head(queue)
  PROVE  Possible(w)
<1>1. w.op \in {"interface", "link"} => {w.lag, w.bridge} \ {NoName} \subseteq DOMAIN This.ifs
  <2> SUFFICES ASSUME w.op \in {"interface", "link"}, NEW n \in {w.lag, w.bridge} \ {NoName}
               PROVE  n \in DOMAIN This.ifs
    OBVIOUS
  <2>1. <<"interface", n>> \in Needs(w)
    BY DEF Needs, If
  <2>2. <<"interface", n>> \in Held
    BY <2>1, HeadIs
  <2> QED
    BY <2>2, HeldIs DEF Has
<1>2. w.op = "interface" => ~Has(w.on)
  <2> SUFFICES ASSUME w.op = "interface" PROVE ~Has(w.on)
    OBVIOUS
  <2>1. <<"interface", w.on>> \in Fresh(w)
    BY DEF Fresh, If
  <2>2. <<"interface", w.on>> \notin Held
    BY <2>1, HeadIs
  <2> QED
    BY <2>2, HeldIs
<1> QED
  BY <1>1, <1>2 DEF Possible

(* What carrying it out does to the devices, by the kind of write.         *)
LEMMA Appended ==
  ASSUME Recorded, NEW d, devices' = Append(devices, d)
  PROVE  /\ devices' \in Seq(Range(devices')) /\ DOMAIN devices' = 1 .. (Len(devices) + 1)
         /\ Len(devices) \in Nat /\ DOMAIN devices = 1 .. Len(devices)
         /\ devices'[Len(devices) + 1] = d
         /\ \A i \in DOMAIN devices : devices'[i] = devices[i]
<1> DEFINE R == Range(devices) \cup {d}
<1>1. devices \in Seq(R)
  BY DEF Recorded
<1>2. d \in R
  OBVIOUS
<1> HIDE DEF R
<1>3. devices' \in Seq(R)
  BY <1>1, <1>2
<1>4. devices' \in Seq(Range(devices'))
  BY <1>3, InSeq DEF IsSeq
<1>5. Len(devices) \in Nat /\ DOMAIN devices = 1 .. Len(devices)
  BY <1>1
<1>6. /\ DOMAIN devices' = 1 .. (Len(devices) + 1)
      /\ devices'[Len(devices) + 1] = d
      /\ \A i \in 1 .. Len(devices) : devices'[i] = devices[i]
  BY <1>1, <1>2
<1> QED
  BY <1>4, <1>5, <1>6

(* A write that keeps the number of devices keeps them a sequence.         *)
LEMMA Corrected ==
  ASSUME Recorded, devices' = [i \in DOMAIN devices |-> devices'[i]]
  PROVE  devices' \in Seq(Range(devices')) /\ DOMAIN devices' = DOMAIN devices
<1>1. IsSeq(devices)
  BY DEF Recorded, IsSeq
<1> QED
  BY <1>1, Mapped DEF IsSeq

(* Writes that leave every device's interfaces and primary IP alone.       *)
Quiet(op) == op \in {"tag", "lan", "field", "serial", "radio", "address", "assign"}

(* A write of a tag, a field or an address moves no interface and no       *)
(* primary IP.                                                             *)
LEMMA QuietLeaves ==
  ASSUME Recorded, NEW w, Quiet(w.op), devices' = Devices(w)
  PROVE  /\ devices' \in Seq(Range(devices')) /\ DOMAIN devices' = DOMAIN devices
         /\ \A i \in DOMAIN devices : /\ DOMAIN devices'[i] = DOMAIN devices[i]
                                      /\ devices'[i].ifs = devices[i].ifs
                                      /\ devices'[i].primary = devices[i].primary
<1>1. CASE w.op = "field"
  <2>1. devices' = [devices EXCEPT ![device].wrong = @ \ {w.on}]
    BY <1>1 DEF Devices
  <2>2. devices' = [i \in DOMAIN devices |-> devices'[i]]
    BY <2>1
  <2>3. ASSUME NEW i \in DOMAIN devices
        PROVE  /\ DOMAIN devices'[i] = DOMAIN devices[i]
               /\ devices'[i].ifs = devices[i].ifs
               /\ devices'[i].primary = devices[i].primary
    <3>1. DOMAIN devices[i] = {"name", "serial", "wrong", "primary", "ifs"}
      BY DEF Recorded
    <3>2. devices'[i] = IF i = device THEN [devices[i] EXCEPT !.wrong = @ \ {w.on}] ELSE devices[i]
      BY <2>1
    <3> QED
      BY <3>1, <3>2
  <2> QED
    BY <2>2, <2>3, Corrected
<1>2. CASE w.op = "radio"
  <2>1. devices' = [devices EXCEPT ![device].wrong =
                                 @ \ ({"radio", "channel", w.on} \ Reported.skips)]
    BY <1>2 DEF Devices
  <2>2. devices' = [i \in DOMAIN devices |-> devices'[i]]
    BY <2>1
  <2>3. ASSUME NEW i \in DOMAIN devices
        PROVE  /\ DOMAIN devices'[i] = DOMAIN devices[i]
               /\ devices'[i].ifs = devices[i].ifs
               /\ devices'[i].primary = devices[i].primary
    <3>1. DOMAIN devices[i] = {"name", "serial", "wrong", "primary", "ifs"}
      BY DEF Recorded
    <3>2. devices'[i] =
            IF i = device
            THEN [devices[i] EXCEPT !.wrong = @ \ ({"radio", "channel", w.on} \ Reported.skips)]
            ELSE devices[i]
      BY <2>1
    <3> QED
      BY <3>1, <3>2
  <2> QED
    BY <2>2, <2>3, Corrected
<1>3. CASE w.op = "serial"
  <2>1. devices' = [devices EXCEPT ![device].serial = Reported.serial]
    BY <1>3 DEF Devices
  <2>2. devices' = [i \in DOMAIN devices |-> devices'[i]]
    BY <2>1
  <2>3. ASSUME NEW i \in DOMAIN devices
        PROVE  /\ DOMAIN devices'[i] = DOMAIN devices[i]
               /\ devices'[i].ifs = devices[i].ifs
               /\ devices'[i].primary = devices[i].primary
    <3>1. DOMAIN devices[i] = {"name", "serial", "wrong", "primary", "ifs"}
      BY DEF Recorded
    <3>2. devices'[i] = IF i = device THEN [devices[i] EXCEPT !.serial = Reported.serial]
                        ELSE devices[i]
      BY <2>1
    <3> QED
      BY <3>1, <3>2
  <2> QED
    BY <2>2, <2>3, Corrected
<1>4. CASE w.op \in {"tag", "lan", "address", "assign"}
  <2>1. devices' = devices
    BY <1>4 DEF Devices
  <2> QED
    BY <2>1 DEF Recorded
<1> QED
  BY <1>1, <1>2, <1>3, <1>4 DEF Quiet

(* A write of an interface leaves every other interface as it was.         *)
LEMMA InterfaceLeaves ==
  ASSUME Recorded, NEW w, w.op \in {"interface", "link"}, device \in DOMAIN devices,
         devices' = Devices(w)
  PROVE  /\ devices' \in Seq(Range(devices')) /\ DOMAIN devices' = DOMAIN devices
         /\ \A i \in DOMAIN devices : i # device => devices'[i] = devices[i]
         /\ DOMAIN devices'[device] = DOMAIN devices[device]
         /\ devices'[device].primary = devices[device].primary
         /\ DOMAIN devices'[device].ifs = DOMAIN devices[device].ifs \cup {w.on}
         /\ devices'[device].ifs[w.on] = [lag |-> w.lag, bridge |-> w.bridge]
         /\ \A n \in DOMAIN devices[device].ifs :
              n # w.on => devices'[device].ifs[n] = devices[device].ifs[n]
<1> DEFINE link == [lag |-> w.lag, bridge |-> w.bridge]
           d == devices[device]
           ifs == [n \in DOMAIN d.ifs \cup {w.on} |-> IF n = w.on THEN link ELSE d.ifs[n]]
<1>1. devices' = [devices EXCEPT ![device] = WithIf(d, w.on, link)]
  BY DEF Devices
<1>2. devices' = [i \in DOMAIN devices |-> devices'[i]]
  BY <1>1
<1>3. \A i \in DOMAIN devices : i # device => devices'[i] = devices[i]
  BY <1>1
<1>4. devices'[device] = WithIf(d, w.on, link)
  BY <1>1
<1>5. DOMAIN d = {"name", "serial", "wrong", "primary", "ifs"}
  BY DEF Recorded
<1>6. WithIf(d, w.on, link) = [d EXCEPT !.ifs = ifs]
  BY DEF WithIf
<1> HIDE DEF d, ifs
<1>7. /\ DOMAIN [d EXCEPT !.ifs = ifs] = DOMAIN d
      /\ [d EXCEPT !.ifs = ifs].primary = d.primary
      /\ [d EXCEPT !.ifs = ifs].ifs = ifs
  BY <1>5
<1>8. /\ DOMAIN devices'[device] = DOMAIN d
      /\ devices'[device].primary = d.primary
      /\ devices'[device].ifs = ifs
  BY <1>4, <1>6, <1>7
<1>9. devices' \in Seq(Range(devices')) /\ DOMAIN devices' = DOMAIN devices
  BY <1>2, Corrected
<1>10. /\ DOMAIN ifs = DOMAIN d.ifs \cup {w.on}
       /\ ifs[w.on] = link
       /\ \A n \in DOMAIN d.ifs : n # w.on => ifs[n] = d.ifs[n]
  BY DEF ifs
<1> QED
  BY <1>3, <1>8, <1>9, <1>10 DEF d

(* A write of a primary IP leaves every interface as it was.               *)
LEMMA PrimaryLeaves ==
  ASSUME Recorded, NEW w, w.op = "primary", device \in DOMAIN devices,
         devices' = Devices(w)
  PROVE  /\ devices' \in Seq(Range(devices')) /\ DOMAIN devices' = DOMAIN devices
         /\ \A i \in DOMAIN devices : i # device => devices'[i] = devices[i]
         /\ DOMAIN devices'[device] = DOMAIN devices[device]
         /\ devices'[device].ifs = devices[device].ifs
         /\ devices'[device].primary = w.on
<1> DEFINE d == devices[device]
<1>1. devices' = [devices EXCEPT ![device].primary = w.on]
  BY DEF Devices
<1>2. devices' = [i \in DOMAIN devices |-> devices'[i]]
  BY <1>1
<1>3. \A i \in DOMAIN devices : i # device => devices'[i] = devices[i]
  BY <1>1
<1>4. devices'[device] = [d EXCEPT !.primary = w.on]
  BY <1>1
<1>5. DOMAIN d = {"name", "serial", "wrong", "primary", "ifs"}
  BY DEF Recorded
<1> HIDE DEF d
<1>6. /\ DOMAIN [d EXCEPT !.primary = w.on] = DOMAIN d
      /\ [d EXCEPT !.primary = w.on].ifs = d.ifs
      /\ [d EXCEPT !.primary = w.on].primary = w.on
  BY <1>5
<1>7. devices' \in Seq(Range(devices')) /\ DOMAIN devices' = DOMAIN devices
  BY <1>2, Corrected
<1> QED
  BY <1>3, <1>4, <1>6, <1>7 DEF d

(* A device that is created comes last and has its type's interfaces.      *)
LEMMA DeviceComes ==
  ASSUME Recorded, NEW w, w.op = "device", devices' = Devices(w)
  PROVE  /\ devices' \in Seq(Range(devices')) /\ DOMAIN devices' = 1 .. (Len(devices) + 1)
         /\ Len(devices) \in Nat /\ DOMAIN devices = 1 .. Len(devices)
         /\ \A i \in DOMAIN devices : devices'[i] = devices[i]
         /\ DOMAIN devices'[Len(devices) + 1] = {"name", "serial", "wrong", "primary", "ifs"}
         /\ devices'[Len(devices) + 1].primary = NoIp
         /\ devices'[Len(devices) + 1].ifs = [n \in Reported.template |-> Bare]
<1> DEFINE d == [name |-> Reported.name, serial |-> Reported.serial,
                 wrong |-> FieldsOf(Reported.kind) \ {"tag", "role"},
                 primary |-> NoIp, ifs |-> [n \in Reported.template |-> Bare]]
<1>1. devices' = Append(devices, d)
  BY DEF Devices
<1>2. /\ DOMAIN d = {"name", "serial", "wrong", "primary", "ifs"}
      /\ d.primary = NoIp /\ d.ifs = [n \in Reported.template |-> Bare]
  OBVIOUS
<1> HIDE DEF d
<1> QED
  BY <1>1, <1>2, Appended

(* Whatever is written, NetBox stays in order: interfaces refer to each    *)
(* other, and a primary IP is on its own device.                           *)
LEMMA AddressesAfter ==
  ASSUME NEW w, addresses' = Addresses(w)
  PROVE  /\ DOMAIN addresses' = DOMAIN addresses
         /\ w.op \notin {"address", "assign"} => addresses' = addresses
         /\ \A a \in DOMAIN addresses : a # w.on => addresses'[a] = addresses[a]
         /\ w.op \in {"address", "assign"} /\ w.on \in DOMAIN addresses =>
              addresses'[w.on] = <<device, IpTarget>>
BY DEF Addresses

(* An address on an interface of the device is the device's own.           *)
LEMMA PlaceOf ==
  ASSUME Recorded, device \in DOMAIN devices, NEW place, place = <<device, IpTarget>>
  PROVE  place \notin Places /\ place[1] = device
<1>1. device # NoDevice
  BY DeviceThere DEF NoDevice, Preview
<1>2. place[1] = device
  OBVIOUS
<1>3. Absent[1] = NoDevice /\ Unassigned[1] = NoDevice /\ Unfit[1] = NoDevice
  BY DEF Absent, Unassigned, Unfit
<1> QED
  BY <1>1, <1>2, <1>3 DEF Places

(* So is any other of a device's interfaces.                               *)
LEMMA PlaceApart ==
  ASSUME Recorded, NEW i \in DOMAIN devices, NEW name, NEW place, place = <<i, name>>
  PROVE  place \notin Places /\ place[1] = i
<1>1. i # NoDevice
  BY DEF Recorded, NoDevice
<1>2. place[1] = i
  OBVIOUS
<1>3. Absent[1] = NoDevice /\ Unassigned[1] = NoDevice /\ Unfit[1] = NoDevice
  BY DEF Absent, Unassigned, Unfit
<1> QED
  BY <1>1, <1>2, <1>3 DEF Places

(* A write leaves NetBox's records whole.                                  *)
LEMMA CarryingRecorded ==
  ASSUME Located, Recorded, Queued, queue # <<>>, NEW w, w = Head(queue), Carried(w), report' = report
  PROVE  Recorded'
<1>1. devices' = Devices(w) /\ addresses' = Addresses(w)
  BY DEF Carried
<1>2. DOMAIN addresses' = DOMAIN addresses
  BY <1>1, AddressesAfter
<1>3. w.op \in Ops[stage] /\ stage \in DOMAIN Ops
  BY HeadIs DEF Located
<1>4. \A d \in Range(report') : d.ip \in DOMAIN addresses' \cup {NoIp}
  BY <1>2 DEF Recorded
<1> DEFINE Good(d) ==
      /\ DOMAIN d = {"name", "serial", "wrong", "primary", "ifs"}
      /\ d.primary \in DOMAIN addresses \cup {NoIp}
      /\ \A n \in DOMAIN d.ifs : {d.ifs[n].lag, d.ifs[n].bridge} \ {NoName} \subseteq DOMAIN d.ifs
<1>5. \A i \in DOMAIN devices : Good(devices[i])
  BY DEF Recorded
<1>6. devices' \in Seq(Range(devices')) /\ \A i \in DOMAIN devices' : Good(devices'[i])
  <2>1. CASE Quiet(w.op)
    <3>1. /\ devices' \in Seq(Range(devices')) /\ DOMAIN devices' = DOMAIN devices
          /\ \A i \in DOMAIN devices : /\ DOMAIN devices'[i] = DOMAIN devices[i]
                                       /\ devices'[i].ifs = devices[i].ifs
                                       /\ devices'[i].primary = devices[i].primary
      BY <1>1, <2>1, QuietLeaves
    <3> QED
      BY <1>5, <3>1
  <2>2. CASE w.op \in {"interface", "link"}
    <3>1. device \in DOMAIN devices
      BY <2>2, HeadIs DEF Linking
    <3> DEFINE old == devices[device].ifs
               new == devices'[device].ifs
               link == [lag |-> w.lag, bridge |-> w.bridge]
    <3>2. /\ devices' \in Seq(Range(devices')) /\ DOMAIN devices' = DOMAIN devices
          /\ \A i \in DOMAIN devices : i # device => devices'[i] = devices[i]
          /\ DOMAIN devices'[device] = DOMAIN devices[device]
          /\ devices'[device].primary = devices[device].primary
          /\ DOMAIN new = DOMAIN old \cup {w.on}
          /\ new[w.on] = link
          /\ \A n \in DOMAIN old : n # w.on => new[n] = old[n]
      BY <1>1, <2>2, <3>1, InterfaceLeaves
    <3>3. {w.lag, w.bridge} \ {NoName} \subseteq DOMAIN old
      BY <2>2, <3>1, HeadPossible, DeviceThere DEF Possible
    <3>4. \A n \in DOMAIN old : {old[n].lag, old[n].bridge} \ {NoName} \subseteq DOMAIN old
      BY <1>5, <3>1
    <3> HIDE DEF old, new
    <3>5. DOMAIN new = DOMAIN old \cup {w.on}
      BY <3>2
    <3>6. ASSUME NEW n \in DOMAIN new
          PROVE  {new[n].lag, new[n].bridge} \ {NoName} \subseteq DOMAIN new
      <4>1. CASE n = w.on
        <5>1. new[n] = link
          BY <3>2, <3>5, <4>1
        <5> QED
          BY <3>3, <3>5, <5>1
      <4>2. CASE n # w.on
        <5>1. new[n] = old[n] /\ n \in DOMAIN old
          BY <3>2, <3>5, <4>2
        <5> QED
          BY <3>4, <3>5, <5>1
      <4> QED
        BY <4>1, <4>2
    <3>7. Good(devices'[device])
      BY <1>5, <3>1, <3>2, <3>6 DEF new
    <3> HIDE DEF Good
    <3> QED
      BY <1>5, <3>2, <3>7
  <2>3. CASE w.op = "primary"
    <3>1. device \in DOMAIN devices
      BY <2>3, HeadIs DEF Linking
    <3>2. /\ devices' \in Seq(Range(devices')) /\ DOMAIN devices' = DOMAIN devices
          /\ \A i \in DOMAIN devices : i # device => devices'[i] = devices[i]
          /\ DOMAIN devices'[device] = DOMAIN devices[device]
          /\ devices'[device].ifs = devices[device].ifs
          /\ devices'[device].primary = w.on
      BY <1>1, <2>3, <3>1, PrimaryLeaves
    <3>3. w.on \in DOMAIN addresses
      <4>1. <<"address", w.on>> \in Needs(w)
        BY <2>3 DEF Needs
      <4> QED
        BY <4>1, HeadIs, HeldIs
    <3>4. Good(devices'[device])
      BY <1>5, <3>1, <3>2, <3>3
    <3> HIDE DEF Good
    <3> QED
      BY <1>5, <3>2, <3>4
  <2>4. CASE w.op = "device"
    <3> DEFINE new == Len(devices) + 1
    <3>1. /\ devices' \in Seq(Range(devices')) /\ DOMAIN devices' = 1 .. new
          /\ Len(devices) \in Nat /\ DOMAIN devices = 1 .. Len(devices)
          /\ \A i \in DOMAIN devices : devices'[i] = devices[i]
          /\ DOMAIN devices'[new] = {"name", "serial", "wrong", "primary", "ifs"}
          /\ devices'[new].primary = NoIp
          /\ devices'[new].ifs = [n \in Reported.template |-> Bare]
      BY <1>1, <2>4, DeviceComes
    <3>2. \A i \in DOMAIN devices' : i \in DOMAIN devices \/ i = new
      BY <3>1
    <3> HIDE DEF new
    <3>3. ASSUME NEW n \in DOMAIN devices'[new].ifs
          PROVE  {devices'[new].ifs[n].lag, devices'[new].ifs[n].bridge} \ {NoName} = {}
      <4>1. devices'[new].ifs[n] = Bare
        BY <3>1, <3>3
      <4> QED
        BY <4>1 DEF Bare
    <3>4. Good(devices'[new])
      BY <3>1, <3>3
    <3> HIDE DEF Good
    <3> QED
      BY <1>5, <3>1, <3>2, <3>4
  <2> QED
    BY <1>3, <2>1, <2>2, <2>3, <2>4, OpsOf DEF Quiet
<1> QED
  BY <1>2, <1>4, <1>6 DEF Recorded

(* A write leaves every primary IP on its own device.                      *)
LEMMA CarryingPrimary ==
  ASSUME Located, Recorded, Queued, PrimaryIsOwn,
         queue # <<>>, NEW w, w = Head(queue), Carried(w)
  PROVE  PrimaryIsOwn'
<1>1. devices' = Devices(w) /\ addresses' = Addresses(w)
  BY DEF Carried
<1>2. w.op \in Ops[stage] /\ stage \in DOMAIN Ops
  BY HeadIs DEF Located
<1> DEFINE At(place, i) == place \notin Places /\ place[1] = i
<1>3. \A i \in DOMAIN devices : devices[i].primary # NoIp => At(addresses[devices[i].primary], i)
  BY DEF PrimaryIsOwn
<1>4. CASE Quiet(w.op)
  <2>1. /\ DOMAIN devices' = DOMAIN devices
        /\ \A i \in DOMAIN devices : devices'[i].primary = devices[i].primary
    BY <1>1, <1>4, QuietLeaves
  <2>2. ASSUME NEW i \in DOMAIN devices, devices[i].primary # NoIp
        PROVE  At(addresses'[devices[i].primary], i)
    <3> DEFINE ip == devices[i].primary
    <3>1. ip \in DOMAIN addresses
      BY <2>2 DEF Recorded
    <3>2. CASE w.op \in {"address", "assign"} /\ ip = w.on
      <4>1. device \in DOMAIN devices /\ Proper(w)
        BY <3>2, HeadIs DEF Linking
      <4>2. addresses[ip] \in Places \/ Own(ip)
        BY <3>2, <4>1 DEF Proper
      <4>3. device = i
        BY <1>3, <2>2, <4>2 DEF Own
      <4>4. addresses'[ip] = <<device, IpTarget>>
        BY <1>1, <3>1, <3>2, AddressesAfter
      <4>5. addresses'[ip] \notin Places /\ addresses'[ip][1] = device
        BY <4>1, <4>4, PlaceOf
      <4> QED
        BY <4>3, <4>5
    <3>3. CASE ~(w.op \in {"address", "assign"} /\ ip = w.on)
      <4>1. addresses'[ip] = addresses[ip]
        BY <1>1, <3>1, <3>3, AddressesAfter
      <4> QED
        BY <1>3, <2>2, <4>1
    <3> QED
      BY <3>2, <3>3
  <2> QED
    BY <2>1, <2>2 DEF PrimaryIsOwn
<1>5. CASE w.op \in {"interface", "link"}
  <2>1. device \in DOMAIN devices
    BY <1>5, HeadIs DEF Linking
  <2> DEFINE old == devices[device].ifs
             new == devices'[device].ifs
             link == [lag |-> w.lag, bridge |-> w.bridge]
  <2>4. /\ devices' \in Seq(Range(devices')) /\ DOMAIN devices' = DOMAIN devices
        /\ \A j \in DOMAIN devices : j # device => devices'[j] = devices[j]
        /\ DOMAIN devices'[device] = DOMAIN devices[device]
        /\ devices'[device].primary = devices[device].primary
        /\ DOMAIN new = DOMAIN old \cup {w.on}
        /\ new[w.on] = link
        /\ \A n \in DOMAIN old : n # w.on => new[n] = old[n]
    BY <1>1, <1>5, <2>1, InterfaceLeaves
  <2>2. /\ DOMAIN devices' = DOMAIN devices
        /\ \A i \in DOMAIN devices : devices'[i].primary = devices[i].primary
    BY <2>4
  <2>3. addresses' = addresses
    BY <1>1, <1>5, AddressesAfter
  <2> QED
    BY <1>3, <2>2, <2>3 DEF PrimaryIsOwn
<1>6. CASE w.op = "primary"
  <2>1. device \in DOMAIN devices
    BY <1>6, HeadIs DEF Linking
  <2>2. /\ DOMAIN devices' = DOMAIN devices
        /\ \A i \in DOMAIN devices : i # device => devices'[i] = devices[i]
        /\ devices'[device].primary = w.on
    BY <1>1, <1>6, <2>1, PrimaryLeaves
  <2>3. addresses' = addresses
    BY <1>1, <1>6, AddressesAfter
  <2>4. Own(w.on)
    <3>1. <<"address", w.on>> \in Needs(w)
      BY <1>6 DEF Needs
    <3> QED
      BY <3>1, HeadIs, HeldIs
  <2> QED
    BY <1>3, <2>2, <2>3, <2>4 DEF PrimaryIsOwn, Own
<1>7. CASE w.op = "device"
  <2>1. /\ DOMAIN devices' = 1 .. (Len(devices) + 1)
        /\ Len(devices) \in Nat /\ DOMAIN devices = 1 .. Len(devices)
        /\ \A i \in DOMAIN devices : devices'[i] = devices[i]
        /\ devices'[Len(devices) + 1].primary = NoIp
    BY <1>1, <1>7, DeviceComes
  <2>2. \A i \in DOMAIN devices' : i \in DOMAIN devices \/ i = Len(devices) + 1
    BY <2>1
  <2>3. addresses' = addresses
    BY <1>1, <1>7, AddressesAfter
  <2> QED
    BY <1>3, <2>1, <2>2, <2>3 DEF PrimaryIsOwn
<1> QED
  BY <1>2, <1>4, <1>5, <1>6, <1>7, OpsOf DEF Quiet

(* What is held after a write: what was, and what the write gives.         *)
LEMMA HeldAfter ==
  ASSUME Located, Recorded, Queued, queue # <<>>, NEW w, w = Head(queue),
         w.op # "device", Carried(w), UNCHANGED <<report, at, device>>
  PROVE  Held' = Held \cup Gives(w)
<1>1. devices' = Devices(w) /\ addresses' = Addresses(w)
  BY DEF Carried
<1>2. w.op \in Ops[stage] /\ stage \in DOMAIN Ops
  BY HeadIs DEF Located
<1> DEFINE A == {<<"address", ip>> : ip \in {a \in DOMAIN addresses : Own(a)}}
           B == IF BondIsIn THEN {BondIn} ELSE {}
           C == If(DOMAIN This.ifs)
<1>3. Held = C \cup B \cup A /\ Held' = C' \cup B' \cup A'
  BY DEF Held
<1>4. w.op \notin {"address", "assign"} => A' = A
  <2>1. w.op \notin {"address", "assign"} => addresses' = addresses
    BY <1>1, AddressesAfter
  <2> QED
    BY <2>1 DEF Own
<1>5. This'.ifs = This.ifs => C' = C /\ B' = B
  BY DEF BondIsIn, Has
<1>6. CASE Quiet(w.op)
  <2>1. This'.ifs = This.ifs
    <3>1. CASE device = Preview
      BY <3>1, HeadIs DEF This, Reported
    <3>2. CASE device # Preview
      <4>1. device \in DOMAIN devices
        BY <3>2 DEF Located
      <4>2. devices'[device].ifs = devices[device].ifs
        BY <1>1, <1>6, <4>1, QuietLeaves
      <4> QED
        BY <3>2, <4>2 DEF This
    <3> QED
      BY <3>1, <3>2
  <2>2. CASE w.op \in {"address", "assign"}
    <3>1. device \in DOMAIN devices /\ Proper(w)
      BY <2>2, HeadIs DEF Linking
    <3>2. w.on \in DOMAIN addresses
      BY <2>2, <3>1 DEF Proper
    <3>3. /\ DOMAIN addresses' = DOMAIN addresses
          /\ \A a \in DOMAIN addresses : a # w.on => addresses'[a] = addresses[a]
          /\ addresses'[w.on] = <<device, IpTarget>>
      BY <1>1, <2>2, <3>2, AddressesAfter
    <3>4. addresses'[w.on] \notin Places /\ addresses'[w.on][1] = device
      BY <3>1, <3>3, PlaceOf
    <3>5. \A a \in DOMAIN addresses : Own(a)' <=> a = w.on \/ Own(a)
      BY <3>3, <3>4 DEF Own
    <3>6. A' = A \cup {<<"address", w.on>>}
      BY <3>2, <3>3, <3>5
    <3>7. Gives(w) = {<<"address", w.on>>}
      BY <2>2 DEF Gives
    <3> HIDE DEF A, B, C
    <3> QED
      BY <1>3, <1>5, <2>1, <3>6, <3>7
  <2>3. CASE w.op \notin {"address", "assign"}
    <3>1. Gives(w) = {}
      BY <1>6, <2>3 DEF Gives, Quiet
    <3> HIDE DEF A, B, C
    <3> QED
      BY <1>3, <1>4, <1>5, <2>1, <2>3, <3>1
  <2> QED
    BY <2>2, <2>3
<1>7. CASE w.op \in {"interface", "link"}
  <2>1. device \in DOMAIN devices /\ Proper(w)
    BY <1>7, HeadIs DEF Linking
  <2> DEFINE old == devices[device].ifs
             new == devices'[device].ifs
             link == [lag |-> w.lag, bridge |-> w.bridge]
  <2>2. /\ DOMAIN new = DOMAIN old \cup {w.on}
        /\ new[w.on] = link
        /\ \A n \in DOMAIN old : n # w.on => new[n] = old[n]
    BY <1>1, <1>7, <2>1, InterfaceLeaves
  <2>3. This.ifs = old /\ This'.ifs = new
    <3>1. device # Preview
      BY <2>1, DeviceThere
    <3> QED
      BY <3>1 DEF This
  <2>4. C = If(DOMAIN old) /\ C' = If(DOMAIN new)
    BY <2>3
  <2>5. /\ BondIsIn <=> "bond0" \in DOMAIN old /\ old["bond0"].bridge = "br0"
        /\ BondIsIn' <=> "bond0" \in DOMAIN new /\ new["bond0"].bridge = "br0"
    BY <2>3 DEF BondIsIn, Has
  <2>6. w.op = "link" => w.on \in DOMAIN old
    <3> SUFFICES ASSUME w.op = "link" PROVE w.on \in DOMAIN old
      OBVIOUS
    <3>1. w.on # NoName
      BY <2>1, PortNames DEF Proper, NoName
    <3>2. <<"interface", w.on>> \in Needs(w)
      BY <3>1 DEF Needs, If
    <3>3. Has(w.on)
      BY <3>2, HeadIs, HeldIs
    <3> QED
      BY <2>3, <3>3 DEF Has
  <2> HIDE DEF old, new
  <2>7. C' = C \cup (IF w.op = "interface" THEN If({w.on}) ELSE {})
    <3>1. DOMAIN new = DOMAIN old \cup {w.on}
      BY <2>2
    <3>2. CASE w.op = "interface"
      BY <2>4, <3>1, <3>2 DEF If
    <3>3. CASE w.op = "link"
      <4>1. DOMAIN new = DOMAIN old
        BY <2>6, <3>1, <3>3
      <4> QED
        BY <2>4, <3>3, <4>1
    <3> QED
      BY <1>7, <3>2, <3>3
  <2>8. BondIsIn' <=> BondIsIn \/ w.on = "bond0"
    <3>1. CASE w.on = "bond0"
      <4>1. w.bridge = "br0"
        BY <1>7, <2>1, <3>1, PortNames DEF Proper
      <4>2. "bond0" \in DOMAIN new /\ new["bond0"] = link
        BY <2>2, <3>1
      <4> QED
        BY <2>5, <3>1, <4>1, <4>2
    <3>2. CASE w.on # "bond0"
      <4>1. "bond0" \in DOMAIN new <=> "bond0" \in DOMAIN old
        BY <2>2, <3>2
      <4>2. "bond0" \in DOMAIN old => new["bond0"] = old["bond0"]
        BY <2>2, <3>2
      <4> QED
        BY <2>5, <3>2, <4>1, <4>2
    <3> QED
      BY <3>1, <3>2
  <2>9. B' = B \cup (IF w.on = "bond0" THEN {BondIn} ELSE {})
    BY <2>8
  <2>10. Gives(w) = (IF w.op = "interface" THEN If({w.on}) ELSE {})
                      \cup (IF w.on = "bond0" THEN {BondIn} ELSE {})
    BY <1>7 DEF Gives
  <2>11. A' = A
    BY <1>4, <1>7
  <2> HIDE DEF A, B, C
  <2> QED
    BY <1>3, <2>7, <2>9, <2>10, <2>11
<1>8. CASE w.op = "primary"
  <2>1. device \in DOMAIN devices
    BY <1>8, HeadIs DEF Linking
  <2>2. devices'[device].ifs = devices[device].ifs
    BY <1>1, <1>8, <2>1, PrimaryLeaves
  <2>3. This'.ifs = This.ifs
    <3>1. device # Preview
      BY <2>1, DeviceThere
    <3> QED
      BY <2>2, <3>1 DEF This
  <2>4. Gives(w) = {}
    BY <1>8 DEF Gives
  <2> HIDE DEF A, B, C
  <2> QED
    BY <1>3, <1>4, <1>5, <1>8, <2>3, <2>4
<1> QED
  BY <1>2, <1>6, <1>7, <1>8, OpsOf DEF Quiet

(* Nor does a write take a port off its bridge.                            *)
LEMMA CarryingAttached ==
  ASSUME Located, Recorded, Queued, queue # <<>>, NEW w, w = Head(queue), Carried(w),
         NEW i \in DOMAIN devices, NEW port \in Ports, Attached(devices[i], port)
  PROVE  Attached(devices'[i], port)
<1>1. devices' = Devices(w)
  BY DEF Carried
<1>2. w.op \in Ops[stage] /\ stage \in DOMAIN Ops
  BY HeadIs DEF Located
<1>3. devices'[i].ifs = devices[i].ifs => Attached(devices'[i], port)
  BY DEF Attached
<1>4. CASE Quiet(w.op)
  BY <1>1, <1>3, <1>4, QuietLeaves
<1>5. CASE w.op \in {"interface", "link"}
  <2>1. device \in DOMAIN devices /\ Proper(w) /\ Possible(w)
    BY <1>5, HeadIs, HeadPossible DEF Linking
  <2> DEFINE old == devices[device].ifs
             new == devices'[device].ifs
             link == [lag |-> w.lag, bridge |-> w.bridge]
  <2>2. /\ devices' \in Seq(Range(devices')) /\ DOMAIN devices' = DOMAIN devices
        /\ \A j \in DOMAIN devices : j # device => devices'[j] = devices[j]
        /\ DOMAIN devices'[device] = DOMAIN devices[device]
        /\ devices'[device].primary = devices[device].primary
        /\ DOMAIN new = DOMAIN old \cup {w.on}
        /\ new[w.on] = link
        /\ \A n \in DOMAIN old : n # w.on => new[n] = old[n]
    BY <1>1, <1>5, <2>1, InterfaceLeaves
  <2>3. CASE i # device
    BY <1>3, <2>2, <2>3
  <2>4. CASE i = device
    <3>1. /\ DOMAIN new = DOMAIN old \cup {w.on}
          /\ new[w.on] = link
          /\ \A n \in DOMAIN old : n # w.on => new[n] = old[n]
      BY <2>2
    <3>2. This.ifs = old
      BY <2>1, DeviceThere
    <3>3. /\ {port, "br0"} \subseteq DOMAIN old
          /\ \/ old[port].bridge = "br0"
             \/ /\ old[port].lag = "bond0" /\ "bond0" \in DOMAIN old
                /\ old["bond0"].bridge = "br0"
      BY <2>4 DEF Attached
    <3>4. w.op = "interface" => w.on \notin DOMAIN old
      BY <2>1, <3>2 DEF Possible, Has
    <3>5. w.op = "link" => \/ w.on \in Ports /\ w.bridge = "br0"
                           \/ w.on \in Ports /\ w.bridge = NoName /\ w.lag = "bond0"
                           \/ w.on = "bond0" /\ w.bridge = "br0" /\ w.lag = NoName
      BY <2>1 DEF Proper
    <3>6. w.op = "link" /\ w.bridge = NoName => "bond0" \in DOMAIN old /\ old["bond0"].bridge = "br0"
      <4> SUFFICES ASSUME w.op = "link", w.bridge = NoName
                   PROVE  "bond0" \in DOMAIN old /\ old["bond0"].bridge = "br0"
        OBVIOUS
      <4>1. BondIn \in Needs(w)
        BY DEF Needs, NoName
      <4>2. BondIsIn
        BY <4>1, HeadIs, HeldIs
      <4> QED
        BY <3>2, <4>2 DEF BondIsIn, Has
    <3> HIDE DEF old, new
    <3>7. /\ {port, "br0"} \subseteq DOMAIN new
          /\ \/ new[port].bridge = "br0"
             \/ /\ new[port].lag = "bond0" /\ "bond0" \in DOMAIN new
                /\ new["bond0"].bridge = "br0"
      <4>1. DOMAIN new = DOMAIN old \cup {w.on}
        BY <3>1
      <4>2. \A n \in DOMAIN old : n # w.on => new[n] = old[n]
        BY <3>1
      <4>3. new[w.on] = link
        BY <3>1
      <4>4. link.lag = w.lag /\ link.bridge = w.bridge
        OBVIOUS
      <4> HIDE DEF link
      <4>5. CASE w.op = "interface"
        <5>1. \A n \in DOMAIN old : new[n] = old[n]
          BY <3>4, <4>2, <4>5
        <5> QED
          BY <3>3, <4>1, <5>1
      <4>6. CASE w.op = "link" /\ w.on = "bond0"
        <5>1. w.bridge = "br0"
          BY <3>5, <4>6, PortNames
        <5>2. new["bond0"].bridge = "br0"
          BY <4>3, <4>4, <4>6, <5>1
        <5>3. port # w.on
          BY <4>6, PortNames
        <5>4. new[port] = old[port]
          BY <3>3, <4>2, <5>3
        <5> QED
          BY <3>3, <4>1, <4>6, <5>2, <5>4
      <4>7. CASE w.op = "link" /\ w.on # "bond0" /\ w.on # port
        <5>1. new[port] = old[port]
          BY <3>3, <4>2, <4>7
        <5>2. "bond0" \in DOMAIN old => new["bond0"] = old["bond0"]
          BY <4>2, <4>7
        <5> QED
          BY <3>3, <4>1, <5>1, <5>2
      <4>8. CASE w.op = "link" /\ w.on = port /\ w.bridge = "br0"
        BY <3>3, <4>1, <4>3, <4>4, <4>8
      <4>9. CASE w.op = "link" /\ w.on = port /\ w.bridge = NoName /\ w.lag = "bond0"
        <5>1. "bond0" \in DOMAIN old /\ old["bond0"].bridge = "br0"
          BY <3>6, <4>9
        <5>2. new["bond0"] = old["bond0"]
          BY <4>2, <4>9, <5>1, PortNames
        <5> QED
          BY <3>3, <4>1, <4>3, <4>4, <4>9, <5>1, <5>2
      <4> QED
        BY <1>5, <3>5, <4>5, <4>6, <4>7, <4>8, <4>9, PortNames
    <3> QED
      BY <2>4, <3>7 DEF Attached, new
  <2> QED
    BY <2>3, <2>4
<1>6. CASE w.op = "primary"
  <2>1. device \in DOMAIN devices
    BY <1>6, HeadIs DEF Linking
  <2>2. /\ \A j \in DOMAIN devices : j # device => devices'[j] = devices[j]
        /\ devices'[device].ifs = devices[device].ifs
    BY <1>1, <1>6, <2>1, PrimaryLeaves
  <2> QED
    BY <1>3, <2>2
<1>7. CASE w.op = "device"
  <2>1. devices'[i] = devices[i]
    BY <1>1, <1>7, DeviceComes
  <2> QED
    BY <1>3, <2>1
<1> QED
  BY <1>2, <1>4, <1>5, <1>6, <1>7, OpsOf DEF Quiet

-----------------------------------------------------------------------------
(* Every step keeps the invariant.                                         *)
LEMMA ReportIs ==
  ASSUME Located
  PROVE  /\ report \in Seq(Range(report)) /\ Len(report) \in Nat /\ DOMAIN report = 1 .. Len(report)
         /\ IsFiniteSet(UNION {d.ssids : d \in Range(report)})
<1>1. report \in Seq(Range(report)) /\ IsFiniteSet(UNION {d.ssids : d \in Range(report)})
  BY ReportsAssumption DEF Located
<1> QED
  BY <1>1

(* A reported device is updated only when NetBox has it.                   *)
LEMMA ClassifyIs ==
  ASSUME NEW d
  PROVE  LET m == Classify(d) IN
         /\ m.action \in {"update", "create", "blocked"}
         /\ m.action = "update" => m.id \in Existing(devices, d) /\ m.id \in DOMAIN devices
         /\ m.action # "update" => m.id = Preview
<1> DEFINE found == Existing(devices, d)
<1>1. found \subseteq DOMAIN devices
  BY DEF Existing
<1> HIDE DEF found
<1>2. CASE found # {}
  <2>1. Classify(d) = [action |-> "update", id |-> CHOOSE i \in found : TRUE]
    BY <1>2 DEF Classify, found
  <2>2. (CHOOSE i \in found : TRUE) \in found
    BY <1>2
  <2> QED
    BY <1>1, <2>1, <2>2 DEF found
<1>3. CASE found = {}
  <2>1. Classify(d) = [action |-> IF d.fits THEN "create" ELSE "blocked", id |-> Preview]
    BY <1>3 DEF Classify, found
  <2> QED
    BY <2>1
<1> QED
  BY <1>2, <1>3

(* The program starts in the invariant.                                    *)
LEMMA InitIInv ==
  ASSUME Init
  PROVE  IInv
<1>1. PICK nb \in NetBoxes : devices = nb.devices /\ addresses = nb.addresses
  BY DEF Init
<1>2. Recorded
  <2>1. report \in Reports
    BY DEF Init
  <2> QED
    BY <1>1, <2>1, NetBoxesAssumption DEF Recorded
<1>3. PrimaryIsOwn
  BY <1>1, NetBoxesAssumption DEF PrimaryIsOwn
<1>4. Located
  <2>1. stage = "start" /\ at = 1 /\ ended = <<>> /\ device = Preview /\ report \in Reports /\ queue = <<>>
    BY DEF Init
  <2>2. "start" \in DOMAIN Ops
    BY DEF Ops
  <2>3. <<>> \in Seq({"ok", "drift", "changed", "partial", "error"})
    OBVIOUS
  <2> QED
    BY <2>1, <2>2, <2>3 DEF Located, OnDevice
<1>5. Queued
  <2>1. queue = <<>> /\ stage = "start"
    BY DEF Init
  <2>2. Ready(queue, Held)
    BY <2>1, Empty DEF Ready
  <2> QED
    BY <2>1, <2>2, Empty DEF Queued, IsSeq
<1>6. Stunting /\ Excused /\ ResumesAlone
  BY DEF Init, Stunting, OnDevice, Excused, ResumesAlone
<1> QED
  BY <1>2, <1>3, <1>4, <1>5, <1>6 DEF IInv

(* Steps that leave NetBox and the device of the run alone.                *)
LEMMA Steady ==
  ASSUME UNCHANGED <<report, devices, addresses, at, device>>
  PROVE  /\ Held' = Held
         /\ \A v : Proper(v)' <=> Proper(v)
         /\ Recorded <=> Recorded'
         /\ PrimaryIsOwn <=> PrimaryIsOwn'
<1>1. This' = This
  BY DEF This, Reported
<1>2. \A a : Own(a)' <=> Own(a)
  BY DEF Own
<1>3. Held' = Held
  BY <1>1, <1>2 DEF Held, BondIsIn, Has
<1>4. \A v : Proper(v)' <=> Proper(v)
  BY <1>2 DEF Proper
<1> QED
  BY <1>3, <1>4 DEF Recorded, PrimaryIsOwn

(* An empty queue is a queue of any stage.                                 *)
LEMMA NothingQueued ==
  ASSUME queue' = <<>>
  PROVE  Queued'
<1>1. Ready(queue', Held')
  BY Empty DEF Ready
<1> QED
  BY <1>1, Empty DEF Queued, IsSeq

(* A stage that follows another.                                           *)
LEMMA Enqueued ==
  ASSUME NEW writes, NEW nextStage, Enqueue(writes, nextStage),
         apply => Fits(writes, Held, Ops[nextStage]),
         UNCHANGED <<report, modes, devices, addresses, at, device, ended>>
  PROVE  Queued'
<1>1. CASE apply
  <2>1. queue' = writes /\ stage' = nextStage
    BY <1>1 DEF Enqueue
  <2>2. apply'
    BY <1>1 DEF apply
  <2>3. IsSeq(writes) /\ \A k \in DOMAIN writes : writes[k].op \in Ops[nextStage] /\ Proper(writes[k])
    BY <1>1 DEF Fits
  <2>4. (\A k \in DOMAIN queue : queue[k].op \in Ops[stage] /\ Proper(queue[k]))'
    BY <2>1, <2>3 DEF Proper, Own
  <2>5. Ready(queue', Held')
    BY <1>1, <2>1, Steady DEF Fits
  <2>6. (queue \in Seq(Range(queue)))'
    BY <2>1, <2>3 DEF IsSeq
  <2>7. (stage # "start" => apply \/ queue = <<>>)'
    BY <2>2
  <2> QED
    BY <2>4, <2>5, <2>6, <2>7 DEF Queued
<1>2. CASE ~apply
  BY <1>2, NothingQueued DEF Enqueue
<1> QED
  BY <1>1, <1>2

(* Where a run is, step by step.                                           *)
LEMMA StatusIs == Status \in {"ok", "drift", "changed", "partial", "error"}
BY DEF Status

(* The stages of a run.                                                    *)
LEMMA Stages == DOMAIN Ops = {"start", "tag", "lans", "device", "identity", "bridge", "ip", "radio", "next"}
BY DEF Ops

(* Each step keeps the run at a stage of a device of its report.           *)
LEMMA NextLocated ==
  ASSUME IInv, [Next]_vars
  PROVE  Located'
<1> USE Stages
<1>0. Located /\ Recorded /\ Queued
  BY DEF IInv
<1>1. ASSUME StartRun PROVE Located'
  <2>1. /\ matches' = [i \in 1..Len(report) |-> Classify(report[i])]
        /\ at' = 1 /\ stage' = "tag" /\ UNCHANGED <<report, devices, device, queue, ended>>
    BY <1>1 DEF StartRun, netbox
  <2>2. ASSUME NEW i \in DOMAIN report
        PROVE  /\ matches'[i].action \in {"update", "create", "blocked"}
               /\ matches'[i].action = "update" => matches'[i].id \in DOMAIN devices
               /\ matches'[i].action # "update" => matches'[i].id = Preview
    <3>1. matches'[i] = Classify(report[i])
      BY <1>0, <2>1, ReportIs
    <3> QED
      BY <3>1, ClassifyIs
  <2>3. (stage # "start" =>
           \A i \in DOMAIN report :
             /\ matches[i].action \in {"update", "create", "blocked"}
             /\ matches[i].action = "update" => matches[i].id \in DOMAIN devices
             /\ matches[i].action # "update" => matches[i].id = Preview)'
    BY <2>1, <2>2
  <2>4. (/\ report \in Reports /\ stage \in DOMAIN Ops /\ at \in Nat \ {0}
         /\ ended \in Seq({"ok", "drift", "changed", "partial", "error"})
         /\ device \in {Preview} \cup DOMAIN devices)'
    BY <1>0, <2>1 DEF Located
  <2>5. stage' \notin OnDevice
    BY <2>1 DEF OnDevice
  <2> QED
    BY <2>1, <2>3, <2>4, <2>5 DEF Located
<1>2. ASSUME SyncTag PROVE Located'
  BY <1>0, <1>2 DEF SyncTag, Enqueue, Located, OnDevice, netbox, apply
<1>3. ASSUME SyncLans PROVE Located'
  BY <1>0, <1>3 DEF SyncLans, Enqueue, Located, OnDevice, netbox, apply
<1>4. ASSUME StartDevice PROVE Located'
  <2>1. /\ stage = "device" /\ queue = <<>> /\ at <= Len(report) /\ device' = matches[at].id
        /\ UNCHANGED <<report, modes, devices, matches, at, ended>>
    BY <1>4 DEF StartDevice, netbox
  <2>2. at \in DOMAIN report
    BY <1>0, <2>1, ReportIs DEF Located
  <2>3. /\ matches[at].action \in {"update", "create", "blocked"}
        /\ matches[at].action = "update" => matches[at].id \in DOMAIN devices
        /\ matches[at].action # "update" => matches[at].id = Preview
    BY <1>0, <2>1, <2>2 DEF Located
  <2>4. CASE matches[at].action = "blocked"
    <3>1. stage' = "next"
      BY <1>4, <2>4 DEF StartDevice
    <3> QED
      BY <1>0, <2>1, <2>2, <2>3, <2>4, <3>1 DEF Located, OnDevice
  <2>5. CASE matches[at].action = "create"
    <3>1. stage' = "identity" /\ queue' = (IF apply THEN <<Set("device", NoName)>> ELSE <<>>)
      BY <1>4, <2>5 DEF StartDevice, Enqueue
    <3> QED
      BY <1>0, <2>1, <2>2, <2>3, <2>5, <3>1 DEF Located, OnDevice, apply
  <2>6. CASE matches[at].action = "update"
    <3>1. stage' = "identity" /\ queue' = <<>>
      BY <1>4, <2>1, <2>6 DEF StartDevice
    <3>2. device' # Preview
      BY <1>0, <2>1, <2>3, <2>6 DEF Preview, Recorded
    <3> QED
      BY <1>0, <2>1, <2>2, <2>3, <2>6, <3>1, <3>2 DEF Located, OnDevice
  <2> QED
    BY <2>3, <2>4, <2>5, <2>6
<1>5. ASSUME SyncIdentity PROVE Located'
  <2>1. /\ stage = "identity" /\ queue = <<>> /\ stage' \in {"bridge", "ip"}
        /\ UNCHANGED <<report, modes, devices, matches, at, device, ended>>
    BY <1>5 DEF SyncIdentity, Enqueue, netbox
  <2>2. ~(apply /\ device = Preview)
    <3>1. <<>> # <<Set("device", NoName)>>
      BY Single, Empty
    <3> QED
      BY <1>0, <2>1, <3>1 DEF Located, OnDevice
  <2>3. apply' = apply
    BY <2>1 DEF apply
  <2> QED
    BY <1>0, <2>1, <2>2, <2>3 DEF Located, OnDevice
<1>6. ASSUME SyncBridge PROVE Located'
  <2>1. /\ stage = "bridge" /\ stage' = "ip"
        /\ UNCHANGED <<report, modes, devices, matches, at, device, ended>>
    BY <1>6 DEF SyncBridge, Enqueue, netbox
  <2>2. apply' = apply
    BY <2>1 DEF apply
  <2> QED
    BY <1>0, <2>1, <2>2 DEF Located, OnDevice
<1>7. ASSUME SyncIp PROVE Located'
  <2>1. /\ stage = "ip" /\ stage' = "radio"
        /\ UNCHANGED <<report, modes, devices, matches, at, device, ended>>
    BY <1>7 DEF SyncIp, Enqueue, netbox
  <2>2. apply' = apply
    BY <2>1 DEF apply
  <2> QED
    BY <1>0, <2>1, <2>2 DEF Located, OnDevice
<1>8. ASSUME SyncRadios PROVE Located'
  <2>1. /\ stage = "radio" /\ stage' = "next"
        /\ UNCHANGED <<report, modes, devices, matches, at, device, ended>>
    BY <1>8 DEF SyncRadios, Enqueue, netbox
  <2> QED
    BY <1>0, <2>1 DEF Located, OnDevice
<1>9. ASSUME NextDevice PROVE Located'
  <2>1. /\ stage = "next" /\ stage' = "device" /\ at' = at + 1
        /\ UNCHANGED <<report, devices, matches, device, ended>>
    BY <1>9 DEF NextDevice, netbox
  <2> QED
    BY <1>0, <2>1 DEF Located, OnDevice
<1>10. ASSUME WriteOk \/ WriteFails PROVE Located'
  <2> DEFINE w == Head(queue)
  <2>1. /\ queue # <<>> /\ w.op \in Ops[stage] /\ apply
        /\ w.op = "device" => stage = "identity" /\ Tail(queue) = <<>>
    BY <1>0, <1>10, HeadIs DEF WriteOk, WriteFails
  <2>2. queue' = <<>> \/ queue' = Tail(queue)
    BY <1>10 DEF WriteOk, WriteFails
  <2>3. DOMAIN devices \subseteq DOMAIN devices'
    <3>1. CASE UNCHANGED devices
      BY <3>1
    <3>2. CASE Carried(w)
      <4>1. devices' = Devices(w)
        BY <3>2 DEF Carried
      <4>2. CASE w.op = "device"
        BY <1>0, <4>1, <4>2, DeviceComes
      <4>3. CASE Quiet(w.op)
        BY <1>0, <4>1, <4>3, QuietLeaves
      <4>4. CASE w.op \in {"interface", "link", "primary"}
        <5>1. devices' = [i \in DOMAIN devices |-> devices'[i]]
          BY <4>1, <4>4 DEF Devices
        <5> QED
          BY <5>1
      <4> QED
        BY <1>0, <2>1, <4>2, <4>3, <4>4, OpsOf DEF Located, Quiet
    <3> QED
      BY <1>10, <3>1, <3>2 DEF WriteOk, WriteFails, netbox
  <2>4. UNCHANGED <<report, modes, matches, at, ended>>
    BY <1>10 DEF WriteOk, WriteFails
  <2>5. stage' = stage \/ stage' = "next"
    BY <1>10 DEF WriteOk, WriteFails
  <2>6. apply' = apply
    BY <2>4 DEF apply
  <2>7. device' \in {Preview} \cup DOMAIN devices'
    <3>1. CASE device' = device
      BY <1>0, <2>3, <3>1 DEF Located
    <3>2. CASE w.op = "device" /\ WriteOk
      <4>1. devices' = Devices(w) /\ device' = Len(devices) + 1
        BY <3>2 DEF WriteOk, Carried
      <4>2. DOMAIN devices' = 1 .. (Len(devices) + 1) /\ Len(devices) \in Nat
        BY <1>0, <3>2, <4>1, DeviceComes
      <4> QED
        BY <4>1, <4>2
    <3> QED
      BY <1>10, <3>1, <3>2 DEF WriteOk, WriteFails
  <2>8. stage' \in OnDevice /\ apply' => device' # Preview
    <3> SUFFICES ASSUME stage' \in OnDevice PROVE device' # Preview
      OBVIOUS
    <3>1. stage' = stage /\ stage \in OnDevice
      BY <2>5 DEF OnDevice
    <3>2. CASE w.op = "device"
      <4>1. WriteOk
        BY <1>10, <3>1, <3>2 DEF WriteFails, OnDevice
      <4>2. device' = Len(devices) + 1
        BY <3>2, <4>1 DEF WriteOk
      <4>3. Len(devices) \in Nat
        BY <1>0 DEF Recorded
      <4> QED
        BY <4>2, <4>3 DEF Preview
    <3>3. CASE w.op # "device"
      <4>1. stage # "identity"
        BY <1>0, <2>1, <3>3, OpsOf DEF Located
      <4>2. device' = device
        BY <1>10, <3>3 DEF WriteOk, WriteFails
      <4> QED
        BY <1>0, <2>1, <3>1, <4>1, <4>2 DEF Located
    <3> QED
      BY <3>2, <3>3
  <2>9. stage' = "identity" => queue' = <<>>
    <3> SUFFICES ASSUME stage' = "identity" PROVE queue' = <<>>
      OBVIOUS
    <3>1. stage = "identity"
      BY <2>5
    <3>2. w.op = "device"
      BY <1>0, <2>1, <3>1, OpsOf DEF Located
    <3> QED
      BY <2>1, <2>2, <3>2
  <2> HIDE DEF w
  <2>10. stage \in DOMAIN Ops /\ stage # "start"
    BY <1>0, <2>1, OpsOf DEF Located
  <2>11. stage' \in OnDevice => stage \in OnDevice
    BY <2>5 DEF OnDevice
  <2> QED
    BY <1>0, <2>3, <2>4, <2>5, <2>7, <2>8, <2>9, <2>10, <2>11 DEF Located
<1>11. ASSUME TagFails PROVE Located'
  <2>1. /\ queue # <<>> /\ Head(queue).op = "tag" /\ stage' = "start" /\ ended' = Append(ended, "error")
        /\ queue' = <<>> /\ UNCHANGED <<report, at, device>>
    BY <1>11 DEF TagFails
  <2>2. devices' = devices
    <3>1. CASE UNCHANGED netbox
      BY <3>1 DEF netbox
    <3>2. CASE Carried(Head(queue))
      BY <2>1, <3>2 DEF Carried, Devices
    <3> QED
      BY <1>11, <3>1, <3>2 DEF TagFails
  <2>3. ended' \in Seq({"ok", "drift", "changed", "partial", "error"})
    BY <1>0, <2>1 DEF Located
  <2> QED
    BY <1>0, <2>1, <2>2, <2>3 DEF Located, OnDevice
<1>12. ASSUME EndRun PROVE Located'
  <2>1. /\ stage' = "start" /\ ended' = Append(ended, Status)
        /\ queue' = queue /\ queue = <<>> /\ UNCHANGED <<report, devices, at, device>>
    BY <1>12 DEF EndRun, netbox
  <2>2. ended' \in Seq({"ok", "drift", "changed", "partial", "error"})
    BY <1>0, <2>1, StatusIs DEF Located
  <2> QED
    BY <1>0, <2>1, <2>2 DEF Located, OnDevice
<1>13. CASE UNCHANGED vars
  BY <1>0, <1>13 DEF Located, vars, netbox, apply
<1> QED
  BY <1>1, <1>2, <1>3, <1>4, <1>5, <1>6, <1>7, <1>8, <1>9, <1>10, <1>11, <1>12, <1>13 DEF Next

(* The queue, step by step.                                                *)
LEMMA NextQueued ==
  ASSUME IInv, [Next]_vars
  PROVE  Queued'
<1>0. Located /\ Recorded /\ Queued
  BY DEF IInv
<1>1. ASSUME StartRun PROVE Queued'
  <2>1. stage = "start" /\ queue' = queue
    BY <1>1 DEF StartRun
  <2>2. queue = <<>>
    BY <1>0, <2>1, HeadIs, OpsOf DEF Located
  <2> QED
    BY <2>1, <2>2, NothingQueued
<1>2. ASSUME SyncTag PROVE Queued'
  <2> DEFINE needed == \E i \in DOMAIN matches :
                         \/ matches[i].action = "create"
                         \/ matches[i].action = "update" /\ "tag" \in devices[matches[i].id].wrong
             writes == When(needed /\ ~tagged, Set("tag", NoName))
  <2>1. Enqueue(writes, "lans") /\ UNCHANGED <<report, modes, devices, addresses, at, device, ended>>
    BY <1>2 DEF SyncTag, netbox
  <2>2. writes = <<>> \/ writes = <<Set("tag", NoName)>>
    BY DEF When
  <2>3. "tag" \in Ops["lans"]
    BY DEF Ops
  <2> HIDE DEF writes
  <2>4. Fits(writes, Held, Ops["lans"])
    BY <2>2, <2>3, WhenSetFits
  <2> QED
    BY <2>1, <2>4, Enqueued
<1>3. ASSUME SyncLans PROVE Queued'
  <2> DEFINE ssids == IF unread THEN {} ELSE UNION {d.ssids : d \in Range(report)}
             S == {ssid \in ssids : lans[ssid] = 0}
             Create(ssid) == Set("lan", ssid)
             writes == Each(Create, SetToSeq(S))
  <2>1. Enqueue(writes, "device") /\ UNCHANGED <<report, modes, devices, addresses, at, device, ended>>
    BY <1>3 DEF SyncLans, netbox
  <2>2. IsFiniteSet(S)
    <3>1. IsFiniteSet(UNION {d.ssids : d \in Range(report)})
      BY <1>0, ReportIs
    <3>2. S \subseteq UNION {d.ssids : d \in Range(report)}
      OBVIOUS
    <3> QED
      BY <3>1, <3>2, FS_Subset
  <2> HIDE DEF S
  <2>3. Fits(writes, Held, Ops["device"])
    BY <2>2, LansFit
  <2> HIDE DEF writes
  <2> QED
    BY <2>1, <2>3, Enqueued
<1>4. ASSUME StartDevice PROVE Queued'
  <2> DEFINE w == Set("device", NoName)
  <2>1. queue' = <<>> \/ (queue' = <<w>> /\ stage' = "identity" /\ apply /\ UNCHANGED <<modes, ended>>)
    BY <1>4 DEF StartDevice, Enqueue
  <2>2. CASE queue' = <<>>
    BY <2>2, NothingQueued
  <2>3. CASE queue' = <<w>> /\ stage' = "identity" /\ apply /\ UNCHANGED <<modes, ended>>
    <3>1. w.op = "device" /\ Needs(w) = {} /\ Fresh(w) = {}
      BY SetFits
    <3>2. (\A v : v.op = "device" => Proper(v))'
      BY DEF Proper
    <3> HIDE DEF w
    <3>3. IsSeq(<<w>>) /\ DOMAIN <<w>> = {1} /\ <<w>>[1] = w
      BY Single
    <3>4. (queue \in Seq(Range(queue)))'
      BY <2>3, <3>3 DEF IsSeq
    <3>5. (stage # "start" => apply \/ queue = <<>>)'
      BY <2>3 DEF apply
    <3>6. (\A k \in DOMAIN queue : queue[k].op \in Ops[stage] /\ Proper(queue[k]))'
      <4>1. "device" \in Ops["identity"]
        BY DEF Ops
      <4> QED
        BY <2>3, <3>1, <3>3, <4>1 DEF Proper
    <3>7. Ready(queue, Held)'
      BY <2>3, <3>1, <3>3 DEF Ready
    <3> QED
      BY <3>4, <3>5, <3>6, <3>7 DEF Queued
  <2> QED
    BY <2>1, <2>2, <2>3
<1>5. ASSUME SyncIdentity PROVE Queued'
  <2> DEFINE nextStage == IF Reported.kind = "ap" THEN "bridge" ELSE "ip"
  <2>1. Enqueue(IdentityWrites, nextStage)
        /\ UNCHANGED <<report, modes, devices, addresses, at, device, ended>>
    BY <1>5 DEF SyncIdentity, netbox
  <2>2. Fits(IdentityWrites, Held, Ops["bridge"])
    BY IdentityFits
  <2>3. Ops["bridge"] \subseteq Ops[nextStage]
    BY DEF Ops
  <2> HIDE DEF nextStage
  <2>4. Fits(IdentityWrites, Held, Ops[nextStage])
    BY <2>2, <2>3 DEF Fits
  <2> QED
    BY <2>1, <2>4, Enqueued
<1>6. ASSUME SyncBridge PROVE Queued'
  <2>1. /\ stage = "bridge" /\ Enqueue(BridgeWrites(Uplinks), "ip")
        /\ UNCHANGED <<report, modes, devices, addresses, at, device, ended>>
    BY <1>6 DEF SyncBridge, netbox
  <2>2. apply => device \in DOMAIN devices
    BY <1>0, <2>1 DEF Located, OnDevice
  <2>3. apply => Fits(BridgeWrites(Uplinks), Held, Ops["ip"])
    BY <1>0, <2>2, BridgeFits
  <2> QED
    BY <2>1, <2>3, Enqueued
<1>7. ASSUME SyncIp PROVE Queued'
  <2> DEFINE ip == Reported.ip
  <2>1. /\ stage = "ip" /\ queue = <<>>
        /\ UNCHANGED <<report, modes, devices, addresses, at, device, ended>>
        /\ queue' = <<>> \/ (Enqueue(IpWrites(ip), "radio") /\ ip # NoIp /\ ~IpBlocked(ip))
    BY <1>7 DEF SyncIp, netbox
  <2>2. CASE queue' = <<>>
    BY <2>2, NothingQueued
  <2>3. CASE Enqueue(IpWrites(ip), "radio") /\ ip # NoIp /\ ~IpBlocked(ip)
    <3>1. ip \in DOMAIN addresses
      <4>1. Reported \in Range(report)
        BY <1>0, <2>1 DEF Located, OnDevice, Reported, Range
      <4> QED
        BY <1>0, <2>3, <4>1 DEF Recorded
    <3>2. apply => device \in DOMAIN devices
      BY <1>0, <2>1 DEF Located, OnDevice
    <3>3. apply => Fits(IpWrites(ip), Held, Ops["radio"])
      BY <1>0, <2>3, <3>1, <3>2, IpFits
    <3> QED
      BY <2>1, <2>3, <3>3, Enqueued
  <2> QED
    BY <2>1, <2>2, <2>3
<1>8. ASSUME SyncRadios PROVE Queued'
  <2>1. PICK condition, on :
          /\ Enqueue(When(condition, Set("radio", on)), "next")
          /\ UNCHANGED <<report, modes, devices, addresses, at, device, ended>>
    <3> DEFINE reported == Reported.kind = "ap" /\ ~unread /\ "radio" \notin Reported.skips
               lacking == reported /\ "radio" \in Reported.lacks
               lost == Reported.ssids \cap noLans
               ambiguous == {ssid \in Reported.ssids : lans[ssid] > 1}
               fields == ({"radio", "channel"} \ Reported.skips)
                           \cup (IF lost \cup ambiguous = {} THEN {"lan"} ELSE {})
               c == reported /\ ~lacking /\ This.wrong \cap fields # {}
               on == IF "lan" \in fields THEN "lan" ELSE "radio"
    <3>1. Enqueue(When(c, Set("radio", on)), "next")
      BY <1>8 DEF SyncRadios
    <3>2. UNCHANGED <<report, modes, devices, addresses, at, device, ended>>
      BY <1>8 DEF SyncRadios, netbox
    <3> HIDE DEF c, on
    <3> QED
      BY <3>1, <3>2
  <2> DEFINE writes == When(condition, Set("radio", on))
  <2>2. writes = <<>> \/ writes = <<Set("radio", on)>>
    BY DEF When
  <2>3. "radio" \in Ops["next"]
    BY DEF Ops
  <2> HIDE DEF writes
  <2>4. Fits(writes, Held, Ops["next"])
    BY <2>2, <2>3, WhenSetFits
  <2> QED
    BY <2>1, <2>4, Enqueued DEF writes
<1>9. ASSUME NextDevice PROVE Queued'
  BY <1>9, NothingQueued DEF NextDevice
<1>10. ASSUME WriteOk \/ WriteFails PROVE Queued'
  <2> DEFINE w == Head(queue)
  <2>1. /\ queue # <<>> /\ apply /\ Ready(Tail(queue), Held \cup Gives(w)) /\ IsSeq(Tail(queue))
        /\ \A k \in DOMAIN Tail(queue) : Tail(queue)[k].op \in Ops[stage] /\ Proper(Tail(queue)[k])
        /\ w.op = "device" => Tail(queue) = <<>>
        /\ w.op \in Ops[stage] /\ Proper(w)
        /\ w.op \in Linking => device \in DOMAIN devices
    BY <1>0, <1>10, HeadIs DEF WriteOk, WriteFails
  <2>2. CASE queue' = <<>>
    BY <2>2, NothingQueued
  <2>3. CASE queue' = Tail(queue) /\ queue' # <<>> /\ w.op # "device"
    <3>1. UNCHANGED <<report, modes, at, device, ended>> /\ stage' = stage
      BY <1>10, <2>3 DEF WriteOk, WriteFails
    <3>2. Carried(w) \/ UNCHANGED netbox
      BY <1>10 DEF WriteOk, WriteFails
    <3>3. Carried(w) \/ w.after # "chain"
      <4> SUFFICES ASSUME w.after = "chain" PROVE Carried(w)
        OBVIOUS
      <4>1. CASE WriteOk
        BY <4>1 DEF WriteOk
      <4>2. CASE WriteFails
        <5>1. queue' = <<>>
          BY <4>2 DEF WriteFails
        <5> QED
          BY <2>3, <5>1
      <4> QED
        BY <1>10, <4>1, <4>2
    <3>4. Held' = Held \cup Gives(w)
      <4>1. CASE Carried(w)
        BY <1>0, <2>1, <2>3, <3>1, <4>1, HeldAfter
      <4>2. CASE UNCHANGED netbox /\ w.after # "chain"
        <5>1. Gives(w) = {}
          BY <2>1, <4>2 DEF Proper, Gives
        <5>2. Held' = Held
          BY <3>1, <4>2, Steady DEF netbox
        <5> QED
          BY <5>1, <5>2
      <4> QED
        BY <3>2, <3>3, <4>1, <4>2
    <3>5. \A v : v.op \in {"address", "assign"} /\ Proper(v) =>
                   v.on \in DOMAIN addresses' /\ (addresses'[v.on] \in Places \/ Own(v.on)')
      <4>1. CASE UNCHANGED netbox
        BY <3>1, <4>1 DEF Proper, Own, netbox
      <4>2. CASE Carried(w)
        <5>1. addresses' = Addresses(w)
          BY <4>2 DEF Carried
        <5>2. DOMAIN addresses' = DOMAIN addresses
              /\ \A a \in DOMAIN addresses : a # w.on => addresses'[a] = addresses[a]
          BY <5>1, AddressesAfter
        <5>3. CASE w.op \in {"address", "assign"}
          <6>1. device \in DOMAIN devices /\ w.on \in DOMAIN addresses
            BY <2>1, <5>3 DEF Linking, Proper
          <6>2. addresses'[w.on] = <<device, IpTarget>>
            BY <5>1, <5>3, <6>1, AddressesAfter
          <6>3. addresses'[w.on] \notin Places /\ addresses'[w.on][1] = device
            BY <1>0, <6>1, <6>2, PlaceOf
          <6> QED
            BY <3>1, <5>2, <6>3 DEF Proper, Own
        <5>4. CASE w.op \notin {"address", "assign"}
          <6>1. addresses' = addresses
            BY <5>1, <5>4, AddressesAfter
          <6> QED
            BY <3>1, <6>1 DEF Proper, Own
        <5> QED
          BY <5>3, <5>4
      <4> QED
        BY <3>2, <4>1, <4>2
    <3>6. (queue \in Seq(Range(queue)))'
      BY <2>1, <2>3 DEF IsSeq
    <3>7. (stage # "start" => apply \/ queue = <<>>)'
      BY <2>1, <3>1 DEF apply
    <3>8. (\A k \in DOMAIN queue : queue[k].op \in Ops[stage] /\ Proper(queue[k]))'
      <4> DEFINE q == Tail(queue)
      <4>1. \A k \in DOMAIN q : q[k].op \in Ops[stage] /\ Proper(q[k])
        BY <2>1
      <4>2. queue' = q
        BY <2>3
      <4> HIDE DEF q
      <4> QED
        BY <3>1, <3>5, <4>1, <4>2 DEF Proper, Own
    <3>9. Ready(queue, Held)'
      BY <2>1, <2>3, <3>4
    <3> QED
      BY <3>6, <3>7, <3>8, <3>9 DEF Queued
  <2> QED
    BY <1>10, <2>1, <2>2, <2>3 DEF WriteOk, WriteFails
<1>11. ASSUME TagFails PROVE Queued'
  BY <1>11, NothingQueued DEF TagFails
<1>12. ASSUME EndRun PROVE Queued'
  BY <1>12, NothingQueued DEF EndRun
<1>13. CASE UNCHANGED vars
  <2>1. UNCHANGED <<report, modes, devices, addresses, stage, at, device, queue, ended>>
    BY <1>13 DEF vars, netbox
  <2>2. Held' = Held
    BY <2>1, Steady
  <2> QED
    BY <1>0, <2>1, <2>2 DEF Queued, Proper, Own, apply
<1> QED
  BY <1>1, <1>2, <1>3, <1>4, <1>5, <1>6, <1>7, <1>8, <1>9, <1>10, <1>11, <1>12, <1>13 DEF Next

(* NetBox, step by step: only a write changes it.                          *)
LEMMA Untouched ==
  ASSUME IInv, [Next]_vars
  PROVE  /\ report' = report
         /\ \/ UNCHANGED netbox
            \/ queue # <<>> /\ Carried(Head(queue))
<1>1. report' = report
  BY DEF Next, vars, StartRun, SyncTag, SyncLans, StartDevice, SyncIdentity, SyncBridge, SyncIp,
         SyncRadios, NextDevice, WriteOk, WriteFails, TagFails, EndRun
<1>2. UNCHANGED netbox \/ (queue # <<>> /\ Carried(Head(queue)))
  BY DEF Next, vars, StartRun, SyncTag, SyncLans, StartDevice, SyncIdentity, SyncBridge, SyncIp,
         SyncRadios, NextDevice, WriteOk, WriteFails, TagFails, EndRun
<1> QED
  BY <1>1, <1>2

(* Each step keeps NetBox's records whole, and primary IPs on their        *)
(* devices.                                                                *)
LEMMA NextRecorded ==
  ASSUME IInv, [Next]_vars
  PROVE  Recorded' /\ PrimaryIsOwn'
<1>0. Located /\ Recorded /\ Queued /\ PrimaryIsOwn
  BY DEF IInv
<1>1. CASE UNCHANGED netbox
  BY <1>0, <1>1, Untouched DEF netbox, Recorded, PrimaryIsOwn
<1>2. CASE queue # <<>> /\ Carried(Head(queue))
  BY <1>0, <1>2, Untouched, CarryingRecorded, CarryingPrimary
<1> QED
  BY <1>1, <1>2, Untouched

(* NetBox's devices stay, whatever is written.                             *)
LEMMA DevicesStay ==
  ASSUME IInv, [Next]_vars
  PROVE  DOMAIN devices \subseteq DOMAIN devices'
<1> DEFINE w == Head(queue)
<1>1. CASE UNCHANGED netbox
  BY <1>1 DEF netbox
<1>2. CASE queue # <<>> /\ Carried(w)
  <2>1. Recorded /\ stage \in DOMAIN Ops /\ w.op \in Ops[stage]
    BY <1>2, HeadIs DEF IInv, Located
  <2>2. devices' = Devices(w)
    BY <1>2 DEF Carried
  <2> HIDE DEF w
  <2>3. CASE w.op = "device"
    BY <2>1, <2>2, <2>3, DeviceComes
  <2>4. CASE Quiet(w.op)
    BY <2>1, <2>2, <2>4, QuietLeaves
  <2>5. CASE w.op \in {"interface", "link", "primary"}
    <3>1. devices' = [i \in DOMAIN devices |-> devices'[i]]
      BY <2>2, <2>5 DEF Devices
    <3> QED
      BY <3>1
  <2> QED
    BY <2>1, <2>3, <2>4, <2>5, OpsOf DEF Quiet
<1> QED
  BY <1>1, <1>2, Untouched

(* What a run is excused for, step by step.  A write never fails of itself *)
(* alone.                                                                  *)
LEMMA FailsByFault ==
  ASSUME IInv, WriteFails
  PROVE  faulty' = TRUE /\ UNCHANGED <<report, modes, unread, silent, ended, blocked>>
<1>1. Possible(Head(queue))
  BY HeadPossible DEF IInv, WriteFails
<1> QED
  BY <1>1 DEF WriteFails, live

(* A device that got some of its ports got them in this run, after a        *)
(* request went wrong, or was in NetBox when the run began.                *)
LEMMA NextStunting ==
  ASSUME IInv, [Next]_vars
  PROVE  Stunting'
<1>0. Located /\ Recorded /\ Queued /\ Stunting
  BY DEF IInv
<1>1. DOMAIN devices \subseteq DOMAIN devices'
  BY DevicesStay
<1>2. ASSUME StartRun \/ SyncTag \/ SyncLans \/ NextDevice \/ EndRun \/ TagFails PROVE Stunting'
  <2>1. stage' \in {"tag", "lans", "device", "start"} /\ UNCHANGED stunted
    BY <1>2 DEF StartRun, SyncTag, SyncLans, NextDevice, EndRun, TagFails, Enqueue
  <2> QED
    BY <1>0, <1>1, <2>1 DEF Stunting, OnDevice
<1>3. ASSUME StartDevice PROVE Stunting'
  <2>1. /\ stage = "device" /\ queue = <<>> /\ at <= Len(report) /\ device' = matches[at].id
        /\ UNCHANGED <<report, matches, at, stunted>>
    BY <1>3 DEF StartDevice
  <2>2. at \in DOMAIN report
    BY <1>0, <2>1, ReportIs DEF Located
  <2>3. matches[at].action # "update" => matches[at].id = Preview
    BY <1>0, <2>1, <2>2 DEF Located
  <2>4. Preview \notin DOMAIN devices
    BY <1>0 DEF Preview, Recorded
  <2> QED
    BY <1>0, <1>1, <2>1, <2>3, <2>4 DEF Stunting
<1>4. ASSUME SyncIdentity \/ SyncBridge \/ SyncIp \/ SyncRadios PROVE Stunting'
  <2>1. stage \in OnDevice /\ UNCHANGED <<matches, at, device, stunted, faulty>>
    BY <1>4 DEF SyncIdentity, SyncBridge, SyncIp, SyncRadios, OnDevice
  <2> QED
    BY <1>0, <1>1, <2>1 DEF Stunting
<1>5. ASSUME WriteOk PROVE Stunting'
  <2> DEFINE w == Head(queue)
  <2>1. /\ UNCHANGED <<matches, at, stunted, faulty, stage>>
        /\ device' = IF w.op = "device" THEN Len(devices) + 1 ELSE device
    BY <1>5 DEF WriteOk
  <2>2. Len(devices) + 1 \notin DOMAIN devices
    BY <1>0 DEF Recorded
  <2> HIDE DEF w
  <2> QED
    BY <1>0, <1>1, <2>1, <2>2 DEF Stunting
<1>6. ASSUME WriteFails PROVE Stunting'
  <2>1. queue # <<>> /\ faulty' = TRUE
    BY <1>6, FailsByFault DEF WriteFails
  <2>2. Head(queue).op = "interface" => device \in DOMAIN devices
    BY <1>0, <2>1, HeadIs DEF Linking
  <2>3. stunted' \subseteq DOMAIN devices
    BY <1>0, <1>6, <2>2 DEF WriteFails, Stunting
  <2> QED
    BY <1>1, <2>1, <2>3 DEF Stunting
<1>7. CASE UNCHANGED vars
  BY <1>0, <1>1, <1>7 DEF vars, netbox, Stunting
<1> QED
  BY <1>2, <1>3, <1>4, <1>5, <1>6, <1>7 DEF Next

(* Each issue noted has a request that went wrong, or waits for a person.  *)
LEMMA NextExcused ==
  ASSUME IInv, [Next]_vars
  PROVE  Excused'
<1>0. Excused /\ Stunting /\ Located
  BY DEF IInv
<1>1. ASSUME StartRun PROVE Excused'
  BY <1>1 DEF StartRun, QueryWlcs, Excused, OnDevice
<1>2. ASSUME SyncTag PROVE Excused'
  <2>1. stage = "tag" /\ stage' = "lans"
        /\ UNCHANGED <<report, matches, stunted, noLans, unread, silent, failed, issues, faulty, blocked>>
    BY <1>2 DEF SyncTag, Enqueue, live
  <2> QED
    BY <1>0, <2>1 DEF Excused, OnDevice, Halfway
<1>3. ASSUME SyncLans PROVE Excused'
  <2>1. stage = "lans" /\ stage' = "device"
        /\ UNCHANGED <<report, matches, stunted, noLans, unread, silent, failed, issues, faulty, blocked>>
    BY <1>3 DEF SyncLans, Enqueue, live
  <2> QED
    BY <1>0, <2>1 DEF Excused, OnDevice, Halfway
<1>4. ASSUME StartDevice PROVE Excused'
  <2>1. /\ stage = "device" /\ noBridge' = FALSE
        /\ UNCHANGED <<report, matches, stunted, noLans, unread, silent, issues, faulty>>
        /\ UNCHANGED <<failed, blocked>> \/ blocked' = TRUE
    BY <1>4 DEF StartDevice, live
  <2> QED
    BY <1>0, <2>1 DEF Excused, Halfway
<1>5. ASSUME SyncIdentity PROVE Excused'
  <2>1. /\ stage = "identity"
        /\ blocked => blocked'
        /\ issues' => issues \/ blocked'
        /\ UNCHANGED <<report, matches, stunted, noBridge, noLans, unread, silent, failed, faulty>>
    BY <1>5 DEF SyncIdentity, live
  <2> QED
    BY <1>0, <2>1 DEF Excused, OnDevice, Halfway
<1>6. ASSUME SyncBridge PROVE Excused'
  <2>1. /\ stage = "bridge"
        /\ UNCHANGED <<report, matches, stunted, noBridge, noLans, unread, silent, failed, issues,
                       faulty, blocked>>
    BY <1>6 DEF SyncBridge, live
  <2> QED
    BY <1>0, <2>1 DEF Excused, OnDevice, Halfway
<1>7. ASSUME SyncIp PROVE Excused'
  <2>1. /\ stage = "ip"
        /\ UNCHANGED <<report, matches, stunted, noBridge, noLans, unread, silent, failed, faulty>>
        /\ blocked => blocked'
        /\ issues' => issues \/ blocked' \/ noBridge \/ silent # {} \/ device \in stunted
    BY <1>7 DEF SyncIp, live
  <2>2. device \in stunted => faulty \/ Halfway
    BY <1>0, <2>1 DEF Stunting, Located, OnDevice, Halfway
  <2> QED
    BY <1>0, <2>1, <2>2 DEF Excused, OnDevice, Halfway
<1>8. ASSUME SyncRadios PROVE Excused'
  <2>1. /\ stage = "radio" /\ stage' = "next"
        /\ UNCHANGED <<report, matches, stunted, noBridge, noLans, unread, silent, failed, faulty>>
        /\ blocked => blocked'
        /\ issues' => issues \/ blocked' \/ noLans # {}
    BY <1>8 DEF SyncRadios, Enqueue, live
  <2> QED
    BY <1>0, <2>1 DEF Excused, OnDevice, Halfway
<1>9. ASSUME NextDevice PROVE Excused'
  BY <1>0, <1>9 DEF NextDevice, Excused, OnDevice, live, outcome, Halfway
<1>10. ASSUME WriteOk PROVE Excused'
  BY <1>0, <1>10 DEF WriteOk, Excused, live, Halfway
<1>11. ASSUME WriteFails PROVE Excused'
  BY <1>11, FailsByFault DEF Excused
<1>12. ASSUME TagFails \/ EndRun PROVE Excused'
  BY <1>12 DEF TagFails, EndRun, Excused
<1>13. CASE UNCHANGED vars
  BY <1>0, <1>13 DEF vars, live, outcome, Excused, Halfway
<1> QED
  BY <1>1, <1>2, <1>3, <1>4, <1>5, <1>6, <1>7, <1>8, <1>9, <1>10, <1>11, <1>12, <1>13 DEF Next

(* No run ends partial or in error without an excuse.                      *)
LEMMA NextResumes ==
  ASSUME IInv, [Next]_vars
  PROVE  ResumesAlone'
<1>0. Located /\ Excused /\ ResumesAlone
  BY DEF IInv
<1>1. ended \in Seq({"ok", "drift", "changed", "partial", "error"})
  BY <1>0 DEF Located
<1>2. ASSUME TagFails PROVE ResumesAlone'
  BY <1>2 DEF TagFails, ResumesAlone
<1>3. ASSUME EndRun PROVE ResumesAlone'
  <2>1. /\ stage = "device" /\ ended' = Append(ended, Status)
        /\ UNCHANGED <<report, modes, matches, stunted, faulty, blocked>>
    BY <1>3 DEF EndRun
  <2>2. Last(ended') = Status /\ Len(ended') = Len(ended) + 1
    BY <1>1, <2>1, StatusIs DEF Last
  <2>3. Status \in {"partial", "error"} => failed \/ issues \/ unread \/ cables = "issue"
    BY DEF Status
  <2>4. cables = modes'[Len(ended')].cables
    BY <2>1, <2>2 DEF cables
  <2>5. Status \in {"partial", "error"} => faulty \/ blocked \/ Halfway \/ cables = "issue"
    BY <1>0, <2>1, <2>3 DEF Excused
  <2> QED
    BY <2>1, <2>2, <2>4, <2>5 DEF Halfway, ResumesAlone
<1>4. ASSUME WriteOk \/ WriteFails PROVE ResumesAlone'
  <2>1. stage # "start"
    BY <1>4, HeadIs, OpsOf DEF IInv, Located, WriteOk, WriteFails
  <2> QED
    BY <1>4, <2>1 DEF WriteOk, WriteFails, ResumesAlone
<1>5. ASSUME StartRun \/ SyncTag \/ SyncLans \/ StartDevice \/ SyncIdentity \/ SyncBridge
             \/ SyncIp \/ SyncRadios \/ NextDevice
      PROVE  ResumesAlone'
  BY <1>5 DEF ResumesAlone, Enqueue, StartRun, SyncTag, SyncLans, StartDevice, SyncIdentity,
              SyncBridge, SyncIp, SyncRadios, NextDevice
<1>6. CASE UNCHANGED vars
  BY <1>0, <1>6 DEF vars, ResumesAlone
<1> QED
  BY <1>2, <1>3, <1>4, <1>5, <1>6 DEF Next

-----------------------------------------------------------------------------
(* The inductive invariant holds in every state of every behaviour.        *)
THEOREM Invariance == Spec => []IInv
<1>1. Init => IInv
  BY InitIInv
<1>2. IInv /\ [Next]_vars => IInv'
  BY NextLocated, NextQueued, NextRecorded, NextStunting, NextExcused, NextResumes DEF IInv
<1> QED
  BY <1>1, <1>2, PTL DEF Spec

(* A device's primary IP is on an interface of its own, whatever several   *)
(* devices report and whatever fails: plan_primary_ip never takes an       *)
(* address over (ipam.py:139).                                             *)
THEOREM PrimaryOwn == Spec => []PrimaryIsOwn
<1>1. IInv => PrimaryIsOwn
  BY DEF IInv
<1> QED
  BY <1>1, Invariance, PTL

(* A run ends partial or in error only over a request that went wrong in   *)
(* it, a cable, or something a person has to settle: of what an earlier    *)
(* run left half done, it stumbles only over a device that was to get two  *)
(* wired interfaces and was given one (bridging.py:83).                    *)
THEOREM ResumesByItself == Spec => []ResumesAlone
<1>1. IInv => ResumesAlone
  BY DEF IInv
<1> QED
  BY <1>1, Invariance, PTL

(* No step takes a port off its bridge, failures in between included       *)
(* ("Nothing is ever removed or unlinked", bridging.py:21).                *)
THEOREM UplinksKept == Spec => UplinksStayAttached
<1>1. IInv /\ [Next]_vars =>
        [\A i \in DOMAIN devices :
           \A port \in Ports : Attached(devices[i], port) => Attached(devices'[i], port)]_vars
  <2> SUFFICES ASSUME IInv, [Next]_vars,
                      NEW i \in DOMAIN devices, NEW port \in Ports, Attached(devices[i], port)
               PROVE  Attached(devices'[i], port)
    OBVIOUS
  <2>1. CASE UNCHANGED netbox
    BY <2>1 DEF netbox
  <2>2. CASE queue # <<>> /\ Carried(Head(queue))
    BY <2>2, CarryingAttached DEF IInv
  <2> QED
    BY <2>1, <2>2, Untouched
<1> QED
  BY <1>1, Invariance, PTL DEF Spec, UplinksStayAttached

-----------------------------------------------------------------------------
(* A run that may still end green, and what it has made of the devices.    *)
Clean == ~failed /\ ~issues /\ ~unread /\ (apply \/ ~changes)
Begun == OnDevice \cup {"next"}

(* Each reported device has NetBox devices of its own, and the run is on   *)
(* one of them.                                                            *)
Matched ==
  /\ \A j, k \in DOMAIN report :
       j # k => Existing(devices, report[j]) \cap Existing(devices, report[k]) = {}
  /\ stage # "start" =>
       \A j \in DOMAIN report :
         (j > at \/ (j = at /\ stage \notin Begun)) /\ matches[j].action = "update" =>
           matches[j].id \in Existing(devices, report[j])
  /\ stage \in Begun => at \in DOMAIN report
  /\ stage \in Begun /\ device # Preview => device \in Existing(devices, Reported)
  /\ stage = "identity" /\ queue # <<>> => device = Preview

(* What is not right yet of the device at hand, the queue will set right:  *)
(* its serial and fields, its uplinks, its address, its radios.            *)
Coming(q, op, on) == \E k \in DOMAIN q : q[k].op = op /\ q[k].on = on

Identified(q) ==
  /\ Reported.serial # "" => This.serial = Reported.serial \/ Coming(q, "serial", NoName)
  /\ \A f \in {"role", "tag", "platform"} \cap FieldsOf(Reported.kind) :
       f \in This.wrong => Coming(q, "field", f)

(* A port that is not there is not made of a device that has others.       *)
Bridging(q, p) ==
  \/ Attached(This, p)
  \/ Coming(q, "link", p)
  \/ Has(p) /\ LinkOf(p).lag = "bond0" /\ Coming(q, "link", "bond0")
  \/ ~Has(p) /\ Wired # {} /\ ~Coming(q, "interface", p)

(* The address of an access point, and of a WLC that is created.           *)
Addressed == Reported.kind = "ap" \/ matches[at].action = "create"
InPlace(ip) == IF Reported.kind = "ap" THEN addresses[ip] = <<device, "br0">> ELSE Own(ip)
Addressing(q) ==
  LET ip == Reported.ip IN
  ip # NoIp =>
    /\ InPlace(ip) \/ Coming(q, "address", ip) \/ Coming(q, "assign", ip)
    /\ This.primary = ip \/ Coming(q, "primary", ip)

(* Only the address reported becomes the primary IP.                       *)
OnlyPrimary(q) == \A on : Coming(q, "primary", on) => on = Reported.ip

(* One update sets all of a radio, its wireless LANs only if told to.      *)
Tuning(q) ==
  \A f \in {"radio", "channel", "lan"} \ Noted(Reported) :
    f \in This.wrong =>
      \/ Coming(q, "radio", f)
      \/ f \in {"radio", "channel"} /\ \E k \in DOMAIN q : q[k].op = "radio"

Underway ==
  /\ stage \in Begun /\ Clean =>
       \/ device \in DOMAIN devices
       \/ stage = "identity" /\ queue = <<Set("device", NoName)>>
  /\ stage \in Begun \ {"identity"} /\ Clean =>
       /\ Identified(queue)
       /\ Addressed => /\ stage \in {"radio", "next"} => Addressing(queue)
                       /\ stage = "radio" => OnlyPrimary(queue)
       /\ Reported.kind = "ap" =>
            /\ stage = "ip" => \A p \in Uplinks : Bridging(queue, p)
            /\ stage \in {"radio", "next"} => \A p \in Reported.uplinks : Attached(This, p)
            /\ stage = "next" => Tuning(queue)

(* The devices the run is done with are what was reported of them.         *)
Done(i, j) ==
  /\ InNetBox(i, report[j])
  /\ matches[j].action = "create" => HoldsAddress(i, report[j])
Behind ==
  /\ stage \in {"tag", "lans"} \/ (stage = "device" /\ queue # <<>>) => at = 1
  /\ stage # "start" /\ Clean =>
       \A j \in DOMAIN report :
         j < at => \E i \in Existing(devices, report[j]) : Done(i, j)

GInv == IInv /\ Matched /\ Underway /\ Behind /\ GreenMeansInNetBox

-----------------------------------------------------------------------------
(* The kinds of write, by stage.                                           *)
LEMMA StageOf ==
  ASSUME NEW s \in DOMAIN Ops, NEW o \in Ops[s]
  PROVE  /\ o \in {"field", "serial"} => s \in {"bridge", "ip"}
         /\ o = "radio" => s = "next"
         /\ o = "link" => s = "ip"
         /\ o = "interface" => s \in {"ip", "radio"}
         /\ o \in {"address", "assign", "primary"} => s = "radio"
<1>1. s \in {"start", "tag", "lans", "device", "identity", "bridge", "ip", "radio", "next"}
  BY DEF Ops
<1>2. /\ Ops["start"] = {} /\ Ops["tag"] = {} /\ Ops["lans"] = {"tag"} /\ Ops["device"] = {"lan"}
      /\ Ops["identity"] = {"device"} /\ Ops["bridge"] = {"field", "serial"}
      /\ Ops["ip"] = {"field", "serial", "interface", "link"}
      /\ Ops["radio"] = {"interface", "address", "assign", "primary"} /\ Ops["next"] = {"radio"}
  BY DEF Ops
<1> QED
  BY <1>1, <1>2

(* A device is found by its serial and its name alone.                     *)
LEMMA FoundAlike ==
  ASSUME NEW ds, NEW es, NEW d, DOMAIN es = DOMAIN ds,
         \A i \in DOMAIN ds : es[i].name = ds[i].name /\ es[i].serial = ds[i].serial
  PROVE  Existing(es, d) = Existing(ds, d)
<1>1. {i \in DOMAIN es : d.serial # "" /\ es[i].serial = d.serial}
        = {i \in DOMAIN ds : d.serial # "" /\ ds[i].serial = d.serial}
  OBVIOUS
<1>2. {i \in DOMAIN es : es[i].name = d.name} = {i \in DOMAIN ds : ds[i].name = d.name}
  OBVIOUS
<1> QED
  BY <1>1, <1>2 DEF Existing

(* A device found for one reported gets its serial, or a new one is made.  *)
Renewed(ds, es, i, d) ==
  /\ i \in DOMAIN ds /\ i \in Existing(ds, d)
  /\ DOMAIN es = DOMAIN ds /\ es[i].name = ds[i].name /\ es[i].serial = d.serial
  /\ \A j \in DOMAIN ds : j # i => es[j] = ds[j]
Created(ds, es, i, d) ==
  /\ i \notin DOMAIN ds /\ DOMAIN es = DOMAIN ds \cup {i}
  /\ es[i].name = d.name /\ es[i].serial = d.serial
  /\ \A j \in DOMAIN ds : es[j] = ds[j]

Unlike(d, other) == d.name # other.name /\ (d.serial # "" => d.serial # other.serial)

(* With its serial, it is found for that one still, and for no other.      *)
LEMMA FoundBySerial ==
  ASSUME NEW ds, NEW es, NEW i, NEW d, Renewed(ds, es, i, d)
  PROVE  /\ i \in Existing(es, d) /\ Existing(es, d) \subseteq Existing(ds, d)
         /\ \A other : Existing(ds, d) \cap Existing(ds, other) = {} /\ Unlike(d, other) =>
                        Existing(es, other) = Existing(ds, other)
<1> DEFINE S(e, x) == {j \in DOMAIN e : x.serial # "" /\ e[j].serial = x.serial}
           N(e, x) == {j \in DOMAIN e : e[j].name = x.name}
<1> USE DEF Renewed
<1>1. \A e, x : Existing(e, x) = IF S(e, x) # {} THEN S(e, x) ELSE N(e, x)
  BY DEF Existing
<1>2. \A x : N(es, x) = N(ds, x)
  OBVIOUS
<1>3. S(es, d) = IF d.serial # "" THEN S(ds, d) \cup {i} ELSE S(ds, d)
  OBVIOUS
<1>4. d.serial = "" => S(ds, d) = {}
  OBVIOUS
<1>5. ASSUME NEW other, Existing(ds, d) \cap Existing(ds, other) = {}, Unlike(d, other)
      PROVE  Existing(es, other) = Existing(ds, other)
  <2>1. i \notin S(ds, other)
    BY <1>1, <1>5
  <2>2. S(es, other) = S(ds, other)
    BY <1>5, <2>1 DEF Unlike
  <2> HIDE DEF S, N
  <2> QED
    BY <1>1, <1>2, <2>2
<1> HIDE DEF S, N
<1>6. i \in Existing(es, d) /\ Existing(es, d) \subseteq Existing(ds, d)
  BY <1>1, <1>2, <1>3, <1>4
<1> QED
  BY <1>5, <1>6

(* A new device is found for the one it was made for, and for no other.    *)
LEMMA FoundNew ==
  ASSUME NEW ds, NEW es, NEW i, NEW d, Created(ds, es, i, d)
  PROVE  /\ i \in Existing(es, d) /\ Existing(es, d) \subseteq Existing(ds, d) \cup {i}
         /\ \A other : Unlike(d, other) => Existing(es, other) = Existing(ds, other)
<1> DEFINE S(e, x) == {j \in DOMAIN e : x.serial # "" /\ e[j].serial = x.serial}
           N(e, x) == {j \in DOMAIN e : e[j].name = x.name}
<1> USE DEF Created
<1>1. \A e, x : Existing(e, x) = IF S(e, x) # {} THEN S(e, x) ELSE N(e, x)
  BY DEF Existing
<1>2. N(es, d) = N(ds, d) \cup {i}
  OBVIOUS
<1>3. S(es, d) = IF d.serial # "" THEN S(ds, d) \cup {i} ELSE S(ds, d)
  OBVIOUS
<1>4. d.serial = "" => S(ds, d) = {}
  OBVIOUS
<1>5. ASSUME NEW other, Unlike(d, other)
      PROVE  Existing(es, other) = Existing(ds, other)
  <2>1. S(es, other) = S(ds, other) /\ N(es, other) = N(ds, other)
    BY <1>5 DEF Unlike
  <2> HIDE DEF S, N
  <2> QED
    BY <1>1, <2>1
<1> HIDE DEF S, N
<1>6. i \in Existing(es, d) /\ Existing(es, d) \subseteq Existing(ds, d) \cup {i}
  BY <1>1, <1>2, <1>3, <1>4
<1> QED
  BY <1>5, <1>6

(* The fields and the serial of the device at hand, after a write.         *)
LEMMA RecordAfter ==
  ASSUME Recorded, NEW w, devices' = Devices(w), device \in DOMAIN devices,
         w.op \in {"tag", "lan", "field", "serial", "radio", "interface", "link",
                   "address", "assign", "primary"}
  PROVE  /\ DOMAIN devices' = DOMAIN devices
         /\ \A i \in DOMAIN devices : i # device => devices'[i] = devices[i]
         /\ devices'[device].name = devices[device].name
         /\ devices'[device].serial = IF w.op = "serial" THEN Reported.serial
                                      ELSE devices[device].serial
         /\ devices'[device].wrong = CASE w.op = "field" -> devices[device].wrong \ {w.on}
                                       [] w.op = "radio" ->
                                            devices[device].wrong \ ({"radio", "channel", w.on} \ Reported.skips)
                                       [] OTHER -> devices[device].wrong
<1> DEFINE d == devices[device]
           e == devices'[device]
<1>0. DOMAIN d = {"name", "serial", "wrong", "primary", "ifs"}
  BY DEF Recorded
<1>1. CASE w.op \in {"tag", "lan", "address", "assign"}
  <2>1. devices' = devices
    BY <1>1 DEF Devices
  <2> QED
    BY <1>1, <2>1
<1>2. CASE w.op = "field"
  <2>1. devices' = [devices EXCEPT ![device].wrong = @ \ {w.on}]
    BY <1>2 DEF Devices
  <2>2. e = [d EXCEPT !.wrong = d.wrong \ {w.on}]
    BY <2>1
  <2>3. e.name = d.name /\ e.serial = d.serial /\ e.wrong = d.wrong \ {w.on}
    BY <1>0, <2>2
  <2> QED
    BY <1>2, <2>1, <2>3
<1>3. CASE w.op = "radio"
  <2>0. PICK off : off = ({"radio", "channel", w.on} \ Reported.skips)
    OBVIOUS
  <2>1. devices' = [devices EXCEPT ![device].wrong = @ \ off]
    BY <1>3, <2>0 DEF Devices
  <2>2. e = [d EXCEPT !.wrong = d.wrong \ off]
    BY <2>1
  <2>3. e.name = d.name /\ e.serial = d.serial /\ e.wrong = d.wrong \ off
    BY <1>0, <2>2
  <2> QED
    BY <1>3, <2>0, <2>1, <2>3
<1>4. CASE w.op = "serial"
  <2>1. devices' = [devices EXCEPT ![device].serial = Reported.serial]
    BY <1>4 DEF Devices
  <2>2. e = [d EXCEPT !.serial = Reported.serial]
    BY <2>1
  <2>3. e.name = d.name /\ e.serial = Reported.serial /\ e.wrong = d.wrong
    BY <1>0, <2>2
  <2> QED
    BY <1>4, <2>1, <2>3
<1>5. CASE w.op \in {"interface", "link"}
  <2> DEFINE link == [lag |-> w.lag, bridge |-> w.bridge]
             ifs == [n \in DOMAIN d.ifs \cup {w.on} |-> IF n = w.on THEN link ELSE d.ifs[n]]
  <2>1. devices' = [devices EXCEPT ![device] = WithIf(d, w.on, link)]
    BY <1>5 DEF Devices
  <2>2. e = [d EXCEPT !.ifs = ifs]
    BY <2>1 DEF WithIf
  <2> HIDE DEF ifs
  <2>3. e.name = d.name /\ e.serial = d.serial /\ e.wrong = d.wrong
    BY <1>0, <2>2
  <2> QED
    BY <1>5, <2>1, <2>3
<1>6. CASE w.op = "primary"
  <2>1. devices' = [devices EXCEPT ![device].primary = w.on]
    BY <1>6 DEF Devices
  <2>2. e = [d EXCEPT !.primary = w.on]
    BY <2>1
  <2>3. e.name = d.name /\ e.serial = d.serial /\ e.wrong = d.wrong
    BY <1>0, <2>2
  <2> QED
    BY <1>6, <2>1, <2>3
<1> QED
  BY <1>1, <1>2, <1>3, <1>4, <1>5, <1>6

(* Only a device at hand that is there is written to.                      *)
LEMMA NamesKept ==
  ASSUME Recorded, NEW w, devices' = Devices(w),
         w.op \in {"tag", "lan", "field", "radio", "interface", "link",
                   "address", "assign", "primary"}
  PROVE  /\ DOMAIN devices' = DOMAIN devices
         /\ \A i \in DOMAIN devices : /\ devices'[i].name = devices[i].name
                                      /\ devices'[i].serial = devices[i].serial
<1>1. CASE device \in DOMAIN devices
  BY <1>1, RecordAfter
<1>2. CASE device \notin DOMAIN devices
  <2>1. devices' = devices
    <3>1. devices = [i \in DOMAIN devices |-> devices[i]]
      <4>1. IsSeq(devices)
        BY DEF Recorded, IsSeq
      <4> QED
        BY <4>1, Joined, SeqIs
    <3> QED
      BY <1>2, <3>1 DEF Devices
  <2> QED
    BY <2>1
<1> QED
  BY <1>1, <1>2

(* A device that is created has the name and the serial reported.          *)
LEMMA RecordNew ==
  ASSUME Recorded, NEW w, w.op = "device", devices' = Devices(w)
  PROVE  /\ Len(devices) + 1 \notin DOMAIN devices
         /\ DOMAIN devices' = DOMAIN devices \cup {Len(devices) + 1}
         /\ \A i \in DOMAIN devices : devices'[i] = devices[i]
         /\ devices'[Len(devices) + 1].name = Reported.name
         /\ devices'[Len(devices) + 1].serial = Reported.serial
<1> DEFINE d == [name |-> Reported.name, serial |-> Reported.serial,
                 wrong |-> FieldsOf(Reported.kind) \ {"tag", "role"},
                 primary |-> NoIp, ifs |-> [n \in Reported.template |-> Bare]]
<1>1. devices' = Append(devices, d)
  BY DEF Devices
<1>2. d.name = Reported.name /\ d.serial = Reported.serial
  OBVIOUS
<1> HIDE DEF d
<1>3. /\ Len(devices) \in Nat /\ DOMAIN devices = 1 .. Len(devices)
      /\ DOMAIN devices' = 1 .. (Len(devices) + 1)
      /\ devices'[Len(devices) + 1] = d
      /\ \A i \in DOMAIN devices : devices'[i] = devices[i]
  BY <1>1, Appended
<1>4. 1 .. (Len(devices) + 1) = (1 .. Len(devices)) \cup {Len(devices) + 1}
  BY <1>3
<1> QED
  BY <1>2, <1>3, <1>4

(* The devices reported in a run are one NetBox device each.               *)
LEMMA ReportedApart ==
  ASSUME OnePerDevice, Located, NEW j \in DOMAIN report, NEW k \in DOMAIN report, j # k
  PROVE  Unlike(report[j], report[k])
BY DEF OnePerDevice, Located, Unlike

(* A write that is carried out leaves the NetBox devices of every other    *)
(* reported device as they were, and the device at hand its own.           *)
LEMMA CarryingMatched ==
  ASSUME OnePerDevice, Located, Recorded, Queued, Matched,
         queue # <<>>, NEW w, w = Head(queue), Carried(w), report' = report
  PROVE  /\ \A k \in DOMAIN report :
              k # at \/ stage \notin Begun => Existing(devices', report[k]) = Existing(devices, report[k])
         /\ stage \in Begun =>
              /\ w.op = "device" =>
                   /\ Len(devices) + 1 \in Existing(devices', Reported)
                   /\ Existing(devices', Reported) \subseteq Existing(devices, Reported) \cup {Len(devices) + 1}
              /\ w.op # "device" =>
                   /\ device \in Existing(devices, Reported) => device \in Existing(devices', Reported)
                   /\ Existing(devices', Reported) \subseteq Existing(devices, Reported)
<1>1. devices' = Devices(w)
  BY DEF Carried
<1>2. w.op \in Ops[stage] /\ stage \in DOMAIN Ops
  BY HeadIs DEF Located
<1>3. w.op \in {"tag", "lan", "device", "field", "serial", "radio", "interface", "link",
                "address", "assign", "primary"}
  BY <1>2, OpsOf
<1>4. CASE w.op = "device"
  <2>1. stage = "identity" /\ stage \in Begun /\ at \in DOMAIN report /\ Reported = report[at]
    BY <1>2, <1>4, OpsOf DEF Begun, OnDevice, Matched, Reported
  <2> DEFINE i == Len(devices) + 1
  <2>2. Created(devices, devices', i, Reported)
    BY <1>1, <1>4, RecordNew DEF Created
  <2>3. ASSUME NEW k \in DOMAIN report, k # at
        PROVE  Existing(devices', report[k]) = Existing(devices, report[k])
    <3>1. Unlike(Reported, report[k])
      BY <2>1, <2>3, ReportedApart
    <3> HIDE DEF i
    <3> QED
      BY <2>2, <3>1, FoundNew
  <2>4. /\ i \in Existing(devices', Reported)
        /\ Existing(devices', Reported) \subseteq Existing(devices, Reported) \cup {i}
    <3> HIDE DEF i
    <3> QED
      BY <2>2, FoundNew
  <2> QED
    BY <1>4, <2>1, <2>3, <2>4 DEF i
<1>5. CASE w.op = "serial"
  <2>1. stage \in {"bridge", "ip"} /\ apply
    BY <1>2, <1>5, StageOf, HeadIs
  <2>2. /\ stage \in Begun /\ at \in DOMAIN report /\ Reported = report[at]
        /\ device # Preview
    BY <2>1 DEF Begun, OnDevice, Matched, Reported, Located
  <2>3. device \in DOMAIN devices /\ device \in Existing(devices, Reported)
    BY <2>2 DEF Located, Matched
  <2>4. Renewed(devices, devices', device, Reported)
    BY <1>1, <1>5, <2>3, RecordAfter DEF Renewed
  <2>5. ASSUME NEW k \in DOMAIN report, k # at
        PROVE  Existing(devices', report[k]) = Existing(devices, report[k])
    <3>1. Existing(devices, Reported) \cap Existing(devices, report[k]) = {}
      BY <2>2, <2>5 DEF Matched
    <3>2. Unlike(Reported, report[k])
      BY <2>2, <2>5, ReportedApart
    <3> QED
      BY <2>4, <3>1, <3>2, FoundBySerial
  <2>6. device \in Existing(devices', Reported) /\ Existing(devices', Reported) \subseteq Existing(devices, Reported)
    BY <2>4, FoundBySerial
  <2> QED
    BY <1>5, <2>2, <2>5, <2>6
<1>6. CASE w.op \notin {"device", "serial"}
  <2>1. /\ DOMAIN devices' = DOMAIN devices
        /\ \A i \in DOMAIN devices : /\ devices'[i].name = devices[i].name
                                     /\ devices'[i].serial = devices[i].serial
    BY <1>1, <1>3, <1>6, NamesKept
  <2>2. \A d : Existing(devices', d) = Existing(devices, d)
    BY <2>1, FoundAlike
  <2> QED
    BY <1>6, <2>2
<1> QED
  BY <1>4, <1>5, <1>6

(* The run and NetBox begin with a device of its own for each.             *)
LEMMA InitMatched ==
  ASSUME OnePerDevice, Init
  PROVE  Matched
<1>1. PICK nb \in NetBoxes : devices = nb.devices
  BY DEF Init
<1>2. report \in Reports /\ stage = "start"
  BY DEF Init
<1> QED
  BY <1>1, <1>2 DEF OnePerDevice, Matched, Begun, OnDevice

(* Each step keeps the devices apart.                                      *)
LEMMA NextMatched ==
  ASSUME OnePerDevice, IInv, Matched, [Next]_vars
  PROVE  Matched'
<1> USE Stages
<1>0. Located /\ Recorded /\ Queued
  BY DEF IInv
<1>1. ASSUME StartRun PROVE Matched'
  <2>1. /\ matches' = [i \in 1..Len(report) |-> Classify(report[i])]
        /\ at' = 1 /\ stage' = "tag" /\ UNCHANGED <<report, devices, device>>
    BY <1>1 DEF StartRun, netbox
  <2>2. ASSUME NEW i \in DOMAIN report, matches'[i].action = "update"
        PROVE  matches'[i].id \in Existing(devices, report[i])
    <3>1. matches'[i] = Classify(report[i])
      BY <1>0, <2>1, ReportIs
    <3> QED
      BY <2>2, <3>1, ClassifyIs
  <2>3. stage' \notin Begun
    BY <2>1 DEF Begun, OnDevice
  <2> QED
    BY <2>1, <2>2, <2>3 DEF Matched
<1>2. ASSUME SyncTag \/ SyncLans PROVE Matched'
  BY <1>2 DEF SyncTag, SyncLans, Enqueue, Matched, Begun, OnDevice, netbox
<1>3. ASSUME StartDevice PROVE Matched'
  <2>1. /\ stage = "device" /\ stage' \in {"identity", "next"} /\ at <= Len(report)
        /\ device' = matches[at].id /\ UNCHANGED <<report, devices, matches, at>>
    BY <1>3 DEF StartDevice, Enqueue, netbox
  <2>2. at \in DOMAIN report /\ stage \notin Begun /\ stage' \in Begun /\ stage # "start"
    BY <1>0, <2>1, ReportIs DEF Located, Begun, OnDevice
  <2>3. device' # Preview => device' \in Existing(devices, report[at])
    BY <1>0, <2>1, <2>2 DEF Located, Matched
  <2>4. queue' # <<>> => matches[at].action = "create"
    BY <1>3 DEF StartDevice
  <2>5. queue' # <<>> => device' = Preview
    BY <1>0, <2>1, <2>2, <2>4 DEF Located
  <2> QED
    BY <2>1, <2>2, <2>3, <2>5 DEF Matched, Reported
<1>4. ASSUME SyncIdentity \/ SyncBridge \/ SyncIp \/ SyncRadios PROVE Matched'
  <2>1. /\ stage \in Begun /\ stage' \in Begun \ {"identity"} /\ stage # "start"
        /\ UNCHANGED <<report, devices, matches, at, device>>
    BY <1>4 DEF SyncIdentity, SyncBridge, SyncIp, SyncRadios, Enqueue, Begun, OnDevice, netbox
  <2> QED
    BY <2>1 DEF Matched, Reported
<1>5. ASSUME NextDevice PROVE Matched'
  <2>1. /\ stage = "next" /\ stage' = "device" /\ at' = at + 1
        /\ UNCHANGED <<report, devices, matches, device>>
    BY <1>5 DEF NextDevice, netbox
  <2>2. stage' \notin Begun /\ stage # "start"
    BY <2>1 DEF Begun, OnDevice
  <2>3. \A j \in DOMAIN report : j > at' \/ j = at' => j > at
    BY <1>0, <2>1, ReportIs DEF Located
  <2> QED
    BY <2>1, <2>2, <2>3 DEF Matched
<1>6. ASSUME WriteOk \/ WriteFails PROVE Matched'
  <2>1. PICK w : w = Head(queue)
    OBVIOUS
  <2>2. /\ queue # <<>> /\ (stage' = stage \/ (stage' = "next" /\ w.op = "device"))
        /\ UNCHANGED <<report, matches, at>> /\ (Carried(w) \/ UNCHANGED devices)
    BY <1>6, <2>1 DEF WriteOk, WriteFails, netbox
  <2>3. w.op \in Ops[stage] /\ stage \in DOMAIN Ops /\ stage # "start"
    <3>1. w.op \in Ops[stage] /\ stage \in DOMAIN Ops
      BY <1>0, <2>1, <2>2, HeadIs DEF Located
    <3> QED
      BY <3>1, OpsOf
  <2>4. stage' \in Begun <=> stage \in Begun
    BY <2>2, <2>3, OpsOf DEF Begun, OnDevice
  <2>9. stage' = "identity" => queue' = <<>>
    <3>1. stage = "identity" => w.op = "device"
      BY <2>3, OpsOf
    <3>2. w.op = "device" => Tail(queue) = <<>>
      BY <1>0, <2>1, <2>2, HeadIs
    <3>3. queue' = <<>> \/ queue' = Tail(queue)
      BY <1>6, <2>1 DEF WriteOk, WriteFails
    <3> QED
      BY <2>2, <3>1, <3>2, <3>3
  <2>5. device' = IF w.op = "device" /\ WriteOk THEN Len(devices) + 1 ELSE device
    BY <1>6, <2>1 DEF WriteOk, WriteFails
  <2>6. WriteOk => Carried(w)
    BY <2>1 DEF WriteOk
  <2>7. CASE UNCHANGED devices /\ ~Carried(w)
    BY <2>2, <2>3, <2>4, <2>5, <2>6, <2>7, <2>9 DEF Matched, Reported
  <2>8. CASE Carried(w)
    <3>1. /\ \A k \in DOMAIN report :
               k # at \/ stage \notin Begun => Existing(devices', report[k]) = Existing(devices, report[k])
          /\ stage \in Begun /\ w.op = "device" =>
               /\ Len(devices) + 1 \in Existing(devices', Reported)
               /\ Existing(devices', Reported) \subseteq Existing(devices, Reported) \cup {Len(devices) + 1}
          /\ stage \in Begun /\ w.op # "device" =>
               /\ device \in Existing(devices, Reported) => device \in Existing(devices', Reported)
               /\ Existing(devices', Reported) \subseteq Existing(devices, Reported)
      BY <1>0, <2>1, <2>2, <2>8, CarryingMatched
    <3>2. Len(devices) + 1 \notin DOMAIN devices
      BY <1>0 DEF Recorded
    <3>3. \A d : Existing(devices, d) \subseteq DOMAIN devices
      BY DEF Existing
    <3>4. stage \in Begun => at \in DOMAIN report /\ Reported = report[at]
      BY DEF Matched, Reported
    <3>5. ASSUME NEW j \in DOMAIN report, NEW k \in DOMAIN report, j # k
          PROVE  Existing(devices', report[j]) \cap Existing(devices', report[k]) = {}
      <4>1. Existing(devices, report[j]) \cap Existing(devices, report[k]) = {}
        BY <3>5 DEF Matched
      <4>2. CASE stage \notin Begun
        BY <3>1, <4>1, <4>2
      <4>3. CASE stage \in Begun /\ j # at /\ k # at
        BY <3>1, <4>1, <4>3
      <4>4. CASE stage \in Begun /\ j = at
        <5>1. Existing(devices', report[k]) = Existing(devices, report[k])
          BY <3>1, <3>5, <4>4
        <5>2. Existing(devices', report[j]) \subseteq Existing(devices, report[j]) \cup {Len(devices) + 1}
          BY <3>1, <3>4, <4>4
        <5> QED
          BY <3>2, <3>3, <4>1, <5>1, <5>2
      <4>5. CASE stage \in Begun /\ k = at
        <5>1. Existing(devices', report[j]) = Existing(devices, report[j])
          BY <3>1, <3>5, <4>5
        <5>2. Existing(devices', report[k]) \subseteq Existing(devices, report[k]) \cup {Len(devices) + 1}
          BY <3>1, <3>4, <4>5
        <5> QED
          BY <3>2, <3>3, <4>1, <5>1, <5>2
      <4> QED
        BY <4>2, <4>3, <4>4, <4>5
    <3>6. stage \in Begun /\ device' # Preview => device' \in Existing(devices', Reported)
      <4>1. CASE w.op = "device" /\ WriteOk
        BY <2>5, <3>1, <4>1
      <4>2. CASE w.op = "device" /\ ~WriteOk
        <5>1. device = Preview
          BY <2>2, <2>3, <4>2, OpsOf DEF Matched
        <5> QED
          BY <2>5, <4>2, <5>1
      <4>3. CASE w.op # "device"
        BY <2>5, <3>1, <4>3 DEF Matched
      <4> QED
        BY <4>1, <4>2, <4>3
    <3>7. ASSUME NEW j \in DOMAIN report, j > at \/ (j = at /\ stage \notin Begun),
                 matches[j].action = "update"
          PROVE  matches[j].id \in Existing(devices', report[j])
      <4>1. matches[j].id \in Existing(devices, report[j])
        BY <2>3, <3>7 DEF Matched
      <4>2. j # at \/ stage \notin Begun
        BY <1>0, <3>7 DEF Located
      <4> QED
        BY <3>1, <4>1, <4>2
    <3> QED
      BY <2>2, <2>4, <2>9, <3>4, <3>5, <3>6, <3>7 DEF Matched, Reported
  <2> QED
    BY <2>2, <2>7, <2>8
<1>7. ASSUME TagFails PROVE Matched'
  <2>1. stage' = "start" /\ stage' \notin Begun
    BY <1>7 DEF TagFails, Begun, OnDevice
  <2>2. devices' = devices /\ report' = report
    <3>1. CASE UNCHANGED netbox
      BY <1>7, <3>1 DEF TagFails, netbox
    <3>2. CASE Carried(Head(queue))
      BY <1>7, <3>2 DEF TagFails, Carried, Devices
    <3> QED
      BY <1>7, <3>1, <3>2 DEF TagFails
  <2> QED
    BY <2>1, <2>2 DEF Matched
<1>8. ASSUME EndRun PROVE Matched'
  BY <1>8 DEF EndRun, Matched, Begun, OnDevice, netbox
<1>9. CASE UNCHANGED vars
  BY <1>9 DEF vars, netbox, Matched, Reported
<1> QED
  BY <1>1, <1>2, <1>3, <1>4, <1>5, <1>6, <1>7, <1>8, <1>9 DEF Next

-----------------------------------------------------------------------------
(* What a stage that leaves the run clean puts in the queue.               *)
LEMMA CleanStep ==
  ASSUME [Next]_vars, stage # "start", stage' # "start", Clean'
  PROVE  Clean /\ apply' = apply /\ report' = report /\ matches' = matches
<1> USE DEF Clean, outcome, live
<1>1. UNCHANGED <<report, modes, ended>>
  BY DEF Next, vars, StartRun, SyncTag, SyncLans, StartDevice, SyncIdentity, SyncBridge, SyncIp,
         SyncRadios, NextDevice, WriteOk, WriteFails, TagFails, EndRun
<1>2. apply' = apply
  BY <1>1 DEF apply
<1>3. unread' = unread
  BY DEF Next, vars, StartRun, SyncTag, SyncLans, StartDevice, SyncIdentity, SyncBridge, SyncIp,
         SyncRadios, NextDevice, WriteOk, WriteFails, TagFails, EndRun
<1>5. failed => failed'
  BY DEF Next, vars, StartRun, SyncTag, SyncLans, StartDevice, SyncIdentity, SyncBridge, SyncIp,
         SyncRadios, NextDevice, WriteOk, WriteFails, TagFails, EndRun
<1>6. issues => issues'
  <2>1. ASSUME SyncTag \/ SyncLans \/ StartDevice \/ SyncIdentity \/ SyncBridge PROVE issues => issues'
    BY <2>1 DEF SyncTag, SyncLans, StartDevice, SyncIdentity, SyncBridge
  <2>2. ASSUME SyncIp PROVE issues => issues'
    BY <2>2 DEF SyncIp
  <2>3. ASSUME SyncRadios PROVE issues => issues'
    BY <2>3 DEF SyncRadios
  <2>4. ASSUME NextDevice \/ WriteOk \/ WriteFails \/ TagFails \/ EndRun PROVE issues => issues'
    BY <2>4 DEF NextDevice, WriteOk, WriteFails, TagFails, EndRun
  <2>5. ~StartRun
    BY DEF StartRun
  <2> QED
    BY <2>1, <2>2, <2>3, <2>4, <2>5 DEF Next, vars
<1>4. changes => changes'
  BY DEF Next, vars, StartRun, SyncTag, SyncLans, StartDevice, SyncIdentity, SyncBridge, SyncIp,
         SyncRadios, NextDevice, WriteOk, WriteFails, TagFails, EndRun, Enqueue
<1>7. matches' = matches
  BY DEF Next, vars, StartRun, SyncTag, SyncLans, StartDevice, SyncIdentity, SyncBridge, SyncIp,
         SyncRadios, NextDevice, WriteOk, WriteFails, TagFails, EndRun
<1> QED
  BY <1>1, <1>2, <1>3, <1>4, <1>5, <1>6, <1>7

(* What a clean run is to write is in the queue: of a plan, nothing.       *)
LEMMA CleanQueue ==
  ASSUME NEW writes, NEW nextStage, Enqueue(writes, nextStage), Clean', UNCHANGED <<modes, ended>>
  PROVE  queue' = writes /\ stage' = nextStage
<1>1. apply' = apply
  BY DEF apply
<1> QED
  BY <1>1 DEF Enqueue, Clean

(* Writes to come, in a sequence of writes.                                *)
LEMMA ComingJoined ==
  ASSUME NEW s, NEW t, IsSeq(s), IsSeq(t), NEW op, NEW on
  PROVE  Coming(s \o t, op, on) <=> Coming(s, op, on) \/ Coming(t, op, on)
<1>1. PICK q : q = s \o t
  OBVIOUS
<1>2. /\ Len(s) \in Nat /\ Len(t) \in Nat
      /\ DOMAIN s = 1 .. Len(s) /\ DOMAIN t = 1 .. Len(t)
      /\ DOMAIN q = 1 .. (Len(s) + Len(t))
      /\ \A i \in 1 .. Len(s) : q[i] = s[i]
      /\ \A i \in 1 .. Len(t) : q[Len(s) + i] = t[i]
  BY <1>1, Joined
<1>3. ASSUME NEW k \in DOMAIN q
      PROVE  (\E i \in DOMAIN s : q[k] = s[i]) \/ (\E i \in DOMAIN t : q[k] = t[i])
  <2>1. CASE k <= Len(s)
    BY <1>2, <2>1
  <2>2. CASE k > Len(s)
    <3>1. k - Len(s) \in DOMAIN t /\ k = Len(s) + (k - Len(s))
      BY <1>2, <2>2
    <3> QED
      BY <1>2, <3>1
  <2> QED
    BY <1>2, <2>1, <2>2
<1>4. \A i \in DOMAIN s : i \in DOMAIN q /\ q[i] = s[i]
  BY <1>2
<1>5. \A i \in DOMAIN t : Len(s) + i \in DOMAIN q /\ q[Len(s) + i] = t[i]
  BY <1>2
<1>6. Coming(q, op, on) => Coming(s, op, on) \/ Coming(t, op, on)
  BY <1>3 DEF Coming
<1>7. Coming(s, op, on) => Coming(q, op, on)
  BY <1>4 DEF Coming
<1>8. Coming(t, op, on) => Coming(q, op, on)
  BY <1>5 DEF Coming
<1> QED
  BY <1>1, <1>6, <1>7, <1>8

(* Of one write, or of none.                                               *)
LEMMA ComingOne ==
  ASSUME NEW w, NEW op, NEW on
  PROVE  /\ Coming(<<w>>, op, on) <=> w.op = op /\ w.on = on
         /\ ~Coming(<<>>, op, on)
BY Single, Empty DEF Coming

(* The first write of a sequence, and the others.                          *)
LEMMA ComingHead ==
  ASSUME NEW q, IsSeq(q), q # <<>>, NEW op, NEW on
  PROVE  /\ Coming(q, op, on) => (Head(q).op = op /\ Head(q).on = on) \/ Coming(Tail(q), op, on)
         /\ Coming(Tail(q), op, on) => Coming(q, op, on)
<1>1. PICK t : t = Tail(q)
  OBVIOUS
<1>2. /\ Len(q) \in Nat /\ DOMAIN q = 1 .. Len(q)
      /\ Head(q) = q[1] /\ 1 \in DOMAIN q
      /\ DOMAIN t = 1 .. (Len(q) - 1)
      /\ \A i \in 1 .. (Len(q) - 1) : t[i] = q[i + 1]
  BY <1>1, Rest
<1>3. \A k \in DOMAIN q : k = 1 \/ (k - 1 \in DOMAIN t /\ t[k - 1] = q[k])
  BY <1>2
<1>4. \A k \in DOMAIN t : k + 1 \in DOMAIN q /\ t[k] = q[k + 1]
  BY <1>2
<1> QED
  BY <1>1, <1>2, <1>3, <1>4 DEF Coming

(* A write that may be there or not.                                       *)
LEMMA ComingWhen ==
  ASSUME NEW c, NEW w
  PROVE  /\ IsSeq(When(c, w))
         /\ c => Coming(When(c, w), w.op, w.on)
         /\ \A op, on : Coming(When(c, w), op, on) => c /\ w.op = op /\ w.on = on
<1>1. (When(c, w) = <<w>> /\ c) \/ (When(c, w) = <<>> /\ ~c)
  BY DEF When
<1>2. IsSeq(<<w>>) /\ IsSeq(<<>>)
  BY Single, Empty
<1> QED
  BY <1>1, <1>2, ComingOne

(* _update_identity and _sync_platform see to the serial and the fields,   *)
(* but for a platform that NetBox lacks.                                   *)
LEMMA IdentityComing ==
  ASSUME {"role", "tag", "platform"} \cap Reported.lacks = {}
  PROVE  Identified(IdentityWrites)
<1> DEFINE fields == (This.wrong \cap FieldsOf(Reported.kind)) \ Reported.lacks
           stale == Reported.serial \notin {"", This.serial}
           role == When("role" \in fields, Set("field", "role"))
           tag == When("tag" \in fields, Set("field", "tag"))
           serial == When(stale, Set("serial", NoName))
           platform == When("platform" \in fields, Set("field", "platform"))
<1>1. IdentityWrites = ((role \o tag) \o serial) \o platform
  BY DEF IdentityWrites
<1>2. \A op, on : Set(op, on).op = op /\ Set(op, on).on = on
  BY DEF Set, Write
<1>12. PICK wr, wt, wp, ws : /\ wr = Set("field", "role") /\ wt = Set("field", "tag")
                             /\ wp = Set("field", "platform") /\ ws = Set("serial", NoName)
  OBVIOUS
<1>3. /\ IsSeq(role) /\ ("role" \in fields => Coming(role, "field", "role"))
      /\ IsSeq(tag) /\ ("tag" \in fields => Coming(tag, "field", "tag"))
      /\ IsSeq(platform) /\ ("platform" \in fields => Coming(platform, "field", "platform"))
      /\ IsSeq(serial) /\ (stale => Coming(serial, "serial", NoName))
  <2>1. /\ IsSeq(role) /\ ("role" \in fields => Coming(role, wr.op, wr.on))
        /\ IsSeq(tag) /\ ("tag" \in fields => Coming(tag, wt.op, wt.on))
    BY <1>12, ComingWhen
  <2>2. IsSeq(platform) /\ ("platform" \in fields => Coming(platform, wp.op, wp.on))
    BY <1>12, ComingWhen
  <2>3. IsSeq(serial) /\ (stale => Coming(serial, ws.op, ws.on))
    BY <1>12, ComingWhen
  <2> HIDE DEF role, tag, serial, platform, fields, stale
  <2> QED
    BY <1>2, <1>12, <2>1, <2>2, <2>3
<1>4. \A f \in {"role", "tag", "platform"} \cap FieldsOf(Reported.kind) :
        f \in This.wrong => f \in fields
  OBVIOUS
<1>5. Reported.serial # "" => This.serial = Reported.serial \/ stale
  OBVIOUS
<1> HIDE DEF role, tag, serial, platform, fields, stale
<1>6. PICK a : a = role \o tag
  OBVIOUS
<1>7. PICK b : b = a \o serial
  OBVIOUS
<1>8. IsSeq(a) /\ \A op, on : Coming(role, op, on) \/ Coming(tag, op, on) => Coming(a, op, on)
  BY <1>3, <1>6, ComingJoined, Joined
<1>9. IsSeq(b) /\ \A op, on : Coming(a, op, on) \/ Coming(serial, op, on) => Coming(b, op, on)
  BY <1>3, <1>7, <1>8, ComingJoined, Joined
<1>10. \A op, on : Coming(b, op, on) \/ Coming(platform, op, on) => Coming(IdentityWrites, op, on)
  BY <1>1, <1>3, <1>6, <1>7, <1>9, ComingJoined
<1>11. ASSUME NEW f \in {"role", "tag", "platform"}, f \in fields PROVE Coming(IdentityWrites, "field", f)
  BY <1>3, <1>8, <1>9, <1>10, <1>11
<1> QED
  BY <1>3, <1>4, <1>5, <1>9, <1>10, <1>11 DEF Identified

(* One write for each port of an order.                                    *)
EachPort(q, op, P) ==
  /\ q = [k \in DOMAIN Order(P) |-> q[k]]
  /\ \A k \in DOMAIN Order(P) : q[k].op = op /\ q[k].on = Order(P)[k]

(* They are to come for the ports of the order, and for no others.         *)
LEMMA ComingEach ==
  ASSUME NEW q, NEW op, NEW P, EachPort(q, op, P)
  PROVE  /\ IsSeq(q)
         /\ \A p \in P \cap Ports : Coming(q, op, p)
         /\ \A o, on : Coming(q, o, on) => o = op /\ on \in P \cap Ports
<1>1. PICK n : n = Order(P)
  OBVIOUS
<1>2. /\ IsSeq(n) /\ \A k \in DOMAIN n : n[k] \in P \cap Ports
      /\ \A p \in P \cap Ports : \E k \in DOMAIN n : n[k] = p
  BY <1>1, OrderIs
<1>3. q = [k \in DOMAIN n |-> q[k]] /\ \A k \in DOMAIN n : q[k].op = op /\ q[k].on = n[k]
  BY <1>1 DEF EachPort
<1>4. DOMAIN q = DOMAIN n /\ IsSeq(q)
  BY <1>2, <1>3, Mapped
<1> QED
  BY <1>2, <1>3, <1>4 DEF Coming

(* One port goes into the bridge by itself.                                *)
LEMMA PortsComing ==
  ASSUME NEW uplinks \in SUBSET Ports
  PROVE  /\ IsSeq(PortWrites(uplinks))
         /\ \A op, on : Coming(PortWrites(uplinks), op, on) => op = "link"
         /\ \A p \in Linked(uplinks) : Attached(This, p) \/ Coming(PortWrites(uplinks), "link", p)
<1> DEFINE In(p) == Has("br0") /\ LinkOf(p).bridge = "br0"
           Join(p) == Link(p, LinkOf(p).lag, "br0")
           P == {p \in Linked(uplinks) : ~In(p)}
<1>2. PICK q : q = PortWrites(uplinks)
  OBVIOUS
<1>3. q = [k \in DOMAIN Order(P) |-> Join(Order(P)[k])]
  BY <1>2 DEF PortWrites, Each
<1>5. \A p \in P : p \in Ports
  BY DEF Linked
<1>6. ASSUME NEW p \in Linked(uplinks), p \notin P PROVE Attached(This, p)
  <2>1. Has("br0") /\ LinkOf(p).bridge = "br0"
    BY <1>6
  <2>2. Has(p)
    BY <2>1 DEF LinkOf, Bare, NoName
  <2> QED
    BY <2>1, <2>2 DEF Attached, LinkOf, Has
<1>7. \A p : Join(p).op = "link" /\ Join(p).on = p
  BY DEF Link, Write
<1> HIDE DEF P, Join
<1>8. EachPort(q, "link", P)
  BY <1>3, <1>7 DEF EachPort
<1>9. /\ IsSeq(q)
      /\ \A p \in P \cap Ports : Coming(q, "link", p)
      /\ \A op, on : Coming(q, op, on) => op = "link" /\ on \in P \cap Ports
  BY <1>8, ComingEach
<1> QED
  BY <1>2, <1>5, <1>6, <1>9

(* More than one go into a bond, and the bond into the bridge.             *)
LEMMA BondComing ==
  ASSUME NEW uplinks \in SUBSET Ports
  PROVE  /\ IsSeq(BondWrites(uplinks))
         /\ \A on : Coming(BondWrites(uplinks), "interface", on) => on = "bond0"
         /\ \A p \in Linked(uplinks) :
              \/ Attached(This, p)
              \/ Coming(BondWrites(uplinks), "link", p)
              \/ Has(p) /\ LinkOf(p).lag = "bond0" /\ Coming(BondWrites(uplinks), "link", "bond0")
<1> DEFINE In(p) == Has("bond0") /\ LinkOf(p) = [lag |-> "bond0", bridge |-> NoName]
           P == {p \in Linked(uplinks) : ~In(p)}
<1>2. PICK q : q = Each(Member, Order(P))
  OBVIOUS
<1>3. q = [k \in DOMAIN Order(P) |-> Member(Order(P)[k])]
  BY <1>2 DEF Each
<1>5. \A p \in P : p \in Ports
  BY DEF Linked
<1>6. BondWrites(uplinks) = Bond \o q
  BY <1>2 DEF BondWrites
<1>7. \A p : Member(p).op = "link" /\ Member(p).on = p
  BY DEF Member, Link, Write
<1>8. /\ IsSeq(Bond)
      /\ \A on : Coming(Bond, "interface", on) => on = "bond0"
      /\ Has("bond0") => (BondIsIn /\ Has("br0")) \/ Coming(Bond, "link", "bond0")
  <2>1. CASE ~Has("bond0")
    <3>1. PICK w : w = Interface("bond0", "br0")
      OBVIOUS
    <3>2. Bond = <<w>> /\ w.on = "bond0"
      BY <2>1, <3>1 DEF Bond, Interface, Write
    <3> QED
      BY <2>1, <3>2, Single, ComingOne
  <2>2. CASE Has("bond0")
    <3>1. PICK c, w : /\ c = (~Has("br0") \/ This.ifs["bond0"].bridge # "br0")
                      /\ w = Link("bond0", NoName, "br0")
      OBVIOUS
    <3>2. Bond = When(c, w) /\ w.op = "link" /\ w.on = "bond0"
      BY <2>2, <3>1 DEF Bond, Link, Write
    <3>3. ~c => BondIsIn /\ Has("br0")
      BY <2>2, <3>1 DEF BondIsIn
    <3> QED
      BY <2>2, <3>2, <3>3, ComingWhen
  <2> QED
    BY <2>1, <2>2
<1>9. ASSUME NEW p \in Linked(uplinks), p \notin P
      PROVE  Has(p) /\ LinkOf(p).lag = "bond0" /\ Has("bond0") /\ (BondIsIn /\ Has("br0") => Attached(This, p))
  <2>1. Has("bond0") /\ LinkOf(p) = [lag |-> "bond0", bridge |-> NoName]
    BY <1>9
  <2>2. LinkOf(p).lag = "bond0"
    BY <2>1
  <2>3. Has(p)
    BY <2>2 DEF LinkOf, Bare, NoName
  <2> QED
    BY <2>1, <2>2, <2>3 DEF Attached, LinkOf, Has, BondIsIn
<1> HIDE DEF P
<1>10. EachPort(q, "link", P)
  BY <1>3, <1>7 DEF EachPort
<1>11. /\ IsSeq(q)
       /\ \A p \in P \cap Ports : Coming(q, "link", p)
       /\ \A op, on : Coming(q, op, on) => op = "link" /\ on \in P \cap Ports
  BY <1>10, ComingEach
<1>12. IsSeq(Bond \o q) /\ \A op, on : Coming(Bond \o q, op, on) <=> Coming(Bond, op, on) \/ Coming(q, op, on)
  BY <1>8, <1>11, ComingJoined, Joined
<1> QED
  BY <1>5, <1>6, <1>8, <1>9, <1>11, <1>12

(* The bridge stage leaves each uplink in the bridge, or on its way there: *)
(* all but a port that is missing among others.                            *)
LEMMA BridgeComing ==
  ASSUME NEW uplinks \in SUBSET Ports, NEW p \in uplinks
  PROVE  Bridging(BridgeWrites(uplinks), p)
<1> DEFINE Create(name) == Interface(name, NoName)
           bridge == When(~Has("br0"), Create("br0"))
           ports == Each(Create, Order(NewPorts(uplinks)))
           links == IF Linked(uplinks) = {} THEN <<>>
                    ELSE IF Has("bond0") \/ Cardinality(Linked(uplinks)) > 1 THEN BondWrites(uplinks)
                    ELSE PortWrites(uplinks)
<1>1. BridgeWrites(uplinks) = (bridge \o ports) \o links
  BY DEF BridgeWrites
<1>2. \A name, b : /\ Interface(name, b).op = "interface" /\ Interface(name, b).on = name
  BY DEF Interface, Write
<1>3. \A name, lag, b : Link(name, lag, b).op = "link" /\ Link(name, lag, b).on = name
  BY DEF Link, Write
<1>4. IsSeq(bridge) /\ \A op, on : Coming(bridge, op, on) => op = "interface" /\ on = "br0"
  BY <1>2, ComingWhen
<1>5. /\ IsSeq(ports)
      /\ \A op, on : Coming(ports, op, on) => op = "interface" /\ on \in NewPorts(uplinks)
  <2>1. PICK q, P : q = ports /\ P = NewPorts(uplinks)
    OBVIOUS
  <2>2. q = [k \in DOMAIN Order(P) |-> Interface(Order(P)[k], NoName)]
    BY <2>1 DEF Each
  <2>3. EachPort(q, "interface", P)
    BY <1>2, <2>2 DEF EachPort
  <2>4. IsSeq(q) /\ \A op, on : Coming(q, op, on) => op = "interface" /\ on \in P \cap Ports
    BY <2>3, ComingEach
  <2> QED
    BY <2>1, <2>4
<1>6. /\ IsSeq(links)
      /\ \A on : Coming(links, "interface", on) => on = "bond0"
      /\ p \in Linked(uplinks) =>
           \/ Attached(This, p)
           \/ Coming(links, "link", p)
           \/ Has(p) /\ LinkOf(p).lag = "bond0" /\ Coming(links, "link", "bond0")
  <2>1. CASE Linked(uplinks) = {}
    BY <2>1, Empty, ComingOne
  <2>2. CASE Linked(uplinks) # {} /\ (Has("bond0") \/ Cardinality(Linked(uplinks)) > 1)
    <3>1. links = BondWrites(uplinks)
      BY <2>2
    <3> HIDE DEF links
    <3> QED
      BY <3>1, BondComing
  <2>3. CASE Linked(uplinks) # {} /\ ~(Has("bond0") \/ Cardinality(Linked(uplinks)) > 1)
    <3>1. links = PortWrites(uplinks)
      BY <2>3
    <3> HIDE DEF links
    <3> QED
      BY <3>1, PortsComing
  <2> QED
    BY <2>1, <2>2, <2>3
<1>7. p \notin Linked(uplinks) => ~Has(p) /\ Wired # {} /\ p \notin NewPorts(uplinks)
  BY DEF Linked, NewPorts, Wired, Has
<1>8. p \in Ports
  OBVIOUS
<1> HIDE DEF bridge, ports, links
<1>9. PICK a, q : a = bridge \o ports /\ q = a \o links
  OBVIOUS
<1>10. IsSeq(a) /\ \A op, on : Coming(a, op, on) <=> Coming(bridge, op, on) \/ Coming(ports, op, on)
  BY <1>4, <1>5, <1>9, ComingJoined, Joined
<1>11. \A op, on : Coming(q, op, on) <=> Coming(a, op, on) \/ Coming(links, op, on)
  BY <1>6, <1>9, <1>10, ComingJoined
<1>12. BridgeWrites(uplinks) = q
  BY <1>1, <1>9
<1>13. CASE p \in Linked(uplinks)
  BY <1>6, <1>11, <1>12, <1>13 DEF Bridging
<1>14. CASE p \notin Linked(uplinks)
  <2>1. ~Coming(q, "interface", p)
    BY <1>4, <1>5, <1>6, <1>7, <1>8, <1>10, <1>11, <1>14, PortNames
  <2> QED
    BY <1>7, <1>12, <1>14, <2>1 DEF Bridging
<1> QED
  BY <1>13, <1>14

(* plan_primary_ip: the address and the primary IP.                        *)
LEMMA IpComing ==
  ASSUME Recorded, NEW ip, ip = Reported.ip, device \in DOMAIN devices
  PROVE  Addressing(IpWrites(ip)) /\ OnlyPrimary(IpWrites(ip))
<1> DEFINE absent == addresses[ip] = Absent
           moved == ~absent /\ addresses[ip] # <<device, IpTarget>>
           other == absent \/ This.primary # ip
           a == When(~Has(IpTarget), Interface(IpTarget, NoName))
           b == When(absent, Address("address", ip))
           c == When(moved, Address("assign", ip))
           d == When(other, Address("primary", ip))
<1>1. IpWrites(ip) = ((a \o b) \o c) \o d
  BY DEF IpWrites
<1>2. PICK wb, wc, wd : wb = Address("address", ip) /\ wc = Address("assign", ip) /\ wd = Address("primary", ip)
  OBVIOUS
<1>3. /\ wb.op = "address" /\ wb.on = ip
      /\ wc.op = "assign" /\ wc.on = ip
      /\ wd.op = "primary" /\ wd.on = ip
  BY <1>2 DEF Address, Write
<1>4. IsSeq(a) /\ IsSeq(b) /\ (absent => Coming(b, wb.op, wb.on))
  BY <1>2, ComingWhen
<1>5. IsSeq(c) /\ (moved => Coming(c, wc.op, wc.on))
  BY <1>2, ComingWhen
<1>6. IsSeq(d) /\ (other => Coming(d, wd.op, wd.on))
  BY <1>2, ComingWhen
<1>18. \A on : ~Coming(a, "primary", on)
  <2>1. PICK wa : wa = Interface(IpTarget, NoName)
    OBVIOUS
  <2>2. wa.op = "interface"
    BY <2>1 DEF Interface, Write
  <2> QED
    BY <2>1, <2>2, ComingWhen
<1>19. \A on : ~Coming(b, "primary", on) /\ ~Coming(c, "primary", on)
  <2>1. \A on : ~Coming(b, "primary", on)
    BY <1>2, <1>3, ComingWhen
  <2>2. \A on : ~Coming(c, "primary", on)
    BY <1>2, <1>3, ComingWhen
  <2> QED
    BY <2>1, <2>2
<1>20. \A on : Coming(d, "primary", on) => on = ip
  BY <1>2, <1>3, ComingWhen
<1>7. addresses[ip] = <<device, IpTarget>> => InPlace(ip)
  BY PlaceOf DEF InPlace, Own, IpTarget
<1>8. /\ absent \/ moved \/ InPlace(ip)
      /\ other \/ This.primary = ip
  BY <1>7
<1> HIDE DEF a, b, c, d, absent, moved, other
<1>9. PICK ab, abc : ab = a \o b /\ abc = ab \o c
  OBVIOUS
<1>10. IsSeq(ab) /\ \A op, on : Coming(ab, op, on) <=> Coming(a, op, on) \/ Coming(b, op, on)
  BY <1>4, <1>9, ComingJoined, Joined
<1>11. IsSeq(abc) /\ \A op, on : Coming(abc, op, on) <=> Coming(ab, op, on) \/ Coming(c, op, on)
  BY <1>5, <1>9, <1>10, ComingJoined, Joined
<1>12. \A op, on : Coming(IpWrites(ip), op, on) <=> Coming(abc, op, on) \/ Coming(d, op, on)
  BY <1>1, <1>6, <1>9, <1>11, ComingJoined
<1>13. PICK q : q = IpWrites(ip)
  OBVIOUS
<1>14. absent => Coming(q, "address", ip)
  BY <1>3, <1>4, <1>10, <1>11, <1>12, <1>13
<1>15. moved => Coming(q, "assign", ip)
  BY <1>3, <1>5, <1>11, <1>12, <1>13
<1>16. other => Coming(q, "primary", ip)
  BY <1>3, <1>6, <1>12, <1>13
<1>17. Addressing(q)
  BY <1>8, <1>14, <1>15, <1>16 DEF Addressing
<1>21. OnlyPrimary(q)
  BY <1>10, <1>11, <1>12, <1>13, <1>18, <1>19, <1>20 DEF OnlyPrimary
<1> QED
  BY <1>13, <1>17, <1>21

-----------------------------------------------------------------------------
(* Of the device at hand, step by step.                                    *)
LEMMA Shown ==
  ASSUME UNCHANGED <<report, devices, addresses, lans, matches, at, device, unread, silent>>,
         NEW q, queue' = q
  PROVE  /\ This' = This /\ Reported' = Reported /\ Uplinks' = Uplinks
         /\ Addressed' <=> Addressed
         /\ Identified(queue)' <=> Identified(q)
         /\ \A p : Bridging(queue, p)' <=> Bridging(q, p)
         /\ Addressing(queue)' <=> Addressing(q)
         /\ OnlyPrimary(queue)' <=> OnlyPrimary(q)
         /\ Tuning(queue)' <=> Tuning(q)
<1>1. Reported' = Reported
  BY DEF Reported
<1>2. This' = This
  BY <1>1 DEF This
<1>3. Uplinks' = Uplinks
  BY <1>1 DEF Uplinks
<1>4. Identified(queue)' <=> Identified(q)
  BY <1>1, <1>2 DEF Identified, Coming
<1>5. \A p : Bridging(queue, p)' <=> Bridging(q, p)
  <2>1. \A n : Has(n)' <=> Has(n)
    BY <1>2 DEF Has
  <2>2. \A n : LinkOf(n)' = LinkOf(n)
    BY <1>2, <2>1 DEF LinkOf
  <2>3. Wired' = Wired
    BY <1>2 DEF Wired
  <2> QED
    BY <1>2, <2>1, <2>2, <2>3 DEF Bridging, Coming
<1>6. Addressing(queue)' <=> Addressing(q)
  BY <1>1, <1>2 DEF Addressing, InPlace, Own, Coming
<1>7. Tuning(queue)' <=> Tuning(q)
  <2>1. Noted(Reported)' = Noted(Reported)
    BY <1>1 DEF Noted
  <2> QED
    BY <1>2, <2>1 DEF Tuning, Coming
<1>8. OnlyPrimary(queue)' <=> OnlyPrimary(q)
  BY <1>1 DEF OnlyPrimary, Coming
<1>9. Addressed' <=> Addressed
  BY <1>1 DEF Addressed
<1> QED
  BY <1>1, <1>2, <1>3, <1>4, <1>5, <1>6, <1>7, <1>8, <1>9

(* What holds of a device with nothing left to write holds whatever is     *)
(* queued next.                                                            *)
LEMMA Settled ==
  ASSUME NEW q
  PROVE  /\ Identified(<<>>) => Identified(q)
         /\ Addressing(<<>>) => Addressing(q)
<1>1. \A op, on : ~Coming(<<>>, op, on)
  BY ComingOne
<1> QED
  BY <1>1 DEF Identified, Addressing

(* What is reported of a device.                                           *)
LEMMA ReportedIs ==
  ASSUME Located, Matched, stage \in Begun
  PROVE  /\ at \in DOMAIN report /\ Reported \in Range(report)
         /\ Reported.uplinks \subseteq Ports /\ Reported.lacks \subseteq {"platform", "radio"}
         /\ Reported.skips \subseteq {"radio", "channel"}
         /\ Uplinks \subseteq Ports
<1>1. at \in DOMAIN report
  BY DEF Matched
<1>2. Reported \in Range(report)
  BY <1>1 DEF Reported, Range
<1>3. /\ Reported.uplinks \subseteq Ports /\ Reported.lacks \subseteq {"platform", "radio"}
      /\ Reported.skips \subseteq {"radio", "channel"}
  BY <1>2, ReportsAssumption DEF Located
<1> QED
  BY <1>1, <1>2, <1>3 DEF Uplinks

(* The device is matched or to be created.                                 *)
LEMMA StartUnderway ==
  ASSUME IInv, StartDevice, Clean'
  PROVE  Underway'
<1>0. Located
  BY DEF IInv
<1>1. /\ stage = "device" /\ queue = <<>> /\ at <= Len(report) /\ device' = matches[at].id
      /\ UNCHANGED <<report, modes, devices, matches, at, ended>>
  BY DEF StartDevice, netbox
<1>2. at \in DOMAIN report
  BY <1>0, <1>1, ReportIs DEF Located
<1>3. /\ matches[at].action \in {"update", "create", "blocked"}
      /\ matches[at].action = "update" => matches[at].id \in DOMAIN devices
  BY <1>0, <1>1, <1>2 DEF Located
<1>4. matches[at].action # "blocked"
  <2>1. matches[at].action = "blocked" => failed'
    BY DEF StartDevice
  <2> QED
    BY <2>1 DEF Clean
<1>5. CASE matches[at].action = "create"
  <2>1. PICK writes : writes = <<Set("device", NoName)>>
    OBVIOUS
  <2>2. Enqueue(writes, "identity")
    BY <1>5, <2>1 DEF StartDevice
  <2>3. queue' = writes /\ stage' = "identity"
    BY <1>1, <2>2, CleanQueue
  <2> QED
    BY <2>1, <2>3 DEF Underway
<1>6. CASE matches[at].action = "update"
  <2>1. stage' = "identity"
    BY <1>6 DEF StartDevice
  <2> QED
    BY <1>1, <1>3, <1>6, <2>1 DEF Underway
<1> QED
  BY <1>3, <1>4, <1>5, <1>6

(* A stage begins with nothing left to write.                              *)
LEMMA StageBegins ==
  ASSUME IInv, Matched, Underway, stage \in OnDevice, queue = <<>>, Clean
  PROVE  /\ device \in DOMAIN devices /\ This = devices[device]
         /\ stage # "identity" =>
              /\ Identified(<<>>)
              /\ Addressed /\ stage = "radio" => Addressing(<<>>)
              /\ Reported.kind = "ap" =>
                   /\ stage = "ip" => \A p \in Uplinks : Bridging(<<>>, p)
                   /\ stage = "radio" => \A p \in Reported.uplinks : Attached(This, p)
<1>1. queue # <<Set("device", NoName)>>
  BY Single, Empty
<1>2. device \in DOMAIN devices
  BY <1>1 DEF Underway, Begun
<1>3. This = devices[device]
  BY <1>2, DeviceThere DEF IInv
<1> QED
  BY <1>2, <1>3 DEF Underway, Begun

(* The serial, the role, the tag and the platform are in the queue.        *)
LEMMA IdentityUnderway ==
  ASSUME IInv, Matched, Underway, SyncIdentity, Clean, Clean'
  PROVE  Underway'
<1>1. /\ stage = "identity" /\ stage \in OnDevice /\ stage \in Begun /\ queue = <<>>
      /\ UNCHANGED <<report, modes, devices, addresses, lans, matches, at, device, unread, silent,
                     ended>>
  BY DEF SyncIdentity, netbox, live, OnDevice, Begun
<1>2. device \in DOMAIN devices
  BY <1>1, StageBegins
<1>3. PICK writes, nextStage :
        /\ writes = IdentityWrites /\ Enqueue(writes, nextStage)
        /\ nextStage = IF Reported.kind = "ap" THEN "bridge" ELSE "ip"
  BY DEF SyncIdentity
<1>4. queue' = writes /\ stage' = nextStage
  BY <1>1, <1>3, CleanQueue
<1>5. "platform" \notin Reported.lacks
  BY DEF SyncIdentity, Clean
<1>6. {"role", "tag", "platform"} \cap Reported.lacks = {}
  BY <1>1, <1>5, ReportedIs DEF IInv
<1>7. Identified(queue)' /\ Reported' = Reported
  BY <1>1, <1>3, <1>4, <1>6, IdentityComing, Shown
<1> QED
  BY <1>1, <1>2, <1>3, <1>4, <1>7 DEF Underway

(* The uplinks are.                                                        *)
LEMMA BridgeUnderway ==
  ASSUME IInv, Matched, Underway, SyncBridge, Clean, Clean'
  PROVE  Underway'
<1>1. /\ stage = "bridge" /\ stage \in OnDevice /\ stage \in Begun /\ queue = <<>>
      /\ UNCHANGED <<report, modes, devices, addresses, lans, matches, at, device, unread, silent,
                     ended>>
  BY DEF SyncBridge, netbox, live, OnDevice, Begun
<1>2. device \in DOMAIN devices /\ Identified(<<>>)
  BY <1>1, StageBegins
<1>3. PICK writes : writes = BridgeWrites(Uplinks) /\ Enqueue(writes, "ip")
  BY DEF SyncBridge
<1>4. queue' = writes /\ stage' = "ip"
  BY <1>1, <1>3, CleanQueue
<1>5. Uplinks \in SUBSET Ports
  BY <1>1, ReportedIs DEF IInv
<1>6. \A p \in Uplinks : Bridging(writes, p)
  BY <1>3, <1>5, BridgeComing
<1>7. Identified(writes)
  BY <1>2, Settled
<1>8. Identified(queue)' /\ Uplinks' = Uplinks /\ \A p : Bridging(queue, p)' <=> Bridging(writes, p)
  BY <1>1, <1>4, <1>7, Shown
<1> QED
  BY <1>1, <1>2, <1>4, <1>6, <1>8 DEF Underway

(* The address and the primary IP are, and the uplinks are in the bridge.  *)
LEMMA IpUnderway ==
  ASSUME IInv, Matched, Underway, SyncIp, Clean, Clean'
  PROVE  Underway'
<1>1. /\ stage = "ip" /\ stage \in OnDevice /\ stage \in Begun /\ queue = <<>>
      /\ UNCHANGED <<report, modes, devices, addresses, lans, matches, at, device, unread, silent,
                     ended>>
  BY DEF SyncIp, netbox, live, OnDevice, Begun
<1>2. /\ device \in DOMAIN devices /\ Identified(<<>>)
      /\ Reported.kind = "ap" => \A p \in Uplinks : Bridging(<<>>, p)
  BY <1>1, StageBegins
<1> DEFINE ip == Reported.ip
           wanted == Reported.ip # NoIp /\ (Reported.kind = "ap" \/ matches[at].action = "create")
           portless == /\ Reported.kind = "ap"
                       /\ Uplinks \ DOMAIN This.ifs # {}
                       /\ DOMAIN This.ifs \cap Ports # {}
           refused == wanted /\ ~noBridge /\ IpBlocked(Reported.ip)
<1>3. ~issues' /\ ~unread' /\ issues' = (issues \/ refused \/ portless \/ (wanted /\ noBridge) \/ at \in silent)
  BY DEF SyncIp, Clean
<1>4. ~refused /\ ~portless /\ ~(wanted /\ noBridge) /\ at \notin silent /\ ~unread
  BY <1>1, <1>3
<1>5. Uplinks = Reported.uplinks
  BY <1>4 DEF Uplinks
<1>6. IF wanted THEN Enqueue(IpWrites(ip), "radio") ELSE stage' = "radio" /\ UNCHANGED <<queue, changes>>
  <2>1. IF wanted /\ ~noBridge /\ ~refused
        THEN Enqueue(IpWrites(Reported.ip), "radio")
        ELSE stage' = "radio" /\ UNCHANGED <<queue, changes>>
    BY DEF SyncIp
  <2> HIDE DEF wanted, refused
  <2> QED
    BY <1>4, <2>1
<1>7. ASSUME Reported.kind = "ap", NEW p \in Reported.uplinks PROVE Attached(This, p)
  <2>1. Bridging(<<>>, p) /\ p \in Uplinks
    BY <1>2, <1>5, <1>7
  <2>2. \A op, on : ~Coming(<<>>, op, on)
    BY ComingOne
  <2>3. ~(~Has(p) /\ Wired # {})
    BY <1>4, <1>7, <2>1 DEF Has, Wired
  <2> QED
    BY <2>1, <2>2, <2>3 DEF Bridging
<1> HIDE DEF wanted, portless, refused
<1>8. PICK q : /\ queue' = q /\ stage' = "radio" /\ (wanted => q = IpWrites(ip))
               /\ ~wanted => q = <<>>
  <2>1. CASE wanted
    BY <1>1, <1>6, <2>1, CleanQueue
  <2>2. CASE ~wanted
    BY <1>1, <1>6, <2>2
  <2> QED
    BY <2>1, <2>2
<1>9. Addressed => Addressing(q) /\ OnlyPrimary(q)
  <2>1. CASE wanted
    <3>1. Addressing(IpWrites(ip)) /\ OnlyPrimary(IpWrites(ip))
      BY <1>2, IpComing DEF IInv
    <3> QED
      BY <1>8, <2>1, <3>1
  <2>2. CASE ~wanted /\ Addressed
    <3>1. Reported.ip = NoIp
      BY <2>2 DEF wanted, Addressed
    <3>2. \A op, on : ~Coming(q, op, on)
      BY <1>8, <2>2, ComingOne
    <3> QED
      BY <3>1, <3>2 DEF Addressing, OnlyPrimary
  <2> QED
    BY <2>1, <2>2
<1>10. Identified(q)
  BY <1>2, Settled
<1>11. /\ Identified(queue)' /\ Reported' = Reported /\ This' = This
       /\ Addressed' => Addressing(queue)' /\ OnlyPrimary(queue)'
  BY <1>1, <1>8, <1>9, <1>10, Shown
<1> QED
  BY <1>1, <1>2, <1>7, <1>8, <1>11 DEF Underway

(* So are the radios.                                                      *)
LEMMA RadioUnderway ==
  ASSUME IInv, Matched, Underway, SyncRadios, Clean, Clean'
  PROVE  Underway'
<1>1. /\ stage = "radio" /\ stage \in OnDevice /\ stage \in Begun /\ queue = <<>>
      /\ UNCHANGED <<report, modes, devices, addresses, lans, matches, at, device, unread, silent,
                     ended>>
  BY DEF SyncRadios, netbox, live, OnDevice, Begun
<1>2. /\ device \in DOMAIN devices /\ Identified(<<>>)
      /\ Addressed => Addressing(<<>>)
      /\ Reported.kind = "ap" => \A p \in Reported.uplinks : Attached(This, p)
  BY <1>1, StageBegins
<1> DEFINE reported == Reported.kind = "ap" /\ ~unread /\ "radio" \notin Reported.skips
           lacking == reported /\ "radio" \in Reported.lacks
           lost == Reported.ssids \cap noLans
           ambiguous == {ssid \in Reported.ssids : lans[ssid] > 1}
           fields == ({"radio", "channel"} \ Reported.skips)
                       \cup (IF lost \cup ambiguous = {} THEN {"lan"} ELSE {})
           due == reported /\ ~lacking /\ This.wrong \cap fields # {}
           on == IF "lan" \in fields THEN "lan" ELSE "radio"
<1>3. /\ Enqueue(When(due, Set("radio", on)), "next")
      /\ issues' = (issues \/ lacking \/ (reported /\ lost # {}))
  BY DEF SyncRadios
<1>4. Reported.kind = "ap" /\ "radio" \notin Reported.skips => reported /\ ~lacking /\ lost = {}
  <2>1. ~unread /\ ~issues'
    BY <1>1 DEF Clean
  <2> HIDE DEF lost, fields, due, on
  <2> QED
    BY <1>3, <2>1
<1>5. ASSUME Reported.kind = "ap", NEW f \in {"radio", "channel", "lan"} \ Noted(Reported)
      PROVE  f \in This.wrong => due /\ (f = "lan" => on = "lan")
  <2>1. /\ "radio" \notin Reported.skips /\ f \notin Reported.skips
        /\ f = "lan" => ambiguous = {}
    BY <1>5 DEF Noted
  <2>2. f \in fields
    BY <1>4, <1>5, <2>1
  <2>3. f = "lan" => on = "lan"
    BY <2>2
  <2> QED
    BY <1>4, <1>5, <2>1, <2>2, <2>3
<1>6. PICK w, q : w = Set("radio", on) /\ q = When(due, w)
  OBVIOUS
<1>7. queue' = q /\ stage' = "next"
  <2> HIDE DEF due, on
  <2> QED
    BY <1>1, <1>3, <1>6, CleanQueue
<1>8. w.op = "radio" /\ w.on = on
  BY <1>6 DEF Set, Write
<1>9. due => Coming(q, "radio", on)
  <2>1. due => Coming(When(due, w), w.op, w.on)
    <3> HIDE DEF due, on
    <3> QED
      BY ComingWhen
  <2> HIDE DEF due, on
  <2> QED
    BY <1>6, <1>8, <2>1
<1>10. Reported.kind = "ap" => Tuning(q)
  <2> SUFFICES ASSUME Reported.kind = "ap" PROVE Tuning(q)
    OBVIOUS
  <2>1. \A f \in {"radio", "channel", "lan"} \ Noted(Reported) :
          f \in This.wrong => due /\ (f = "lan" => on = "lan")
    BY <1>5
  <2> HIDE DEF due, on
  <2>2. due => \E k \in DOMAIN q : q[k].op = "radio"
    BY <1>9 DEF Coming
  <2> QED
    BY <1>9, <2>1, <2>2 DEF Tuning
<1>11. /\ Identified(q)
       /\ Addressed => Addressing(q)
  BY <1>2, Settled
<1>12. /\ Identified(queue)' /\ Reported' = Reported /\ This' = This
       /\ Addressed' => Addressing(queue)'
       /\ Reported.kind = "ap" => Tuning(queue)'
  BY <1>1, <1>7, <1>10, <1>11, Shown
<1> HIDE DEF due, on
<1> QED
  BY <1>1, <1>2, <1>7, <1>12 DEF Underway

-----------------------------------------------------------------------------
(* The first write of the queue is carried out, on the device at hand.     *)
Wrote(w) ==
  /\ queue # <<>> /\ w = Head(queue) /\ Carried(w) /\ queue' = Tail(queue)
  /\ stage \in Begun /\ w.op # "device" /\ device \in DOMAIN devices
  /\ UNCHANGED <<report, matches, at, device, unread, silent>>

(* The device at hand then, and what is to come still.                     *)
LEMMA ThisAfter ==
  ASSUME Located, Recorded, Queued, NEW w, Wrote(w)
  PROVE  /\ This = devices[device] /\ This' = devices'[device]
         /\ Reported' = Reported /\ Uplinks' = Uplinks
         /\ This.serial # This'.serial => w.op = "serial" /\ This'.serial = Reported.serial
         /\ w.op = "serial" => This'.serial = Reported.serial
         /\ This'.wrong = CASE w.op = "field" -> This.wrong \ {w.on}
                            [] w.op = "radio" -> This.wrong \ ({"radio", "channel", w.on} \ Reported.skips)
                            [] OTHER -> This.wrong
         /\ \A op, on : Coming(queue, op, on) => (w.op = op /\ w.on = on) \/ Coming(queue', op, on)
         /\ \A op, on : Coming(queue', op, on) => Coming(queue, op, on)
<1>1. /\ queue # <<>> /\ w = Head(queue) /\ Carried(w) /\ queue' = Tail(queue) /\ w.op # "device"
      /\ device \in DOMAIN devices /\ UNCHANGED <<report, at, device, unread, silent>>
  BY DEF Wrote
<1>2. devices' = Devices(w)
  BY <1>1 DEF Carried
<1>3. w.op \in {"tag", "lan", "field", "serial", "radio", "interface", "link",
                "address", "assign", "primary"}
  BY <1>1, HeadIs, OpsOf DEF Located
<1>4. Reported' = Reported
  BY <1>1 DEF Reported
<1>5. Uplinks' = Uplinks
  BY <1>1, <1>4 DEF Uplinks
<1>6. device # Preview /\ This = devices[device]
  BY <1>1, DeviceThere
<1>7. This' = devices'[device]
  BY <1>1, <1>6 DEF This
<1>8. /\ devices'[device].serial = IF w.op = "serial" THEN Reported.serial
                                   ELSE devices[device].serial
      /\ devices'[device].wrong = CASE w.op = "field" -> devices[device].wrong \ {w.on}
                                    [] w.op = "radio" ->
                                         devices[device].wrong \ ({"radio", "channel", w.on} \ Reported.skips)
                                    [] OTHER -> devices[device].wrong
  BY <1>1, <1>2, <1>3, RecordAfter
<1>9. PICK q : q = queue
  OBVIOUS
<1>10. IsSeq(q)
  BY <1>9 DEF Queued, IsSeq
<1>11. /\ \A op, on : Coming(q, op, on) => (Head(q).op = op /\ Head(q).on = on) \/ Coming(Tail(q), op, on)
       /\ \A op, on : Coming(Tail(q), op, on) => Coming(q, op, on)
  BY <1>1, <1>9, <1>10, ComingHead
<1>12. PICK t : t = Tail(queue)
  OBVIOUS
<1>13. queue' = t
  BY <1>1, <1>12
<1>14. /\ \A op, on : Coming(queue, op, on) => (w.op = op /\ w.on = on) \/ Coming(t, op, on)
       /\ \A op, on : Coming(t, op, on) => Coming(queue, op, on)
  BY <1>1, <1>9, <1>11, <1>12
<1>15. \A op, on : Coming(queue', op, on) <=> Coming(t, op, on)
  BY <1>13 DEF Coming
<1> QED
  BY <1>4, <1>5, <1>6, <1>7, <1>8, <1>14, <1>15

(* Serial and fields: what is not right is still to come.                  *)
LEMMA IdentifiedAfter ==
  ASSUME Located, Recorded, Queued, NEW w, Wrote(w), Identified(queue)
  PROVE  Identified(queue)'
<1>1. PICK a, b, r, q, t :
        a = This /\ b = This' /\ r = Reported /\ q = queue /\ t = queue'
  OBVIOUS
<1>2. /\ a.serial # b.serial => b.serial = r.serial
      /\ w.op = "serial" => b.serial = r.serial
      /\ b.wrong \subseteq a.wrong
      /\ w.op = "field" => w.on \notin b.wrong
      /\ \A op, on : Coming(q, op, on) => (w.op = op /\ w.on = on) \/ Coming(t, op, on)
      /\ Reported' = r
  BY <1>1, ThisAfter
<1>3. /\ r.serial # "" => a.serial = r.serial \/ Coming(q, "serial", NoName)
      /\ \A f \in {"role", "tag", "platform"} \cap FieldsOf(r.kind) :
           f \in a.wrong => Coming(q, "field", f)
  BY <1>1 DEF Identified
<1>4. /\ r.serial # "" => b.serial = r.serial \/ Coming(t, "serial", NoName)
      /\ \A f \in {"role", "tag", "platform"} \cap FieldsOf(r.kind) :
           f \in b.wrong => Coming(t, "field", f)
  BY <1>2, <1>3
<1>5. /\ (Reported.serial # "")' => b.serial = r.serial \/ Coming(t, "serial", NoName)
      /\ \A op, on : Coming(queue, op, on)' <=> Coming(t, op, on)
  BY <1>1, <1>2, <1>4 DEF Coming
<1> QED
  BY <1>1, <1>2, <1>4, <1>5 DEF Identified

(* Radios.                                                                 *)
LEMMA TuningAfter ==
  ASSUME Located, Recorded, Queued, NEW w, Wrote(w), stage = "next", Tuning(queue)
  PROVE  Tuning(queue)'
<1>1. PICK a, b, r, q, t :
        a = This /\ b = This' /\ r = Reported /\ q = queue /\ t = queue'
  OBVIOUS
<1>2. w.op = "radio"
  BY HeadIs DEF Wrote, Ops
<1>3. lans' = lans
  BY <1>2 DEF Wrote, Carried
<1>4. /\ b.wrong = a.wrong \ ({"radio", "channel", w.on} \ r.skips) /\ Reported' = r
      /\ \A op, on : Coming(q, op, on) => (w.op = op /\ w.on = on) \/ Coming(t, op, on)
  BY <1>1, <1>2, ThisAfter
<1>5. \A f \in {"radio", "channel", "lan"} \ Noted(r) :
        f \in a.wrong => Coming(q, "radio", f) \/ f \in {"radio", "channel"}
  BY <1>1 DEF Tuning
<1>6. Noted(Reported)' = Noted(r)
  BY <1>3, <1>4 DEF Noted
<1>7. \A f \in {"radio", "channel", "lan"} \ Noted(r) : f \notin r.skips
  BY DEF Noted
<1>8. ASSUME NEW f \in {"radio", "channel", "lan"} \ Noted(r), f \in b.wrong
      PROVE  Coming(t, "radio", f)
  <2>1. f \in a.wrong /\ f \notin {"radio", "channel", w.on}
    BY <1>4, <1>7, <1>8
  <2>2. Coming(q, "radio", f)
    BY <1>5, <2>1
  <2> QED
    BY <1>4, <2>1, <2>2
<1>9. \A f : Coming(queue, "radio", f)' <=> Coming(t, "radio", f)
  BY <1>1 DEF Coming
<1> QED
  BY <1>1, <1>6, <1>8, <1>9 DEF Tuning

(* The interfaces and the primary IP of the device at hand, after a write. *)
LEMMA LinksAfter ==
  ASSUME Located, Recorded, Queued, NEW w, Wrote(w)
  PROVE  /\ w.op \in {"interface", "link"} =>
              /\ DOMAIN This'.ifs = DOMAIN This.ifs \cup {w.on}
              /\ This'.ifs[w.on].lag = w.lag /\ This'.ifs[w.on].bridge = w.bridge
              /\ \A n \in DOMAIN This.ifs : n # w.on => This'.ifs[n] = This.ifs[n]
         /\ w.op \notin {"interface", "link"} => This'.ifs = This.ifs
         /\ w.op = "primary" => This'.primary = w.on
         /\ w.op # "primary" => This'.primary = This.primary
         /\ w.op = "interface" => ~Has(w.on)
         /\ w.op = "link" =>
              /\ Has(w.on)
              /\ w.bridge # "br0" => w.on \in Ports /\ w.lag = "bond0" /\ BondIsIn
              /\ w.bridge = "br0" => Has("br0")
<1>1. /\ queue # <<>> /\ w = Head(queue) /\ Carried(w) /\ device \in DOMAIN devices /\ w.op # "device"
  BY DEF Wrote
<1>2. devices' = Devices(w)
  BY <1>1 DEF Carried
<1>3. This = devices[device] /\ This' = devices'[device]
  BY ThisAfter
<1>4. Proper(w) /\ Needs(w) \subseteq Held /\ Possible(w) /\ w.op \in Ops[stage] /\ stage \in DOMAIN Ops
  BY <1>1, HeadIs, HeadPossible DEF Located
<1>5. CASE w.op \in {"interface", "link"}
  <2>1. /\ devices'[device].primary = devices[device].primary
        /\ DOMAIN devices'[device].ifs = DOMAIN devices[device].ifs \cup {w.on}
        /\ devices'[device].ifs[w.on] = [lag |-> w.lag, bridge |-> w.bridge]
        /\ \A n \in DOMAIN devices[device].ifs :
              n # w.on => devices'[device].ifs[n] = devices[device].ifs[n]
    BY <1>1, <1>2, <1>5, InterfaceLeaves
  <2>2. devices'[device].ifs[w.on].lag = w.lag /\ devices'[device].ifs[w.on].bridge = w.bridge
    BY <2>1
  <2>3. w.op = "interface" => ~Has(w.on)
    BY <1>4 DEF Possible
  <2>4. ASSUME w.op = "link"
        PROVE  /\ Has(w.on)
               /\ w.bridge # "br0" => w.on \in Ports /\ w.lag = "bond0" /\ BondIsIn
               /\ w.bridge = "br0" => Has("br0")
    <3>1. Needs(w) = If({w.on, w.lag, w.bridge} \ {NoName})
                        \cup (IF w.bridge = "br0" THEN {} ELSE {BondIn})
      BY <2>4 DEF Needs
    <3>2. w.on # NoName
      BY <1>4, <2>4, PortNames DEF Proper, NoName
    <3>3. <<"interface", w.on>> \in Held
      BY <1>4, <3>1, <3>2, Tokens
    <3>4. w.bridge = "br0" => <<"interface", "br0">> \in Held
      BY <1>4, <3>1, Tokens DEF NoName
    <3>5. w.bridge # "br0" => BondIn \in Held
      BY <1>4, <3>1
    <3>6. w.bridge # "br0" => w.on \in Ports /\ w.lag = "bond0"
      BY <1>4, <2>4 DEF Proper
    <3> QED
      BY <3>3, <3>4, <3>5, <3>6, HeldIs
  <2> QED
    BY <1>3, <1>5, <2>1, <2>2, <2>3, <2>4
<1>6. CASE Quiet(w.op)
  BY <1>1, <1>2, <1>3, <1>6, QuietLeaves DEF Quiet
<1>7. CASE w.op = "primary"
  BY <1>1, <1>2, <1>3, <1>7, PrimaryLeaves
<1> QED
  BY <1>1, <1>4, <1>5, <1>6, <1>7, OpsOf DEF Quiet

(* Uplinks: what is not in the bridge is still on its way there.           *)
LEMMA BridgingAfter ==
  ASSUME Located, Recorded, Queued, NEW w, Wrote(w), NEW p \in Ports, Bridging(queue, p)
  PROVE  Bridging(queue, p)'
<1>1. PICK old, new, q, t : old = This.ifs /\ new = This'.ifs /\ q = queue /\ t = queue'
  OBVIOUS
<1>2. /\ \A op, on : Coming(q, op, on) => (w.op = op /\ w.on = on) \/ Coming(t, op, on)
      /\ \A op, on : Coming(t, op, on) => Coming(q, op, on)
  BY <1>1, ThisAfter
<1>3. \A n : Has(n) <=> n \in DOMAIN old
  BY <1>1 DEF Has
<1>4. /\ w.op \in {"interface", "link"} =>
           /\ DOMAIN new = DOMAIN old \cup {w.on}
           /\ new[w.on].lag = w.lag /\ new[w.on].bridge = w.bridge
           /\ \A n \in DOMAIN old : n # w.on => new[n] = old[n]
      /\ w.op \notin {"interface", "link"} => new = old
      /\ w.op = "interface" => w.on \notin DOMAIN old
      /\ w.op = "link" =>
              /\ w.on \in DOMAIN old
              /\ w.bridge # "br0" => w.on \in Ports /\ w.lag = "bond0" /\ BondIsIn
              /\ w.bridge = "br0" => "br0" \in DOMAIN old
  BY <1>1, <1>3, LinksAfter
<1>5. BondIsIn => "bond0" \in DOMAIN old /\ old["bond0"].bridge = "br0" /\ "br0" \in DOMAIN old
  <2>1. BondIsIn => "bond0" \in DOMAIN old /\ old["bond0"].bridge = "br0"
    BY <1>1, <1>3 DEF BondIsIn
  <2>2. \A n \in DOMAIN old : old[n].bridge # NoName => old[n].bridge \in DOMAIN old
    <3>1. device \in DOMAIN devices /\ This = devices[device]
      BY ThisAfter DEF Wrote
    <3> QED
      BY <1>1, <3>1 DEF Recorded
  <2> QED
    BY <2>1, <2>2 DEF NoName
<1>6. Attached(This', p) <=>
        /\ {p, "br0"} \subseteq DOMAIN new
        /\ \/ new[p].bridge = "br0"
           \/ new[p].lag = "bond0" /\ "bond0" \in DOMAIN new /\ new["bond0"].bridge = "br0"
  BY <1>1 DEF Attached
<1>7. Attached(This', p) \/ Coming(t, "link", p)
        \/ (p \in DOMAIN new /\ new[p].lag = "bond0" /\ Coming(t, "link", "bond0"))
        \/ (p \notin DOMAIN new /\ DOMAIN new \cap Ports # {} /\ ~Coming(t, "interface", p))
      => Bridging(queue, p)'
  <2>1. Has(p)' <=> p \in DOMAIN new
    BY <1>1 DEF Has
  <2>2. p \in DOMAIN new => LinkOf(p)' = new[p]
    BY <1>1, <2>1 DEF LinkOf
  <2>3. Wired' = DOMAIN new \cap Ports
    BY <1>1 DEF Wired
  <2>4. \A op, on : Coming(queue, op, on)' <=> Coming(t, op, on)
    BY <1>1 DEF Coming
  <2> QED
    BY <2>1, <2>2, <2>3, <2>4 DEF Bridging
<1>8. p # "bond0" /\ p # "br0"
  BY PortNames
<1>9. ASSUME w.op = "link", w.on = p PROVE Attached(This', p)
  <2>1. CASE w.bridge = "br0"
    BY <1>4, <1>6, <1>9, <2>1
  <2>2. CASE w.bridge # "br0"
    <3>1. new["bond0"] = old["bond0"]
      BY <1>4, <1>5, <1>8, <1>9, <2>2
    <3> QED
      BY <1>4, <1>5, <1>6, <1>9, <2>2, <3>1
  <2> QED
    BY <2>1, <2>2
<1>10. CASE Attached(This, p)
  <2>1. Attached(devices'[device], p)
    BY <1>10, ThisAfter, CarryingAttached DEF Wrote
  <2> QED
    BY <1>7, <2>1, ThisAfter
<1>11. CASE Coming(queue, "link", p)
  BY <1>1, <1>2, <1>7, <1>9, <1>11
<1>12. CASE Has(p) /\ LinkOf(p).lag = "bond0" /\ Coming(queue, "link", "bond0")
  <2>1. p \in DOMAIN old /\ old[p].lag = "bond0" /\ Coming(q, "link", "bond0")
    BY <1>1, <1>3, <1>12 DEF LinkOf
  <2>2. CASE w.op = "link" /\ w.on = p
    BY <1>7, <1>9, <2>2
  <2>3. CASE ~(w.op = "link" /\ w.on = p)
    <3>1. p \in DOMAIN new /\ new[p] = old[p]
      BY <1>4, <2>1, <2>3
    <3>2. CASE Coming(t, "link", "bond0")
      BY <1>7, <2>1, <3>1, <3>2
    <3>3. CASE w.op = "link" /\ w.on = "bond0"
      <4>1. w.bridge = "br0"
        BY <1>4, <3>3, PortNames
      <4> QED
        BY <1>4, <1>6, <1>7, <2>1, <3>1, <3>3, <4>1
    <3> QED
      BY <1>2, <2>1, <3>2, <3>3
  <2> QED
    BY <2>2, <2>3
<1>13. CASE ~Has(p) /\ Wired # {} /\ ~Coming(queue, "interface", p)
  <2>1. p \notin DOMAIN old /\ DOMAIN old \cap Ports # {} /\ ~Coming(q, "interface", p)
    BY <1>1, <1>3, <1>13 DEF Wired
  <2>2. w.op = "interface" => w.on # p
    <3>1. Coming(queue, w.op, w.on)
      <4>1. IsSeq(queue) /\ queue # <<>> /\ w = Head(queue)
        BY DEF Wrote, Queued, IsSeq
      <4>2. 1 \in DOMAIN queue /\ queue[1] = w
        BY <4>1, Rest
      <4> QED
        BY <4>2 DEF Coming
    <3> QED
      BY <1>13, <3>1
  <2>3. DOMAIN old \subseteq DOMAIN new /\ p \notin DOMAIN new
    BY <1>4, <2>1, <2>2
  <2> QED
    BY <1>2, <1>7, <2>1, <2>3
<1> QED
  BY <1>10, <1>11, <1>12, <1>13 DEF Bridging

(* The address and the primary IP.                                         *)
LEMMA AddressingAfter ==
  ASSUME Located, Recorded, Queued, NEW w, Wrote(w),
         stage \in {"radio", "next"}, Addressing(queue), stage = "radio" => OnlyPrimary(queue)
  PROVE  Addressing(queue)' /\ (OnlyPrimary(queue) => OnlyPrimary(queue)')
<1>1. PICK a, b, ip, q, t :
        a = This /\ b = This' /\ ip = Reported.ip /\ q = queue /\ t = queue'
  OBVIOUS
<1>2. /\ \A op, on : Coming(q, op, on) => (w.op = op /\ w.on = on) \/ Coming(t, op, on)
      /\ \A op, on : Coming(t, op, on) => Coming(q, op, on)
      /\ Reported' = Reported /\ a = devices[device] /\ b = devices'[device]
  BY <1>1, ThisAfter
<1>3. /\ queue # <<>> /\ w = Head(queue) /\ devices' = Devices(w) /\ addresses' = Addresses(w)
      /\ device \in DOMAIN devices /\ device' = device
  BY DEF Wrote, Carried
<1>4. w.op \in Ops[stage] /\ stage \in DOMAIN Ops /\ Proper(w)
  BY <1>3, HeadIs DEF Located
<1>5. w.op = "primary" => b.primary = w.on
  BY <1>1, LinksAfter
<1>6. w.op # "primary" => b.primary = a.primary
  BY <1>1, LinksAfter
<1>7. Coming(q, w.op, w.on)
  <2>1. IsSeq(queue)
    BY DEF Queued, IsSeq
  <2>2. 1 \in DOMAIN queue /\ queue[1] = w
    BY <1>3, <2>1, Rest
  <2> QED
    BY <1>1, <2>2 DEF Coming
<1>8. w.op = "primary" => w.on = ip
  <2>1. w.op = "primary" => stage = "radio"
    BY <1>4, StageOf
  <2> QED
    BY <1>1, <1>7, <2>1 DEF OnlyPrimary
<1>9. <<device, IpTarget>> \notin Places /\ <<device, IpTarget>>[1] = device
      /\ (Reported.kind = "ap" => IpTarget = "br0")
  BY <1>3, PlaceOf DEF IpTarget
<1>10. /\ (w.op \in {"address", "assign"} /\ w.on = ip) => addresses'[ip] = <<device, IpTarget>>
       /\ (w.op \in {"address", "assign"} /\ w.on = ip) \/ addresses'[ip] = addresses[ip]
  <2>1. w.op \in {"address", "assign"} => w.on \in DOMAIN addresses
    BY <1>4 DEF Proper
  <2>2. w.op \notin {"address", "assign"} => addresses' = addresses
    BY <1>3, AddressesAfter
  <2>3. w.op \in {"address", "assign"} => addresses'[w.on] = <<device, IpTarget>>
    BY <1>3, <2>1, AddressesAfter
  <2>4. ip # w.on => addresses'[ip] = addresses[ip]
    BY <1>3 DEF Addresses
  <2> QED
    BY <2>2, <2>3, <2>4
<1>14. PICK target : target = <<device, IpTarget>>
  OBVIOUS
<1>15. ASSUME addresses'[ip] = target \/ (addresses'[ip] = addresses[ip] /\ InPlace(ip))
       PROVE  InPlace(ip)'
  <2>1. InPlace(ip)' <=> IF Reported.kind = "ap" THEN addresses'[ip] = <<device, "br0">>
                         ELSE addresses'[ip] \notin Places /\ addresses'[ip][1] = device
    BY <1>2, <1>3 DEF InPlace, Own
  <2> QED
    BY <1>9, <1>14, <1>15, <2>1 DEF InPlace, Own
<1>11. ASSUME ip # NoIp
       PROVE  /\ InPlace(ip)' \/ Coming(t, "address", ip) \/ Coming(t, "assign", ip)
              /\ b.primary = ip \/ Coming(t, "primary", ip)
  <2>1. /\ InPlace(ip) \/ Coming(q, "address", ip) \/ Coming(q, "assign", ip)
        /\ a.primary = ip \/ Coming(q, "primary", ip)
    BY <1>1, <1>11 DEF Addressing
  <2>2. b.primary = ip \/ Coming(t, "primary", ip)
    BY <1>2, <1>5, <1>6, <1>8, <2>1
  <2>3. InPlace(ip)' \/ Coming(t, "address", ip) \/ Coming(t, "assign", ip)
    BY <1>2, <1>10, <1>14, <1>15, <2>1
  <2> QED
    BY <2>2, <2>3
<1>12. Addressing(queue)'
  <2>1. \A op, on : Coming(queue, op, on)' <=> Coming(t, op, on)
    BY <1>1 DEF Coming
  <2> QED
    BY <1>1, <1>2, <1>3, <1>11, <2>1 DEF Addressing
<1>13. OnlyPrimary(queue) => OnlyPrimary(queue)'
  <2>1. \A op, on : Coming(queue, op, on)' <=> Coming(t, op, on)
    BY <1>1 DEF Coming
  <2> QED
    BY <1>1, <1>2, <2>1 DEF OnlyPrimary
<1> QED
  BY <1>12, <1>13

(* A write that is carried out.                                            *)
LEMMA WriteUnderway ==
  ASSUME IInv, Matched, Underway, WriteOk, Clean, Clean'
  PROVE  Underway'
<1>0. Located /\ Recorded /\ Queued
  BY DEF IInv
<1>1. PICK w : w = Head(queue)
  OBVIOUS
<1>2. /\ queue # <<>> /\ Carried(w) /\ queue' = Tail(queue) /\ stage' = stage
      /\ device' = IF w.op = "device" THEN Len(devices) + 1 ELSE device
      /\ UNCHANGED <<report, matches, at, unread, silent>>
  BY <1>1 DEF WriteOk, live
<1>3. w.op \in Ops[stage] /\ stage \in DOMAIN Ops
  BY <1>0, <1>1, <1>2, HeadIs DEF Located
<1>4. CASE stage \notin Begun
  BY <1>2, <1>4 DEF Underway
<1>5. CASE w.op = "device"
  <2>1. stage = "identity"
    BY <1>3, <1>5, OpsOf
  <2>2. DOMAIN devices' = DOMAIN devices \cup {Len(devices) + 1}
    BY <1>0, <1>2, <1>5, RecordNew DEF Carried
  <2> QED
    BY <1>2, <1>5, <2>1, <2>2 DEF Underway
<1>6. CASE stage \in Begun /\ w.op # "device"
  <2>1. stage # "identity"
    BY <1>3, <1>6, OpsOf
  <2>2. device \in DOMAIN devices
    BY <1>6, <2>1 DEF Underway
  <2>3. Wrote(w)
    BY <1>1, <1>2, <1>6, <2>2 DEF Wrote
  <2>4. /\ Identified(queue)
        /\ Addressed => /\ stage \in {"radio", "next"} => Addressing(queue)
                        /\ stage = "radio" => OnlyPrimary(queue)
        /\ Reported.kind = "ap" =>
             /\ stage = "ip" => \A p \in Uplinks : Bridging(queue, p)
             /\ stage \in {"radio", "next"} => \A p \in Reported.uplinks : Attached(This, p)
             /\ stage = "next" => Tuning(queue)
    BY <1>6, <2>1 DEF Underway
  <2>5. Reported' = Reported /\ Uplinks' = Uplinks /\ This = devices[device] /\ This' = devices'[device]
    BY <1>0, <2>3, ThisAfter
  <2>6. Identified(queue)'
    BY <1>0, <2>3, <2>4, IdentifiedAfter
  <2>7. Uplinks \subseteq Ports /\ Reported.uplinks \subseteq Ports
    BY <1>0, <1>6, ReportedIs
  <2>8. ASSUME Reported.kind = "ap", stage = "ip" PROVE (\A p \in Uplinks : Bridging(queue, p))'
    <3>1. \A p \in Uplinks : Bridging(queue, p)'
      BY <1>0, <2>3, <2>4, <2>7, <2>8, BridgingAfter
    <3> QED
      BY <2>5, <3>1
  <2>9. ASSUME Reported.kind = "ap", stage \in {"radio", "next"}
        PROVE  (\A p \in Reported.uplinks : Attached(This, p))'
    <3> SUFFICES ASSUME NEW p \in Reported.uplinks PROVE Attached(This', p)
      BY <2>5
    <3>1. Attached(devices[device], p) /\ p \in Ports
      BY <2>4, <2>5, <2>7, <2>9
    <3>2. Attached(devices'[device], p)
      BY <1>0, <1>1, <1>2, <2>2, <3>1, CarryingAttached
    <3> QED
      BY <2>5, <3>2
  <2>10. ASSUME Addressed, stage \in {"radio", "next"}
         PROVE  Addressing(queue)' /\ (stage = "radio" => OnlyPrimary(queue)')
    BY <1>0, <2>3, <2>4, <2>10, AddressingAfter
  <2>11. ASSUME Reported.kind = "ap", stage = "next" PROVE Tuning(queue)'
    BY <1>0, <2>3, <2>4, <2>11, TuningAfter
  <2>12. (device \in DOMAIN devices)'
    <3>1. w.op \in {"tag", "lan", "field", "serial", "radio", "interface", "link",
                    "address", "assign", "primary"}
      BY <1>3, <1>6, OpsOf
    <3>2. DOMAIN devices' = DOMAIN devices
      BY <1>0, <1>2, <2>2, <3>1, RecordAfter DEF Carried
    <3> QED
      BY <1>2, <1>6, <2>2, <3>2
  <2>13. Addressed' <=> Addressed
    BY <1>2, <2>5 DEF Addressed
  <2> QED
    BY <1>2, <2>5, <2>6, <2>8, <2>9, <2>10, <2>11, <2>12, <2>13 DEF Underway
<1> QED
  BY <1>4, <1>5, <1>6

(* A clean run has had a write fail only before the first device: that of  *)
(* a wireless LAN.                                                         *)
LEMMA FailsClean ==
  ASSUME IInv, WriteFails, Clean'
  PROVE  stage = "device" /\ stage' = "device" /\ Head(queue).op = "lan"
<1>1. PICK w : w = Head(queue)
  OBVIOUS
<1>2. /\ queue # <<>> /\ w.op # "tag"
      /\ stage' = IF w.op = "device" THEN "next" ELSE stage
      /\ failed' = (failed \/ w.op = "device")
      /\ issues' = (issues \/ w.op \notin {"device", "lan"})
  BY <1>1 DEF WriteFails
<1>3. w.op = "lan"
  BY <1>2 DEF Clean
<1>4. w.op \in Ops[stage] /\ stage \in DOMAIN Ops
  BY <1>1, <1>2, HeadIs DEF IInv, Located
<1> QED
  BY <1>1, <1>2, <1>3, <1>4, OpsOf

(* Between runs there is nothing to write.                                 *)
LEMMA StartsEmpty ==
  ASSUME Queued, stage = "start"
  PROVE  queue = <<>>
<1>1. Ops["start"] = {} /\ IsSeq(queue)
  BY DEF Ops, Queued, IsSeq
<1>2. \A k \in DOMAIN queue : FALSE
  BY <1>1 DEF Queued
<1>3. queue # <<>> => 1 \in DOMAIN queue
  BY <1>1, Rest
<1> QED
  BY <1>2, <1>3

(* Each step keeps what a clean run has made, or is to make, of a device.  *)
LEMMA NextUnderway ==
  ASSUME IInv, Matched, Underway, [Next]_vars
  PROVE  Underway'
<1>1. stage' \in Begun => stage' # "start"
  BY DEF Begun, OnDevice
<1>2. CASE stage' \notin Begun \/ ~Clean'
  BY <1>2 DEF Underway
<1> SUFFICES ASSUME stage' \in Begun, Clean' PROVE Underway'
  BY <1>2
<1>3. CASE stage = "start"
  <2>1. StartRun \/ UNCHANGED vars
    <3>1. queue = <<>>
      BY <1>3, StartsEmpty DEF IInv
    <3> QED
      BY <1>3, <3>1 DEF Next, SyncTag, SyncLans, StartDevice, SyncIdentity, SyncBridge, SyncIp,
             SyncRadios, NextDevice, WriteOk, WriteFails, TagFails, EndRun
  <2> QED
    BY <1>1, <1>3, <2>1 DEF StartRun, vars, Begun, OnDevice
<1>4. CASE stage # "start"
  <2>1. Clean
    BY <1>1, <1>4, CleanStep
  <2>2. ASSUME StartRun \/ SyncTag \/ SyncLans \/ NextDevice \/ TagFails \/ EndRun PROVE FALSE
    BY <2>2 DEF StartRun, SyncTag, SyncLans, NextDevice, TagFails, EndRun, Enqueue, Begun, OnDevice
  <2>3. ASSUME WriteFails PROVE FALSE
    BY <2>3, FailsClean DEF Begun, OnDevice
  <2>4. ASSUME UNCHANGED vars PROVE Underway'
    <3>1. UNCHANGED <<report, devices, addresses, lans, matches, at, device, unread, silent, stage,
                      queue>>
      BY <2>4 DEF vars, netbox, live
    <3>2. PICK q : q = queue
      OBVIOUS
    <3>3. queue' = q
      BY <3>1, <3>2
    <3> QED
      BY <2>1, <3>1, <3>2, <3>3, Shown DEF Underway
  <2> QED
    BY <2>1, <2>2, <2>3, <2>4, StartUnderway, IdentityUnderway, BridgeUnderway, IpUnderway,
       RadioUnderway, WriteUnderway DEF Next
<1> QED
  BY <1>3, <1>4

-----------------------------------------------------------------------------
(* A device with nothing left to write is what was reported of it.         *)
LEMMA DoneWith ==
  ASSUME IInv, Matched, Underway, Clean, stage = "next", queue = <<>>
  PROVE  device \in Existing(devices, Reported) /\ Done(device, at)
<1>1. stage \in Begun \ {"identity"}
  BY DEF Begun, OnDevice
<1>2. device \in DOMAIN devices /\ This = devices[device] /\ device # Preview
  <2>1. device \in DOMAIN devices
    BY <1>1 DEF Underway
  <2> QED
    BY <2>1, DeviceThere DEF IInv
<1>3. device \in Existing(devices, Reported)
  BY <1>1, <1>2 DEF Matched
<1>4. \A op, on : ~Coming(<<>>, op, on)
  BY ComingOne
<1>5. /\ Identified(<<>>)
      /\ Addressed => Addressing(<<>>)
      /\ Reported.kind = "ap" => (\A p \in Reported.uplinks : Attached(This, p)) /\ Tuning(<<>>)
  BY <1>1 DEF Underway
<1>6. Reported.serial # "" => devices[device].serial = Reported.serial
  BY <1>2, <1>4, <1>5 DEF Identified
<1>7. \A f \in {"role", "tag", "platform"} \cap FieldsOf(Reported.kind) : f \notin devices[device].wrong
  BY <1>2, <1>4, <1>5 DEF Identified
<1>8. Reported.kind = "ap" =>
        \A f \in {"radio", "channel", "lan"} \ Noted(Reported) : f \notin devices[device].wrong
  <2>1. ~\E k \in DOMAIN <<>> : <<>>[k].op = "radio"
    BY Empty
  <2> QED
    BY <1>2, <1>4, <1>5, <2>1 DEF Tuning
<1>9. devices[device].wrong \cap FieldsOf(Reported.kind) \subseteq Noted(Reported)
  <2>1. FieldsOf(Reported.kind) = IF Reported.kind = "ap"
                                  THEN {"role", "tag", "platform", "radio", "channel", "lan"}
                                  ELSE {"tag"}
    BY DEF FieldsOf, Fields
  <2>2. CASE Reported.kind = "ap"
    BY <1>7, <1>8, <2>1, <2>2
  <2>3. CASE Reported.kind # "ap"
    BY <1>7, <2>1, <2>3
  <2> QED
    BY <2>2, <2>3
<1>10. Addressed /\ Reported.ip # NoIp => InPlace(Reported.ip) /\ devices[device].primary = Reported.ip
  BY <1>2, <1>4, <1>5 DEF Addressing
<1>11. Reported.kind = "ap" => \A p \in Reported.uplinks : Attached(devices[device], p)
  BY <1>2, <1>5
<1>12. Reported.kind = "ap" /\ Reported.ip # NoIp =>
         addresses[Reported.ip] = <<device, "br0">> /\ devices[device].primary = Reported.ip
  BY <1>10 DEF Addressed, InPlace
<1>13. matches[at].action = "create" => HoldsAddress(device, Reported)
  <2>1. PICK place : place = <<device, "br0">> /\ place \notin Places /\ place[1] = device
    BY <1>2, PlaceApart DEF IInv
  <2> QED
    BY <1>10, <2>1 DEF Addressed, InPlace, Own, HoldsAddress
<1>14. InNetBox(device, Reported)
  BY <1>6, <1>9, <1>11, <1>12 DEF InNetBox
<1> QED
  BY <1>3, <1>13, <1>14 DEF Done, Reported

(* A write on one device leaves every other what was reported of it.       *)
LEMMA OthersKept ==
  ASSUME OnePerDevice, IInv, Matched, Underway, Clean, stage \in Begun,
         queue # <<>>, NEW w, w = Head(queue), Carried(w), UNCHANGED <<report, matches>>,
         NEW j \in DOMAIN report, j # at, NEW i \in Existing(devices, report[j]), Done(i, j)
  PROVE  i \in Existing(devices', report[j]) /\ Done(i, j)'
<1>0. Located /\ Recorded /\ Queued
  BY DEF IInv
<1>1. Existing(devices', report[j]) = Existing(devices, report[j])
  BY <1>0, CarryingMatched
<1>2. devices' = Devices(w) /\ addresses' = Addresses(w) /\ (w.op # "lan" => lans' = lans)
  BY DEF Carried
<1>3. w.op \in Ops[stage] /\ stage \in DOMAIN Ops /\ Proper(w)
  BY <1>0, HeadIs DEF Located
<1>4. w.op # "lan" /\ w.op # "tag"
  BY <1>3, OpsOf DEF Begun, OnDevice
<1>5. i \in DOMAIN devices
  BY DEF Existing
<1>6. w.op # "device" => device \in DOMAIN devices /\ i # device
  <2> SUFFICES ASSUME w.op # "device" PROVE device \in DOMAIN devices /\ i # device
    OBVIOUS
  <2>1. device \in DOMAIN devices
    BY <1>3, OpsOf DEF Underway
  <2>2. device # Preview
    BY <1>0, <2>1, DeviceThere
  <2>3. at \in DOMAIN report /\ device \in Existing(devices, report[at])
    BY <2>2 DEF Matched, Reported
  <2>4. Existing(devices, report[at]) \cap Existing(devices, report[j]) = {}
    BY <2>3 DEF Matched
  <2> QED
    BY <2>1, <2>3, <2>4
<1>7. devices'[i] = devices[i]
  <2>1. CASE w.op = "device"
    BY <1>0, <1>2, <1>5, <2>1, RecordNew
  <2>2. CASE w.op # "device"
    <3>1. w.op \in {"tag", "lan", "field", "serial", "radio", "interface", "link",
                    "address", "assign", "primary"}
      BY <1>3, <2>2, OpsOf
    <3> QED
      BY <1>0, <1>2, <1>5, <1>6, <2>2, <3>1, RecordAfter
  <2> QED
    BY <2>1, <2>2
<1>8. ASSUME NEW a, addresses[a] \notin Places, addresses[a][1] = i
      PROVE  addresses'[a] = addresses[a]
  <2>1. CASE w.op \notin {"address", "assign"}
    BY <1>2, <2>1, AddressesAfter
  <2>2. CASE w.op \in {"address", "assign"}
    <3>1. addresses[w.on] \in Places \/ Own(w.on)
      BY <1>3, <2>2 DEF Proper
    <3>2. i # device
      BY <1>6, <2>2
    <3>4. a # w.on
      BY <1>8, <3>1, <3>2 DEF Own
    <3> QED
      BY <1>2, <3>4 DEF Addresses
  <2> QED
    BY <2>1, <2>2
<1>9. lans' = lans
  BY <1>2, <1>4
<1>10. PICK d, e : d = report[j] /\ e = devices[i]
  OBVIOUS
<1>11. report'[j] = d /\ devices'[i] = e
  BY <1>7, <1>10
<1>12. PICK place : place = <<i, "br0">> /\ place \notin Places /\ place[1] = i
  BY <1>0, <1>5, PlaceApart
<1>13. InNetBox(i, report[j])'
  <2>1. Noted(d)' = Noted(d)
    BY <1>9 DEF Noted
  <2> QED
    BY <1>8, <1>10, <1>11, <1>12, <2>1 DEF Done, InNetBox
<1>14. HoldsAddress(i, d) => HoldsAddress(i, report[j])'
  BY <1>8, <1>10, <1>11 DEF HoldsAddress
<1> QED
  BY <1>1, <1>10, <1>13, <1>14 DEF Done

(* The tag and the wireless LANs are written before the first device.      *)
LEMMA NextFirst ==
  ASSUME IInv, [Next]_vars,
         stage \in {"tag", "lans"} \/ (stage = "device" /\ queue # <<>>) => at = 1
  PROVE  (stage \in {"tag", "lans"} \/ (stage = "device" /\ queue # <<>>) => at = 1)'
<1>1. ASSUME StartRun \/ SyncTag \/ SyncLans \/ EndRun \/ NextDevice \/ TagFails \/ UNCHANGED vars
      PROVE  (stage \in {"tag", "lans"} \/ (stage = "device" /\ queue # <<>>) => at = 1)'
  BY <1>1 DEF StartRun, SyncTag, SyncLans, EndRun, NextDevice, TagFails, Enqueue, vars
<1>2. ASSUME StartDevice \/ SyncIdentity \/ SyncBridge \/ SyncIp \/ SyncRadios
      PROVE  stage' \notin {"tag", "lans", "device"}
  BY <1>2 DEF StartDevice, SyncIdentity, SyncBridge, SyncIp, SyncRadios, Enqueue
<1>3. ASSUME WriteOk \/ WriteFails
      PROVE  (stage \in {"tag", "lans"} \/ (stage = "device" /\ queue # <<>>) => at = 1)'
  BY <1>3 DEF WriteOk, WriteFails
<1> QED
  BY <1>1, <1>2, <1>3 DEF Next

(* Each step keeps the devices behind what was reported of them.           *)
LEMMA NextBehind ==
  ASSUME OnePerDevice, IInv, Matched, Underway, Behind, [Next]_vars
  PROVE  Behind'
<1>0. Located /\ Recorded /\ Queued
  BY DEF IInv
<1>1. (stage \in {"tag", "lans"} \/ (stage = "device" /\ queue # <<>>) => at = 1)'
  BY NextFirst DEF Behind
<1>2. ASSUME stage' # "start", Clean', NEW j \in DOMAIN report', j < at'
      PROVE  \E i \in Existing(devices, report[j])' : Done(i, j)'
  <2>1. CASE StartRun
    <3>1. at' = 1 /\ report' = report
      BY <2>1 DEF StartRun
    <3> QED
      BY <1>0, <1>2, <3>1, ReportIs
  <2>2. CASE stage = "start" /\ ~StartRun
    <3>1. queue = <<>>
      BY <1>0, <2>2, StartsEmpty
    <3>2. stage' = stage
      BY <2>2, <3>1 DEF Next, SyncTag, SyncLans, StartDevice, SyncIdentity, SyncBridge, SyncIp,
             SyncRadios, NextDevice, WriteOk, WriteFails, TagFails, EndRun, vars
    <3> QED
      BY <1>2, <2>2, <3>2
  <2>3. CASE stage # "start"
    <3>1. Clean /\ UNCHANGED <<report, matches>>
      BY <1>2, <2>3, CleanStep
    <3>2. \A k \in DOMAIN report : k < at =>
            \E i \in Existing(devices, report[k]) : Done(i, k)
      BY <2>3, <3>1 DEF Behind
    <3>3. PICK d : d = report[j]
      OBVIOUS
    <3>4. report'[j] = d
      BY <3>1, <3>3
    <3>5. ASSUME UNCHANGED netbox, NEW i \in Existing(devices, d), Done(i, j)
          PROVE  i \in Existing(devices', d) /\ Done(i, j)'
      <4>1. Noted(d)' = Noted(d)
        BY <3>5 DEF netbox, Noted
      <4>2. InNetBox(i, d) => InNetBox(i, report[j])'
        BY <3>4, <3>5, <4>1 DEF netbox, InNetBox
      <4>3. HoldsAddress(i, d) => HoldsAddress(i, report[j])'
        BY <3>4, <3>5 DEF netbox, HoldsAddress
      <4> QED
        BY <3>1, <3>3, <3>5, <4>2, <4>3 DEF netbox, Existing, Done
    <3>6. CASE UNCHANGED netbox /\ at' = at
      BY <1>2, <3>1, <3>2, <3>3, <3>4, <3>5, <3>6
    <3>7. CASE NextDevice
      <4>1. stage = "next" /\ queue = <<>> /\ at' = at + 1 /\ UNCHANGED netbox
        BY <3>7 DEF NextDevice
      <4>2. j < at \/ j = at
        BY <1>0, <1>2, <3>1, <4>1, ReportIs DEF Located
      <4>3. CASE j < at
        BY <1>2, <3>1, <3>2, <3>3, <3>4, <3>5, <4>1, <4>3
      <4>4. CASE j = at
        <5>1. PICK i : i = device
          OBVIOUS
        <5>2. i \in Existing(devices, d) /\ Done(i, j)
          BY <3>1, <3>3, <4>1, <4>4, <5>1, DoneWith DEF Reported
        <5>3. i \in Existing(devices', d) /\ Done(i, j)'
          BY <3>5, <4>1, <5>2
        <5> QED
          BY <3>4, <5>3
      <4> QED
        BY <4>2, <4>3, <4>4
    <3>8. CASE WriteOk \/ WriteFails
      <4>1. /\ queue # <<>> /\ at' = at
            /\ Carried(Head(queue)) \/ UNCHANGED netbox
        BY <3>8 DEF WriteOk, WriteFails
      <4>2. CASE stage \in Begun /\ Carried(Head(queue))
        <5>1. PICK w : w = Head(queue)
          OBVIOUS
        <5>2. PICK i \in Existing(devices, report[j]) : Done(i, j)
          BY <1>2, <3>1, <3>2, <4>1
        <5>3. j # at /\ j \in DOMAIN report
          BY <1>0, <1>2, <3>1, <4>1, ReportIs DEF Located
        <5>4. i \in Existing(devices', report[j]) /\ Done(i, j)'
          BY <3>1, <4>1, <4>2, <5>1, <5>2, <5>3, OthersKept
        <5> QED
          BY <3>1, <5>4
      <4>3. CASE stage \notin Begun
        <5>1. at = 1
          <6>1. Head(queue).op \in Ops[stage] /\ stage \in DOMAIN Ops
            BY <1>0, <4>1, HeadIs DEF Located
          <6>2. stage \in {"lans", "device"}
            BY <4>3, <6>1, OpsOf DEF Begun, OnDevice
          <6> QED
            BY <4>1, <6>2 DEF Behind
        <5> QED
          BY <1>0, <1>2, <3>1, <4>1, <5>1, ReportIs
      <4> QED
        BY <3>6, <4>1, <4>2, <4>3
    <3>9. ASSUME TagFails \/ EndRun PROVE FALSE
      BY <1>2, <3>9 DEF TagFails, EndRun
    <3>10. ASSUME SyncTag \/ SyncLans \/ StartDevice \/ SyncIdentity \/ SyncBridge \/ SyncIp
                  \/ SyncRadios \/ UNCHANGED vars
           PROVE  UNCHANGED netbox /\ at' = at
      BY <3>10 DEF SyncTag, SyncLans, StartDevice, SyncIdentity, SyncBridge, SyncIp, SyncRadios,
                   vars
    <3>11. ~StartRun
      BY <2>3 DEF StartRun
    <3> QED
      BY <3>6, <3>7, <3>8, <3>9, <3>10, <3>11 DEF Next
  <2> QED
    BY <2>1, <2>2, <2>3
<1> QED
  BY <1>1, <1>2 DEF Behind

(* Each step keeps what a green run has told.                              *)
LEMMA NextGreen ==
  ASSUME IInv, Behind, GreenMeansInNetBox, [Next]_vars
  PROVE  GreenMeansInNetBox'
<1>0. Located /\ Recorded /\ Queued
  BY DEF IInv
<1>1. ended \in Seq({"ok", "drift", "changed", "partial", "error"})
  BY <1>0 DEF Located
<1>2. ASSUME TagFails PROVE GreenMeansInNetBox'
  <2>1. ended' = Append(ended, "error")
    BY <1>2 DEF TagFails
  <2>2. Last(ended') = "error"
    BY <1>1, <2>1 DEF Last
  <2> QED
    BY <2>2 DEF GreenMeansInNetBox, Green
<1>3. ASSUME EndRun PROVE GreenMeansInNetBox'
  <2>1. /\ stage = "device" /\ ended' = Append(ended, Status) /\ at > Len(report)
        /\ UNCHANGED <<report, netbox, matches>>
    BY <1>3 DEF EndRun
  <2>2. Last(ended') = Status
    BY <1>1, <2>1, StatusIs DEF Last
  <2>3. Status \in Green => Clean
    BY DEF Status, Green, Clean
  <2>4. Status \in Green =>
          \A j \in DOMAIN report : \E i \in Existing(devices, report[j]) : Done(i, j)
    <3>1. \A j \in DOMAIN report : j < at
      BY <1>0, <2>1, ReportIs DEF Located
    <3> QED
      BY <2>1, <2>3, <3>1 DEF Behind
  <2>5. ASSUME NEW i, NEW j, Done(i, j) PROVE Done(i, j)'
    <3>1. Noted(report[j])' = Noted(report[j])
      BY <2>1 DEF netbox, Noted
    <3> QED
      BY <2>1, <2>5, <3>1 DEF netbox, Done, InNetBox, HoldsAddress
  <2>6. Status \in Green =>
          \A j \in DOMAIN report : \E i \in Existing(devices', report'[j]) : Done(i, j)'
    BY <2>1, <2>4, <2>5 DEF netbox
  <2> QED
    BY <2>1, <2>2, <2>6 DEF GreenMeansInNetBox, Done
<1>4. ASSUME WriteOk \/ WriteFails PROVE GreenMeansInNetBox'
  <2>1. stage # "start"
    BY <1>0, <1>4, HeadIs, OpsOf DEF Located, WriteOk, WriteFails
  <2>2. stage' # "start"
    BY <1>4, <2>1 DEF WriteOk, WriteFails
  <2> QED
    BY <2>2 DEF GreenMeansInNetBox
<1>5. ASSUME StartRun \/ SyncTag \/ SyncLans \/ StartDevice \/ SyncIdentity \/ SyncBridge
             \/ SyncIp \/ SyncRadios \/ NextDevice
      PROVE  GreenMeansInNetBox'
  BY <1>5 DEF GreenMeansInNetBox, Enqueue, StartRun, SyncTag, SyncLans, StartDevice, SyncIdentity,
              SyncBridge, SyncIp, SyncRadios, NextDevice
<1>6. CASE UNCHANGED vars
  <2>1. UNCHANGED <<report, devices, addresses, lans, stage, matches, ended>>
    BY <1>6 DEF vars, netbox
  <2>2. ASSUME NEW i, NEW j, Done(i, j) PROVE Done(i, j)'
    <3>1. Noted(report[j])' = Noted(report[j])
      BY <2>1 DEF Noted
    <3> QED
      BY <2>1, <2>2, <3>1 DEF Done, InNetBox, HoldsAddress
  <2>3. (\A j \in DOMAIN report : \E i \in Existing(devices, report[j]) : Done(i, j)) =>
        (\A j \in DOMAIN report : \E i \in Existing(devices, report'[j]) : Done(i, j)')
    BY <2>1, <2>2
  <2> QED
    BY <2>1, <2>3 DEF GreenMeansInNetBox, Done
<1> QED
  BY <1>2, <1>3, <1>4, <1>5, <1>6 DEF Next

(* A run that ends green leaves every device that was reported in NetBox,  *)
(* with its serial, fields and uplinks, whatever failed in this run or an  *)
(* earlier one, when no two of them are one device of NetBox: an AP with   *)
(* its IP, a WLC with it if this run made the WLC, and the radios but for  *)
(* what the run only notes of them (sync.py:984-1009).                     *)
THEOREM GreenInNetBox == ASSUME OnePerDevice PROVE Spec => []GreenMeansInNetBox
<1>1. Init => Underway /\ Behind /\ GreenMeansInNetBox
  BY DEF Init, Underway, Behind, GreenMeansInNetBox, Begun, OnDevice
<1>2. Init => GInv
  BY <1>1, InitIInv, InitMatched DEF GInv
<1>3. IInv /\ [Next]_vars => IInv'
  BY NextLocated, NextQueued, NextRecorded, NextStunting, NextExcused, NextResumes DEF IInv
<1>4. GInv /\ [Next]_vars => GInv'
  BY <1>3, NextMatched, NextUnderway, NextBehind, NextGreen DEF GInv
<1>5. GInv => GreenMeansInNetBox
  BY DEF GInv
<1> QED
  BY <1>2, <1>4, <1>5, PTL DEF Spec

-----------------------------------------------------------------------------
(* What a run has to do of a device whose record is r, stage by stage.     *)
IdentityDue(r, d) ==
  \/ ((r.wrong \cap FieldsOf(d.kind)) \ d.lacks) \cap {"role", "tag", "platform"} # {}
  \/ d.serial \notin {"", r.serial}
LinkIn(r, p) == IF p \in DOMAIN r.ifs THEN r.ifs[p] ELSE Bare
WiredOf(r) == DOMAIN r.ifs \cap Ports
NewOf(r, d) == IF WiredOf(r) = {} THEN d.uplinks ELSE {}
LinkedOf(r, d) == d.uplinks \cap (WiredOf(r) \cup NewOf(r, d))
BondDue(r) == \/ {"br0", "bond0"} \ DOMAIN r.ifs # {}
              \/ r.ifs["bond0"].bridge # "br0"
MembersDue(r, P) ==
  \E p \in P : ~("bond0" \in DOMAIN r.ifs /\ LinkIn(r, p) = [lag |-> "bond0", bridge |-> NoName])
JoinsDue(r, P) == \E p \in P : ~("br0" \in DOMAIN r.ifs /\ LinkIn(r, p).bridge = "br0")
BridgeDue(r, d) ==
  \/ "br0" \notin DOMAIN r.ifs
  \/ NewOf(r, d) # {}
  \/ /\ LinkedOf(r, d) # {}
     /\ IF "bond0" \in DOMAIN r.ifs \/ Cardinality(LinkedOf(r, d)) > 1
        THEN BondDue(r) \/ MembersDue(r, LinkedOf(r, d)) ELSE JoinsDue(r, LinkedOf(r, d))
IpDue(r, i, d) == \/ "br0" \notin DOMAIN r.ifs
                  \/ addresses[d.ip] # <<i, "br0">>
                  \/ r.primary # d.ip
RadioDue(r, d) ==
  /\ d.kind = "ap" /\ "radio" \notin d.skips /\ "radio" \notin d.lacks
  /\ r.wrong \cap (({"radio", "channel"} \ d.skips)
                     \cup (IF \E s \in d.ssids : lans[s] > 1 THEN {} ELSE {"lan"})) # {}

(* An address that is left alone, ports that are not there, and what else  *)
(* is an issue.                                                            *)
Refused(m, j) ==
  /\ report[j].ip # NoIp /\ (report[j].kind = "ap" \/ m[j].action = "create")
  /\ \/ addresses[report[j].ip] = Unfit
     \/ /\ addresses[report[j].ip] \notin Places
        /\ m[j].action = "create" \/ addresses[report[j].ip][1] # m[j].id
Portless(ports, d) == d.kind = "ap" /\ d.uplinks \ ports # {} /\ ports # {}
Radioless(d) == d.kind = "ap" /\ "radio" \notin d.skips /\ "radio" \in d.lacks
PortsOf(m, j) ==
  (IF m[j].action = "create" THEN report[j].template ELSE DOMAIN devices[m[j].id].ifs) \cap Ports
PortsHere == {p \in Ports : Has(p) \/ Coming(queue, "interface", p)}

IpComes(m, j, r, i) ==
  /\ report[j].ip # NoIp /\ report[j].kind = "ap" /\ ~Refused(m, j)
  /\ IpDue(r, i, report[j])
Blocked(m, j) == m[j].action = "blocked"
Troubled(m, j) ==
  /\ m[j].action # "blocked"
  /\ \/ "platform" \in report[j].lacks \/ Radioless(report[j])
     \/ Refused(m, j) \/ Portless(PortsOf(m, j), report[j])
Changing(m, j) ==
  \/ m[j].action = "create"
  \/ /\ m[j].action = "update"
     /\ LET r == devices[m[j].id]
            d == report[j] IN
        \/ IdentityDue(r, d)
        \/ d.kind = "ap" /\ BridgeDue(r, d)
        \/ IpComes(m, j, r, m[j].id)
        \/ RadioDue(r, d)
TagDue(m) ==
  /\ ~tagged
  /\ \E j \in DOMAIN m : \/ m[j].action = "create"
                         \/ m[j].action = "update" /\ "tag" \in devices[m[j].id].wrong
LansDue == \E d \in Range(report) : \E s \in d.ssids : lans[s] = 0

(* All of a run, with the devices matched as in m, and what it comes to.   *)
FailsAll(m) == \E j \in DOMAIN report : Blocked(m, j)
IssuesAll(m) == \E j \in DOMAIN report : Troubled(m, j)
ChangesAll(m) == TagDue(m) \/ LansDue \/ \E j \in DOMAIN report : Changing(m, j)
Outcome(fails, troubles, drifts, c) ==
  IF fails THEN "error"
  ELSE IF troubles \/ c = "issue" THEN "partial"
  ELSE IF drifts \/ c = "changed" THEN "drift"
  ELSE "ok"
Verdict(m) == Outcome(FailsAll(m), IssuesAll(m), ChangesAll(m), modes[1].cables)

(* What is left of it.                                                     *)
Ahead == {j \in DOMAIN report : j > at \/ (j = at /\ stage \notin Begun)}
FailsLeft == \E j \in Ahead : Blocked(matches, j)
IssuesHere ==
  \/ stage = "identity" /\ "platform" \in Reported.lacks
  \/ stage \in OnDevice /\ Radioless(Reported)
  \/ stage \in OnDevice \ {"radio"} /\ (Refused(matches, at) \/ Portless(PortsHere, Reported))
IssuesLeft == IssuesHere \/ \E j \in Ahead : Troubled(matches, j)
ChangesHere ==
  \/ stage = "identity" /\ IdentityDue(This, Reported)
  \/ stage \in {"identity", "bridge"} /\ Reported.kind = "ap" /\ BridgeDue(This, Reported)
  \/ stage \in OnDevice \ {"radio"} /\ IpComes(matches, at, This, device)
  \/ stage \in OnDevice /\ RadioDue(This, Reported)
ChangesLeft ==
  \/ stage = "tag" /\ TagDue(matches)
  \/ stage \in {"tag", "lans"} /\ LansDue
  \/ ChangesHere
  \/ \E j \in Ahead : Changing(matches, j)

(* With what is done already it comes to what is foretold.                 *)
Sums(fails, troubles, drifts) ==
  /\ failed \/ FailsLeft <=> fails
  /\ ~fails => (issues \/ IssuesLeft <=> troubles)
  /\ ~fails /\ ~troubles => (changes \/ queue # <<>> \/ ChangesLeft <=> drifts)

(* A run that may be a plan, or the apply after it, nothing having failed: *)
(* the device at hand is the one matched, no address is another device's,  *)
(* and what is done and left comes to the verdict on the devices as they   *)
(* are matched (the plan) or to what the plan ended with (the apply).      *)
MatchedNow == [j \in 1..Len(report) |-> Classify(report[j])]
Here ==
  /\ stage \in OnDevice =>
       /\ matches[at].action # "blocked"
       /\ matches[at].action = "update" => device = matches[at].id
       /\ matches[at].action = "create" => changes \/ queue # <<>>
       /\ matches[at].action = "create" /\ stage # "radio" =>
            \A ip \in DOMAIN addresses : addresses[ip] \notin Places => addresses[ip][1] # device
       /\ stage = "bridge" => Reported.kind = "ap"
  /\ \A op \in {"address", "assign"} : \A on : Coming(queue, op, on) => on = Reported.ip
Placed == \A ip \in DOMAIN addresses :
            addresses[ip] \notin Places => addresses[ip][1] \in DOMAIN devices
PlanThenApply ==
  /\ faults = 0 /\ Len(ended) < 2
  /\ ~modes[1].apply /\ modes[2].apply /\ modes[1].cables = modes[2].cables
  /\ \A i, j \in DOMAIN report : i # j => report[i].ip # report[j].ip
Telling ==
  /\ stage = "start" /\ ended # <<>> => ended[1] = Verdict(MatchedNow)
  /\ stage # "start" /\ ended = <<>> =>
       matches = MatchedNow /\ Sums(FailsAll(matches), IssuesAll(matches), ChangesAll(matches))
  /\ stage # "start" /\ ended # <<>> =>
       \E f \in BOOLEAN, t \in BOOLEAN, d \in BOOLEAN :
         Sums(f, t, d) /\ ended[1] = Outcome(f, t, d, modes[1].cables)
Firm == ~faulty /\ Placed /\ (stage # "start" => Here) /\ Telling
FInv == faults \in Nat /\ PlanForetells /\ (PlanThenApply => Firm)

(* Whether sequences of writes have any.                                   *)
LEMMA AnyIs ==
  ASSUME NEW s, IsSeq(s)
  PROVE  s = <<>> <=> DOMAIN s = {}
<1>1. s = <<>> => DOMAIN s = {}
  BY Empty
<1>2. s # <<>> => 1 \in DOMAIN s
  BY Rest
<1> QED
  BY <1>1, <1>2

(* Of two together, when one has.                                          *)
LEMMA AnyJoined ==
  ASSUME NEW s, NEW t, IsSeq(s), IsSeq(t)
  PROVE  IsSeq(s \o t) /\ (s \o t = <<>> <=> s = <<>> /\ t = <<>>)
<1>1. PICK q : q = s \o t
  OBVIOUS
<1>2. /\ IsSeq(q) /\ Len(s) \in Nat /\ Len(t) \in Nat
      /\ DOMAIN s = 1 .. Len(s) /\ DOMAIN t = 1 .. Len(t)
      /\ DOMAIN q = 1 .. (Len(s) + Len(t))
  BY <1>1, Joined
<1>3. DOMAIN q = {} <=> DOMAIN s = {} /\ DOMAIN t = {}
  BY <1>2
<1> QED
  BY <1>1, <1>2, <1>3, AnyIs

(* Of one that may be there, when it is.                                   *)
LEMMA AnyWhen ==
  ASSUME NEW c \in BOOLEAN, NEW w
  PROVE  IsSeq(When(c, w)) /\ (When(c, w) = <<>> <=> ~c)
<1>1. (c /\ When(c, w) = <<w>>) \/ (~c /\ When(c, w) = <<>>)
  BY DEF When
<1>2. IsSeq(<<w>>) /\ DOMAIN <<w>> = {1} /\ IsSeq(<<>>)
  BY Single, Empty
<1> QED
  BY <1>1, <1>2, AnyIs

(* Of one for each of some ports, when there are any.                      *)
LEMMA AnyEach ==
  ASSUME NEW q, NEW P, P \subseteq Ports, q = [k \in DOMAIN Order(P) |-> q[k]]
  PROVE  IsSeq(q) /\ (q = <<>> <=> P = {})
<1>1. PICK n : n = Order(P)
  OBVIOUS
<1>2. /\ IsSeq(n) /\ \A k \in DOMAIN n : n[k] \in P
      /\ \A p \in P : \E k \in DOMAIN n : n[k] = p
  BY <1>1, OrderIs
<1>3. DOMAIN q = DOMAIN n /\ IsSeq(q)
  BY <1>1, <1>2, Mapped
<1> QED
  BY <1>2, <1>3, AnyIs

(* The identity stage has writes when something is due.                    *)
LEMMA IdentityIsDue == IdentityWrites = <<>> <=> ~IdentityDue(This, Reported)
<1> DEFINE fields == (This.wrong \cap FieldsOf(Reported.kind)) \ Reported.lacks
           stale == Reported.serial \notin {"", This.serial}
           Due(f) == f \in fields
           role == When(Due("role"), Set("field", "role"))
           tag == When(Due("tag"), Set("field", "tag"))
           serial == When(stale, Set("serial", NoName))
           platform == When(Due("platform"), Set("field", "platform"))
<1>1. IdentityWrites = ((role \o tag) \o serial) \o platform
  BY DEF IdentityWrites
<1>2. IdentityDue(This, Reported) <=> Due("role") \/ Due("tag") \/ Due("platform") \/ stale
  BY DEF IdentityDue
<1>3. stale \in BOOLEAN /\ \A f : Due(f) \in BOOLEAN
  OBVIOUS
<1> HIDE DEF Due, stale
<1>4. /\ IsSeq(role) /\ (role = <<>> <=> ~Due("role"))
      /\ IsSeq(tag) /\ (tag = <<>> <=> ~Due("tag"))
      /\ IsSeq(platform) /\ (platform = <<>> <=> ~Due("platform"))
      /\ IsSeq(serial) /\ (serial = <<>> <=> ~stale)
  BY <1>3, AnyWhen
<1> HIDE DEF role, tag, serial, platform
<1>5. PICK a, b : a = role \o tag /\ b = a \o serial
  OBVIOUS
<1>6. IsSeq(a) /\ (a = <<>> <=> role = <<>> /\ tag = <<>>)
  BY <1>4, <1>5, AnyJoined
<1>7. IsSeq(b) /\ (b = <<>> <=> a = <<>> /\ serial = <<>>)
  BY <1>4, <1>5, <1>6, AnyJoined
<1>8. IdentityWrites = <<>> <=> b = <<>> /\ platform = <<>>
  BY <1>1, <1>4, <1>5, <1>7, AnyJoined
<1> QED
  BY <1>2, <1>4, <1>6, <1>7, <1>8

(* So has the bridge stage: a port by itself,                              *)
LEMMA JoinsAreDue ==
  ASSUME NEW uplinks \in SUBSET Ports, uplinks = Reported.uplinks
  PROVE  /\ IsSeq(PortWrites(uplinks))
         /\ PortWrites(uplinks) = <<>> <=> ~JoinsDue(This, LinkedOf(This, Reported))
<1> DEFINE In(p) == Has("br0") /\ LinkOf(p).bridge = "br0"
           Join(p) == Link(p, LinkOf(p).lag, "br0")
           P == {p \in Linked(uplinks) : ~In(p)}
<1>1. PICK q : q = PortWrites(uplinks)
  OBVIOUS
<1>2. q = [k \in DOMAIN Order(P) |-> Join(Order(P)[k])]
  BY <1>1 DEF PortWrites, Each
<1>3. P \subseteq Ports
  BY DEF Linked
<1>4. P = {} <=> ~JoinsDue(This, LinkedOf(This, Reported))
  BY DEF JoinsDue, LinkedOf, WiredOf, NewOf, LinkIn, LinkOf, Linked, Wired, NewPorts, Has
<1> HIDE DEF P, Join
<1>5. q = [k \in DOMAIN Order(P) |-> q[k]]
  BY <1>2
<1> QED
  BY <1>1, <1>3, <1>4, <1>5, AnyEach

(* more of them in a bond,                                                 *)
LEMMA BondIsDue ==
  ASSUME NEW uplinks \in SUBSET Ports, uplinks = Reported.uplinks
  PROVE  /\ IsSeq(BondWrites(uplinks))
         /\ BondWrites(uplinks) = <<>> <=>
              ~BondDue(This) /\ ~MembersDue(This, LinkedOf(This, Reported))
<1> DEFINE In(p) == Has("bond0") /\ LinkOf(p) = [lag |-> "bond0", bridge |-> NoName]
           P == {p \in Linked(uplinks) : ~In(p)}
<1>1. PICK q : q = Each(Member, Order(P))
  OBVIOUS
<1>2. q = [k \in DOMAIN Order(P) |-> Member(Order(P)[k])]
  BY <1>1 DEF Each
<1>3. P \subseteq Ports
  BY DEF Linked
<1>4. P = {} <=> ~MembersDue(This, LinkedOf(This, Reported))
  BY DEF MembersDue, LinkedOf, WiredOf, NewOf, LinkIn, LinkOf, Linked, Wired, NewPorts, Has
<1>5. BondWrites(uplinks) = Bond \o q
  BY <1>1 DEF BondWrites
<1> HIDE DEF P
<1>6. IsSeq(q) /\ (q = <<>> <=> P = {})
  <2>1. q = [k \in DOMAIN Order(P) |-> q[k]]
    BY <1>2
  <2> QED
    BY <1>3, <2>1, AnyEach
<1>7. IsSeq(Bond) /\ (Bond = <<>> <=> ~BondDue(This))
  <2>1. CASE ~Has("bond0")
    <3>1. PICK w : w = Interface("bond0", "br0")
      OBVIOUS
    <3>2. Bond = <<w>> /\ BondDue(This)
      BY <2>1, <3>1 DEF Bond, BondDue, Has
    <3> QED
      BY <3>2, Single, AnyIs
  <2>2. CASE Has("bond0")
    <3>1. PICK c \in BOOLEAN : c <=> ~Has("br0") \/ This.ifs["bond0"].bridge # "br0"
      OBVIOUS
    <3>2. PICK w : w = Link("bond0", NoName, "br0")
      OBVIOUS
    <3>3. Bond = When(c, w) /\ (c <=> BondDue(This))
      BY <2>2, <3>1, <3>2 DEF Bond, BondDue, Has, When
    <3> QED
      BY <3>3, AnyWhen
  <2> QED
    BY <2>1, <2>2
<1> QED
  BY <1>4, <1>5, <1>6, <1>7, AnyJoined

(* and the bridge itself and the ports that are made.                      *)
LEMMA BridgeIsDue ==
  ASSUME NEW uplinks \in SUBSET Ports, uplinks = Reported.uplinks
  PROVE  BridgeWrites(uplinks) = <<>> <=> ~BridgeDue(This, Reported)
<1> DEFINE Create(n) == Interface(n, NoName)
           bridge == When(~Has("br0"), Create("br0"))
           ports == Each(Create, Order(NewPorts(uplinks)))
           links == IF Linked(uplinks) = {} THEN <<>>
                    ELSE IF Has("bond0") \/ Cardinality(Linked(uplinks)) > 1 THEN BondWrites(uplinks)
                    ELSE PortWrites(uplinks)
<1>1. BridgeWrites(uplinks) = (bridge \o ports) \o links
  BY DEF BridgeWrites
<1>2. IsSeq(bridge) /\ (bridge = <<>> <=> Has("br0"))
  <2>1. Has("br0") \in BOOLEAN
    BY DEF Has
  <2> QED
    BY <2>1, AnyWhen
<1>3. IsSeq(ports) /\ (ports = <<>> <=> NewPorts(uplinks) = {})
  <2>1. PICK q, P : q = ports /\ P = NewPorts(uplinks)
    OBVIOUS
  <2>2. q = [k \in DOMAIN Order(P) |-> Interface(Order(P)[k], NoName)]
    BY <2>1 DEF Each
  <2>3. q = [k \in DOMAIN Order(P) |-> q[k]]
    BY <2>2
  <2>4. P \subseteq Ports
    BY <2>1 DEF NewPorts
  <2> QED
    BY <2>1, <2>3, <2>4, AnyEach
<1>4. /\ Linked(uplinks) = LinkedOf(This, Reported) /\ NewPorts(uplinks) = NewOf(This, Reported)
      /\ \A n : Has(n) <=> n \in DOMAIN This.ifs
  BY DEF Linked, LinkedOf, NewPorts, NewOf, Wired, WiredOf, Has
<1>5. /\ IsSeq(links)
      /\ links = <<>> <=>
           ~(/\ LinkedOf(This, Reported) # {}
             /\ IF "bond0" \in DOMAIN This.ifs \/ Cardinality(LinkedOf(This, Reported)) > 1
                THEN BondDue(This) \/ MembersDue(This, LinkedOf(This, Reported))
                ELSE JoinsDue(This, LinkedOf(This, Reported)))
  <2>1. CASE Linked(uplinks) = {}
    BY <1>4, <2>1, Empty
  <2>2. CASE Linked(uplinks) # {} /\ (Has("bond0") \/ Cardinality(Linked(uplinks)) > 1)
    <3>1. links = BondWrites(uplinks)
      BY <2>2
    <3> HIDE DEF links
    <3> QED
      BY <1>4, <2>2, <3>1, BondIsDue
  <2>3. CASE Linked(uplinks) # {} /\ ~(Has("bond0") \/ Cardinality(Linked(uplinks)) > 1)
    <3>1. links = PortWrites(uplinks)
      BY <2>3
    <3> HIDE DEF links
    <3> QED
      BY <1>4, <2>3, <3>1, JoinsAreDue
  <2> QED
    BY <2>1, <2>2, <2>3
<1> HIDE DEF bridge, ports, links
<1>6. PICK a : a = bridge \o ports
  OBVIOUS
<1>7. IsSeq(a) /\ (a = <<>> <=> bridge = <<>> /\ ports = <<>>)
  BY <1>2, <1>3, <1>6, AnyJoined
<1>8. BridgeWrites(uplinks) = <<>> <=> a = <<>> /\ links = <<>>
  BY <1>1, <1>5, <1>6, <1>7, AnyJoined
<1> QED
  BY <1>2, <1>3, <1>4, <1>5, <1>7, <1>8 DEF BridgeDue

(* So has the IP stage of an access point NetBox knows,                    *)
LEMMA IpIsDue ==
  ASSUME Recorded, device \in DOMAIN devices, Reported.kind = "ap"
  PROVE  IpWrites(Reported.ip) = <<>> <=> ~IpDue(This, device, Reported)
<1> DEFINE ip == Reported.ip
           absent == addresses[ip] = Absent
           moved == ~absent /\ addresses[ip] # <<device, IpTarget>>
           other == absent \/ This.primary # ip
           a == When(~Has(IpTarget), Interface(IpTarget, NoName))
           b == When(absent, Address("address", ip))
           c == When(moved, Address("assign", ip))
           d == When(other, Address("primary", ip))
<1>1. IpWrites(ip) = ((a \o b) \o c) \o d
  BY DEF IpWrites
<1>2. Has(IpTarget) \in BOOLEAN /\ absent \in BOOLEAN /\ moved \in BOOLEAN /\ other \in BOOLEAN
  BY DEF Has
<1>3. IpTarget = "br0"
  BY DEF IpTarget
<1>4. absent => addresses[ip] # <<device, "br0">>
  BY <1>3, PlaceOf DEF Places
<1>5. IpDue(This, device, Reported) <=> ~Has(IpTarget) \/ absent \/ moved \/ other
  BY <1>3, <1>4 DEF IpDue, Has
<1> HIDE DEF absent, moved, other
<1>6. /\ IsSeq(a) /\ (a = <<>> <=> Has(IpTarget))
      /\ IsSeq(b) /\ (b = <<>> <=> ~absent)
      /\ IsSeq(c) /\ (c = <<>> <=> ~moved)
      /\ IsSeq(d) /\ (d = <<>> <=> ~other)
  BY <1>2, AnyWhen
<1> HIDE DEF a, b, c, d
<1>7. PICK ab, abc : ab = a \o b /\ abc = ab \o c
  OBVIOUS
<1>8. IsSeq(ab) /\ (ab = <<>> <=> a = <<>> /\ b = <<>>)
  BY <1>6, <1>7, AnyJoined
<1>9. IsSeq(abc) /\ (abc = <<>> <=> ab = <<>> /\ c = <<>>)
  BY <1>6, <1>7, <1>8, AnyJoined
<1>10. IpWrites(ip) = <<>> <=> abc = <<>> /\ d = <<>>
  BY <1>1, <1>6, <1>7, <1>9, AnyJoined
<1> QED
  BY <1>5, <1>6, <1>8, <1>9, <1>10

(* and the run, when an SSID has no wireless LAN.                          *)
LEMMA LansAreDue ==
  ASSUME NEW S, IsFiniteSet(S)
  PROVE  LET Create(ssid) == Set("lan", ssid) IN Each(Create, SetToSeq(S)) = <<>> <=> S = {}
<1> DEFINE Create(ssid) == Set("lan", ssid)
           n == SetToSeq(S)
           q == Each(Create, n)
<1>1. Cardinality(S) \in Nat
  BY FS_CardinalityType
<1>2. \E f \in [1 .. Cardinality(S) -> S] : IsInjective(f)
  <2>1. PICK f : f \in Bijection(1 .. Cardinality(S), S)
    BY FS_CardinalityType, FS_CountingElements DEF ExistsBijection
  <2> QED
    BY <2>1 DEF IsInjective, Bijection, Injection
<1>3. n \in [1 .. Cardinality(S) -> S]
  BY <1>2 DEF SetToSeq
<1>4. DOMAIN n = {} <=> S = {}
  <2>1. S = {} <=> Cardinality(S) = 0
    BY FS_EmptySet
  <2> QED
    BY <1>1, <1>3, <2>1
<1>5. IsSeq(n)
  <2>1. n \in Seq(S)
    BY <1>1, <1>3
  <2> QED
    BY <2>1, InSeq
<1> HIDE DEF n
<1>6. q = [i \in DOMAIN n |-> Set("lan", n[i])]
  BY DEF Each
<1>7. DOMAIN q = DOMAIN n /\ q = [i \in DOMAIN n |-> q[i]]
  BY <1>6
<1> HIDE DEF q
<1>8. IsSeq(q)
  BY <1>5, <1>7, Mapped
<1>9. q = <<>> <=> S = {}
  BY <1>4, <1>7, <1>8, AnyIs
<1> QED
  BY <1>9 DEF q, n

(* What a step leaves to be told.                                          *)
Tells ==
  /\ failed' \/ FailsLeft' <=> failed \/ FailsLeft
  /\ ~(failed \/ FailsLeft) => (issues' \/ IssuesLeft' <=> issues \/ IssuesLeft)
  /\ ~(failed \/ FailsLeft) /\ ~(issues \/ IssuesLeft) =>
       (changes' \/ queue' # <<>> \/ ChangesLeft' <=> changes \/ queue # <<>> \/ ChangesLeft)

(* Steps that leave NetBox alone see the devices as they were.             *)
LEMMA AlikeOf ==
  ASSUME NEW m, UNCHANGED <<report, netbox>>
  PROVE  /\ \A j : Blocked(m, j)' <=> Blocked(m, j)
         /\ \A j : Refused(m, j)' <=> Refused(m, j)
         /\ \A j : Troubled(m, j)' <=> Troubled(m, j)
         /\ \A j : Changing(m, j)' <=> Changing(m, j)
         /\ TagDue(m)' <=> TagDue(m)
         /\ LansDue' <=> LansDue
         /\ FailsAll(m)' <=> FailsAll(m)
         /\ IssuesAll(m)' <=> IssuesAll(m)
         /\ ChangesAll(m)' <=> ChangesAll(m)
<1> USE DEF netbox
<1>1. \A j : Blocked(m, j)' <=> Blocked(m, j)
  BY DEF Blocked
<1>2. \A j : Refused(m, j)' <=> Refused(m, j)
  BY DEF Refused
<1>3. \A j : PortsOf(m, j)' = PortsOf(m, j)
  BY DEF PortsOf
<1>4. \A j : Troubled(m, j)' <=> Troubled(m, j)
  BY <1>2, <1>3 DEF Troubled, Radioless, Portless
<1>5. \A j : Changing(m, j)' <=> Changing(m, j)
  <2> TAKE j
  <2>1. PICK n, r, d : n = m[j] /\ r = devices[n.id] /\ d = report[j]
    OBVIOUS
  <2>2. m[j] = n /\ devices'[n.id] = r /\ report'[j] = d
    BY <2>1
  <2>3. IpComes(m, j, r, n.id)' <=> IpComes(m, j, r, n.id)
    BY <1>2 DEF IpComes, IpDue
  <2>4. RadioDue(r, d)' <=> RadioDue(r, d)
    BY DEF RadioDue
  <2> QED
    BY <2>1, <2>2, <2>3, <2>4 DEF Changing
<1>6. TagDue(m)' <=> TagDue(m)
  BY DEF TagDue
<1>7. LansDue' <=> LansDue
  BY DEF LansDue
<1>8. FailsAll(m)' <=> FailsAll(m)
  BY <1>1 DEF FailsAll
<1>9. IssuesAll(m)' <=> IssuesAll(m)
  BY <1>4 DEF IssuesAll
<1>10. ChangesAll(m)' <=> ChangesAll(m)
  BY <1>5, <1>6, <1>7 DEF ChangesAll
<1> QED
  BY <1>1, <1>2, <1>4, <1>5, <1>6, <1>7, <1>8, <1>9, <1>10

(* Steps that do not match them anew either.                               *)
LEMMA Alike ==
  ASSUME UNCHANGED <<report, matches, netbox>>
  PROVE  /\ \A j : Blocked(matches, j)' <=> Blocked(matches, j)
         /\ \A j : Refused(matches, j)' <=> Refused(matches, j)
         /\ \A j : Troubled(matches, j)' <=> Troubled(matches, j)
         /\ \A j : Changing(matches, j)' <=> Changing(matches, j)
         /\ TagDue(matches)' <=> TagDue(matches)
         /\ LansDue' <=> LansDue
         /\ FailsAll(matches)' <=> FailsAll(matches)
         /\ IssuesAll(matches)' <=> IssuesAll(matches)
         /\ ChangesAll(matches)' <=> ChangesAll(matches)
<1>1. PICK m : m = matches
  OBVIOUS
<1>2. matches' = m
  BY <1>1
<1>3. /\ \A j : Blocked(m, j)' <=> Blocked(m, j)
      /\ \A j : Refused(m, j)' <=> Refused(m, j)
      /\ \A j : Troubled(m, j)' <=> Troubled(m, j)
      /\ \A j : Changing(m, j)' <=> Changing(m, j)
      /\ TagDue(m)' <=> TagDue(m)
      /\ LansDue' <=> LansDue
      /\ FailsAll(m)' <=> FailsAll(m)
      /\ IssuesAll(m)' <=> IssuesAll(m)
      /\ ChangesAll(m)' <=> ChangesAll(m)
  BY AlikeOf
<1> QED
  BY <1>1, <1>2, <1>3

(* They match the devices as they did.                                     *)
LEMMA MatchedAlike ==
  ASSUME UNCHANGED <<report, devices>>
  PROVE  MatchedNow' = MatchedNow
<1>1. \A d : Classify(d)' = Classify(d)
  BY DEF Classify
<1> QED
  BY <1>1 DEF MatchedNow

(* In a run, a step keeps what has been told when it adds up.              *)
LEMMA KeepsTelling ==
  ASSUME Telling, Tells, stage # "start", stage' # "start",
         UNCHANGED <<report, modes, ended>>,
         ended = <<>> => UNCHANGED <<matches, netbox>>
  PROVE  Telling'
<1>1. CASE ended = <<>>
  <2>1. matches = MatchedNow /\ Sums(FailsAll(matches), IssuesAll(matches), ChangesAll(matches))
    BY <1>1 DEF Telling
  <2>2. UNCHANGED <<report, matches, netbox>>
    BY <1>1
  <2>3. MatchedNow' = MatchedNow
    BY <2>2, MatchedAlike DEF netbox
  <2>4. PICK f \in BOOLEAN, t \in BOOLEAN, d \in BOOLEAN :
          (f <=> FailsAll(matches)) /\ (t <=> IssuesAll(matches)) /\ (d <=> ChangesAll(matches))
    OBVIOUS
  <2>5. (FailsAll(matches)' <=> f) /\ (IssuesAll(matches)' <=> t) /\ (ChangesAll(matches)' <=> d)
    BY <2>2, <2>4, Alike
  <2>6. (Sums(FailsAll(matches), IssuesAll(matches), ChangesAll(matches)))'
    BY <2>1, <2>4, <2>5 DEF Sums, Tells
  <2> QED
    BY <1>1, <2>1, <2>2, <2>3, <2>6 DEF Telling
<1>2. CASE ended # <<>>
  <2>1. PICK f \in BOOLEAN, t \in BOOLEAN, d \in BOOLEAN :
          Sums(f, t, d) /\ ended[1] = Outcome(f, t, d, modes[1].cables)
    BY <1>2 DEF Telling
  <2>2. Sums(f, t, d)'
    BY <2>1 DEF Sums, Tells
  <2>3. ended'[1] = Outcome(f, t, d, modes'[1].cables)
    BY <2>1
  <2> QED
    BY <1>2, <2>2, <2>3 DEF Telling
<1> QED
  BY <1>1, <1>2

(* What a stage queues, or a plan tells of, is a change when there is any. *)
LEMMA EnqueueTells ==
  ASSUME NEW w, NEW s, Enqueue(w, s)
  PROVE  /\ (changes' \/ queue' # <<>>) <=> (changes \/ w # <<>>)
         /\ stage' = s
         /\ queue' = w \/ queue' = <<>>
BY DEF Enqueue

(* What lies ahead is as it was.                                           *)
LEMMA AheadIs ==
  ASSUME UNCHANGED <<report, matches, netbox>>, Ahead' = Ahead
  PROVE  /\ FailsLeft' <=> FailsLeft
         /\ (\E j \in Ahead' : Troubled(matches, j)') <=> \E j \in Ahead : Troubled(matches, j)
         /\ (\E j \in Ahead' : Changing(matches, j)') <=> \E j \in Ahead : Changing(matches, j)
<1>1. /\ \A j : Blocked(matches, j)' <=> Blocked(matches, j)
      /\ \A j : Troubled(matches, j)' <=> Troubled(matches, j)
      /\ \A j : Changing(matches, j)' <=> Changing(matches, j)
  BY Alike
<1> QED
  BY <1>1 DEF FailsLeft

(* With no fault yet, all was read, and a plan has nothing to write.       *)
LEMMA Calm ==
  ASSUME IInv, PlanThenApply, Firm, stage # "start"
  PROVE
         /\ ~unread /\ silent = {} /\ noLans = {}
         /\ stage \in OnDevice => ~noBridge
         /\ Uplinks = Reported.uplinks
         /\ ended = <<>> => queue = <<>> /\ ~apply
         /\ ended # <<>> => apply
<1>1. ~unread /\ silent = {} /\ noLans = {} /\ (stage \in OnDevice => ~noBridge)
  BY DEF IInv, Excused, Firm
<1>2. Uplinks = Reported.uplinks
  BY <1>1 DEF Uplinks
<1>3. Len(ended) \in Nat /\ (ended = <<>> <=> Len(ended) = 0)
  BY DEF IInv, Located
<1>4. ended = <<>> => ~apply
  BY <1>3 DEF PlanThenApply, apply
<1>5. ended # <<>> => Len(ended) = 1
  <2>1. PICK n : n = Len(ended)
    OBVIOUS
  <2>2. n \in Nat /\ n < 2 /\ (ended # <<>> => n # 0)
    BY <1>3, <2>1 DEF PlanThenApply
  <2>3. n # 0 => n = 1
    BY <2>2
  <2> QED
    BY <2>1, <2>2, <2>3
<1>6. ended # <<>> => apply
  BY <1>5 DEF PlanThenApply, apply
<1>7. ended = <<>> => queue = <<>>
  BY <1>4 DEF IInv, Queued
<1> QED
  BY <1>1, <1>2, <1>4, <1>6, <1>7

(* Only the IP stage has addresses to write.                               *)
LEMMA NoAddress ==
  ASSUME NEW q, NEW s \in DOMAIN Ops, s # "radio", \A k \in DOMAIN q : q[k].op \in Ops[s]
  PROVE  \A op \in {"address", "assign"} : \A on : ~Coming(q, op, on)
<1> SUFFICES ASSUME NEW op \in {"address", "assign"}, NEW on, Coming(q, op, on) PROVE FALSE
  OBVIOUS
<1>1. op \in Ops[s]
  BY DEF Coming
<1> QED
  BY <1>1, StageOf

(* The run begins: all of it is left.                                      *)
LEMMA StartTells ==
  ASSUME IInv, PlanThenApply, Firm, StartRun, faults' = faults, faults \in Nat
  PROVE  Firm'
<1>0. Located /\ Recorded /\ Queued
  BY DEF IInv
<1>1. /\ stage = "start" /\ stage' = "tag" /\ at' = 1 /\ ~failed' /\ ~issues' /\ ~changes'
      /\ matches' = MatchedNow /\ UNCHANGED <<report, modes, netbox, queue, ended>>
  BY DEF StartRun, MatchedNow
<1>2. ~faulty'
  BY DEF StartRun, QueryWlcs
<1>3. queue' = <<>>
  BY <1>0, <1>1, StartsEmpty
<1>4. Placed'
  BY <1>1 DEF Firm, Placed, netbox
<1>5. Here'
  <2>1. \A op, on : ~Coming(<<>>, op, on)
    BY ComingOne
  <2>2. \A op \in {"address", "assign"} : \A on : ~Coming(queue, op, on)'
    BY <1>3, <2>1 DEF Coming
  <2>3. stage' \notin OnDevice
    BY <1>1 DEF OnDevice
  <2> QED
    BY <2>2, <2>3 DEF Here
<1>6. Ahead' = DOMAIN report /\ report' = report
  <2>1. DOMAIN report \subseteq Nat \ {0}
    BY <1>0, ReportIs
  <2> QED
    BY <1>1, <2>1 DEF Ahead, Begun, OnDevice
<1>7. MatchedNow' = MatchedNow /\ matches' = MatchedNow'
  BY <1>1, MatchedAlike DEF netbox
<1>8. PICK f \in BOOLEAN, t \in BOOLEAN, d \in BOOLEAN :
        (f <=> FailsAll(matches)') /\ (t <=> IssuesAll(matches)') /\ (d <=> ChangesAll(matches)')
  OBVIOUS
<1>9. (Sums(f, t, d))'
  <2>1. FailsLeft' <=> f
    BY <1>6, <1>8 DEF FailsLeft, FailsAll
  <2>2. ~IssuesHere' /\ ~ChangesHere'
    BY <1>1 DEF IssuesHere, ChangesHere, OnDevice
  <2>3. IssuesLeft' <=> t
    BY <1>6, <1>8, <2>2 DEF IssuesLeft, IssuesAll
  <2>4. ChangesLeft' <=> d
    BY <1>1, <1>6, <1>8, <2>2 DEF ChangesLeft, ChangesAll
  <2> QED
    BY <1>1, <1>3, <2>1, <2>3, <2>4 DEF Sums
<1>10. Telling'
  <2>1. CASE ended = <<>>
    <3>1. (Sums(FailsAll(matches), IssuesAll(matches), ChangesAll(matches)))'
      BY <1>8, <1>9 DEF Sums
    <3> QED
      BY <1>1, <1>7, <2>1, <3>1 DEF Telling
  <2>2. CASE ended # <<>>
    <3>1. ended[1] = Verdict(MatchedNow)
      BY <1>1, <2>2 DEF Firm, Telling
    <3>2. /\ FailsAll(MatchedNow) <=> FailsAll(matches)'
          /\ IssuesAll(MatchedNow) <=> IssuesAll(matches)'
          /\ ChangesAll(MatchedNow) <=> ChangesAll(matches)'
      <4>1. PICK m : m = MatchedNow
        OBVIOUS
      <4>2. matches' = m
        BY <1>1, <4>1
      <4>3. /\ FailsAll(m)' <=> FailsAll(m)
            /\ IssuesAll(m)' <=> IssuesAll(m)
            /\ ChangesAll(m)' <=> ChangesAll(m)
        BY <1>1, AlikeOf
      <4> QED
        BY <4>1, <4>2, <4>3
    <3>3. ended'[1] = Outcome(f, t, d, modes'[1].cables)
      BY <1>1, <1>8, <3>1, <3>2 DEF Verdict, Outcome
    <3> QED
      BY <1>1, <1>9, <2>2, <3>3 DEF Telling
  <2> QED
    BY <2>1, <2>2
<1> QED
  BY <1>2, <1>4, <1>5, <1>10 DEF Firm

(* A stage with no writes left, of those that leave NetBox alone: it is    *)
(* enough that what it enqueues and finds adds up.                         *)
Stage ==
  /\ queue = <<>> /\ stage # "start" /\ stage' # "start"
  /\ UNCHANGED <<report, modes, netbox, matches, ended, faults, faulty>>

(* It leaves the rest as the invariant has it.                             *)
LEMMA StageFirm ==
  ASSUME IInv, Firm, Stage, Tells, Here'
  PROVE  Firm'
<1>1. Placed'
  BY DEF Firm, Placed, Stage, netbox
<1>2. Telling'
  BY KeepsTelling DEF Firm, Stage
<1> QED
  BY <1>1, <1>2 DEF Firm, Stage

(* No address is to come but in the IP stage.                              *)
NoneComes == \A op \in {"address", "assign"} : \A on : ~Coming(queue', op, on)

(* The writes that are left then are none of addresses.                    *)
LEMMA NoneToCome ==
  ASSUME Located', Queued', stage' # "radio"
  PROVE  NoneComes
<1>1. PICK q, s : q = queue' /\ s = stage'
  OBVIOUS
<1>2. s \in DOMAIN Ops /\ s # "radio"
  BY <1>1 DEF Located
<1>3. \A k \in DOMAIN q : q[k].op \in Ops[s]
  BY <1>1 DEF Queued
<1> QED
  BY <1>1, <1>2, <1>3, NoAddress DEF NoneComes

(* So a stage that works on no device is in order.                         *)
LEMMA HereOff ==
  ASSUME Located', Queued', stage' \notin OnDevice
  PROVE  Here'
<1>1. stage' # "radio"
  BY DEF OnDevice
<1>2. NoneComes
  BY <1>1, NoneToCome
<1> QED
  BY <1>2 DEF Here, NoneComes

(* The tag.                                                                *)
LEMMA TagTells ==
  ASSUME IInv, IInv', PlanThenApply, Firm, SyncTag
  PROVE  Firm'
<1>0. Located /\ Recorded /\ Queued /\ Located' /\ Queued'
  BY DEF IInv
<1>1. /\ stage = "tag" /\ UNCHANGED <<at, failed, issues>>
      /\ UNCHANGED <<report, modes, netbox, matches, ended, faults, faulty>>
  BY DEF SyncTag
<1>2. queue = <<>>
  <2>1. Ops["tag"] = {} /\ IsSeq(queue)
    BY <1>0 DEF Ops, Queued, IsSeq
  <2>2. \A k \in DOMAIN queue : FALSE
    BY <1>0, <1>1, <2>1 DEF Queued
  <2> QED
    BY <2>1, <2>2, Rest
<1>3. PICK c \in BOOLEAN : c <=> TagDue(matches)
  OBVIOUS
<1>4. Enqueue(When(c, Set("tag", NoName)), "lans")
  BY <1>3 DEF SyncTag, TagDue, When
<1>5. PICK w : w = When(c, Set("tag", NoName))
  OBVIOUS
<1>6. w = <<>> <=> ~c
  BY <1>5, AnyWhen
<1>7. (changes' \/ queue' # <<>> <=> changes \/ c) /\ stage' = "lans"
  BY <1>4, <1>5, <1>6, EnqueueTells
<1>8. Ahead' = Ahead
  BY <1>1, <1>7 DEF Ahead, Begun, OnDevice
<1>9. ~IssuesHere /\ ~ChangesHere /\ ~IssuesHere' /\ ~ChangesHere'
  BY <1>1, <1>7 DEF IssuesHere, ChangesHere, OnDevice
<1>10. (FailsLeft' <=> FailsLeft) /\ (IssuesLeft' <=> IssuesLeft)
  BY <1>1, <1>8, <1>9, AheadIs DEF IssuesLeft
<1>11. ChangesLeft <=> c \/ LansDue \/ \E j \in Ahead : Changing(matches, j)
  BY <1>1, <1>3, <1>9 DEF ChangesLeft
<1>12. ChangesLeft' <=> LansDue \/ \E j \in Ahead : Changing(matches, j)
  BY <1>1, <1>7, <1>8, <1>9, Alike, AheadIs DEF ChangesLeft
<1>13. Tells
  BY <1>1, <1>2, <1>7, <1>10, <1>11, <1>12 DEF Tells
<1>14. Here'
  BY <1>0, <1>7, HereOff DEF OnDevice
<1> QED
  BY <1>1, <1>2, <1>7, <1>13, <1>14, StageFirm DEF Stage

(* The wireless LANs.                                                      *)
LEMMA LansTell ==
  ASSUME IInv, IInv', PlanThenApply, Firm, SyncLans
  PROVE  Firm'
<1>0. Located /\ Recorded /\ Queued /\ Located' /\ Queued'
  BY DEF IInv
<1>1. /\ stage = "lans" /\ queue = <<>> /\ UNCHANGED <<at, failed, issues>>
      /\ UNCHANGED <<report, modes, netbox, matches, ended, faults, faulty>>
  BY DEF SyncLans
<1> DEFINE ssids == UNION {d.ssids : d \in Range(report)}
           S == {ssid \in ssids : lans[ssid] = 0}
           Create(ssid) == Set("lan", ssid)
<1>2. IsFiniteSet(S)
  BY <1>0, ReportIs, FS_Subset
<1>3. ~unread
  BY <1>1, Calm
<1>4. PICK w : w = Each(Create, SetToSeq(S))
  OBVIOUS
<1>5. Enqueue(w, "device")
  BY <1>3, <1>4 DEF SyncLans
<1>6. w = <<>> <=> S = {}
  BY <1>2, <1>4, LansAreDue
<1>7. S = {} <=> ~LansDue
  BY DEF LansDue
<1> HIDE DEF S
<1>8. (changes' \/ queue' # <<>> <=> changes \/ LansDue) /\ stage' = "device"
  BY <1>5, <1>6, <1>7, EnqueueTells
<1>9. Ahead' = Ahead
  BY <1>1, <1>8 DEF Ahead, Begun, OnDevice
<1>10. ~IssuesHere /\ ~ChangesHere /\ ~IssuesHere' /\ ~ChangesHere'
  BY <1>1, <1>8 DEF IssuesHere, ChangesHere, OnDevice
<1>11. (FailsLeft' <=> FailsLeft) /\ (IssuesLeft' <=> IssuesLeft)
  BY <1>1, <1>9, <1>10, AheadIs DEF IssuesLeft
<1>12. ChangesLeft <=> LansDue \/ \E j \in Ahead : Changing(matches, j)
  BY <1>1, <1>10 DEF ChangesLeft
<1>13. ChangesLeft' <=> \E j \in Ahead : Changing(matches, j)
  BY <1>1, <1>8, <1>9, <1>10, AheadIs DEF ChangesLeft
<1>14. Tells
  BY <1>1, <1>8, <1>11, <1>12, <1>13 DEF Tells
<1>15. Here'
  BY <1>0, <1>8, HereOff DEF OnDevice
<1> QED
  BY <1>1, <1>8, <1>14, <1>15, StageFirm DEF Stage

(* On to the next device.                                                  *)
LEMMA NextTells ==
  ASSUME IInv, IInv', PlanThenApply, Firm, NextDevice
  PROVE  Firm'
<1>0. Located /\ Recorded /\ Queued /\ Located' /\ Queued'
  BY DEF IInv
<1>1. /\ stage = "next" /\ queue = <<>> /\ stage' = "device" /\ at' = at + 1
      /\ UNCHANGED <<failed, issues, changes, queue>>
      /\ UNCHANGED <<report, modes, netbox, matches, ended, faults, faulty>>
  BY DEF NextDevice, outcome
<1>2. Ahead' = Ahead
  <2>1. at \in Nat /\ \A j \in DOMAIN report : j \in Nat
    BY <1>0, ReportIs DEF Located
  <2>2. \A j \in DOMAIN report : j > at <=> j > at + 1 \/ j = at + 1
    BY <2>1
  <2> QED
    BY <1>1, <2>2 DEF Ahead, Begun, OnDevice
<1>3. ~IssuesHere /\ ~ChangesHere /\ ~IssuesHere' /\ ~ChangesHere'
  BY <1>1 DEF IssuesHere, ChangesHere, OnDevice
<1>4. (FailsLeft' <=> FailsLeft) /\ (IssuesLeft' <=> IssuesLeft) /\ (ChangesLeft' <=> ChangesLeft)
  BY <1>1, <1>2, <1>3, AheadIs DEF IssuesLeft, ChangesLeft
<1>5. Tells
  BY <1>1, <1>4 DEF Tells
<1>6. Here'
  BY <1>0, <1>1, HereOff DEF OnDevice
<1> QED
  BY <1>1, <1>5, <1>6, StageFirm DEF Stage

(* A device is taken up: what it takes is no longer ahead, but here.       *)
LEMMA TakesUp ==
  ASSUME Located, stage = "device", stage' \in Begun, at \in DOMAIN report,
         UNCHANGED <<report, matches, netbox, at>>
  PROVE  /\ FailsLeft <=> Blocked(matches, at) \/ FailsLeft'
         /\ IssuesLeft <=> Troubled(matches, at) \/ \E j \in Ahead' : Troubled(matches, j)
         /\ ChangesLeft <=> Changing(matches, at) \/ \E j \in Ahead' : Changing(matches, j)
         /\ (\E j \in Ahead' : Troubled(matches, j)') <=> \E j \in Ahead' : Troubled(matches, j)
         /\ (\E j \in Ahead' : Changing(matches, j)') <=> \E j \in Ahead' : Changing(matches, j)
<1>1. Ahead = Ahead' \cup {at}
  <2>1. at \in Nat /\ \A j \in DOMAIN report : j \in Nat
    BY ReportIs
  <2> QED
    BY <2>1 DEF Ahead, Begun, OnDevice
<1>2. /\ \A j : Blocked(matches, j)' <=> Blocked(matches, j)
      /\ \A j : Troubled(matches, j)' <=> Troubled(matches, j)
      /\ \A j : Changing(matches, j)' <=> Changing(matches, j)
  BY Alike
<1>3. ~IssuesHere /\ ~ChangesHere
  BY DEF IssuesHere, ChangesHere, OnDevice
<1>4. FailsLeft <=> Blocked(matches, at) \/ FailsLeft'
  BY <1>1, <1>2 DEF FailsLeft
<1>5. IssuesLeft <=> Troubled(matches, at) \/ \E j \in Ahead' : Troubled(matches, j)
  BY <1>1, <1>3 DEF IssuesLeft
<1>6. ChangesLeft <=> Changing(matches, at) \/ \E j \in Ahead' : Changing(matches, j)
  BY <1>1, <1>3 DEF ChangesLeft
<1> QED
  BY <1>2, <1>4, <1>5, <1>6

(* It is not there yet, or one that was matched.                           *)
LEMMA DeviceTells ==
  ASSUME IInv, IInv', PlanThenApply, Firm, StartDevice
  PROVE  Firm'
<1>0. Located /\ Recorded /\ Queued /\ Located' /\ Queued'
  BY DEF IInv
<1>1. /\ stage = "device" /\ queue = <<>> /\ at <= Len(report) /\ device' = matches[at].id
      /\ UNCHANGED <<report, modes, netbox, matches, at, ended, faults, faulty, issues>>
      /\ UNCHANGED <<devices, addresses, lans, tagged>>
  BY DEF StartDevice, netbox
<1>2. at \in DOMAIN report
  BY <1>0, <1>1, ReportIs DEF Located
<1>3. /\ matches[at].action \in {"update", "create", "blocked"}
      /\ matches[at].action = "update" => matches[at].id \in DOMAIN devices
      /\ matches[at].action # "update" => matches[at].id = Preview
  BY <1>0, <1>1, <1>2 DEF Located
<1>4. Reported' = Reported
  BY <1>1 DEF Reported
<1>5. CASE matches[at].action = "blocked"
  <2>1. failed' /\ stage' = "next"
    BY <1>1, <1>5 DEF StartDevice
  <2>2. FailsLeft <=> Blocked(matches, at) \/ FailsLeft'
    BY <1>0, <1>1, <1>2, <2>1, TakesUp DEF Begun
  <2>3. Tells
    BY <1>5, <2>1, <2>2 DEF Tells, Blocked
  <2>4. Here'
    BY <1>0, <2>1, HereOff DEF OnDevice
  <2> QED
    BY <1>1, <2>1, <2>3, <2>4, StageFirm DEF Stage
<1>6. CASE matches[at].action # "blocked"
  <2>1. /\ stage' = "identity" /\ failed' = failed
        /\ matches[at].action = "update" => queue' = queue /\ changes' = changes
        /\ matches[at].action = "create" =>
             /\ queue' = <<>> \/ queue' = <<Set("device", NoName)>>
             /\ changes' \/ queue' # <<>>
    <3>1. CASE matches[at].action = "create"
      <4>1. PICK w : w = <<Set("device", NoName)>>
        OBVIOUS
      <4>2. w # <<>>
        BY <4>1, Single, Empty
      <4>3. Enqueue(w, "identity") /\ failed' = failed
        BY <3>1, <4>1 DEF StartDevice
      <4> QED
        BY <3>1, <4>1, <4>2, <4>3, EnqueueTells
    <3>2. CASE matches[at].action = "update"
      BY <3>2 DEF StartDevice
    <3> QED
      BY <1>3, <1>6, <3>1, <3>2
  <2>2. /\ FailsLeft <=> Blocked(matches, at) \/ FailsLeft'
        /\ IssuesLeft <=> Troubled(matches, at) \/ \E j \in Ahead' : Troubled(matches, j)
        /\ ChangesLeft <=> Changing(matches, at) \/ \E j \in Ahead' : Changing(matches, j)
        /\ (\E j \in Ahead' : Troubled(matches, j)') <=> \E j \in Ahead' : Troubled(matches, j)
        /\ (\E j \in Ahead' : Changing(matches, j)') <=> \E j \in Ahead' : Changing(matches, j)
    BY <1>0, <1>1, <1>2, <2>1, TakesUp DEF Begun, OnDevice
  <2>3. \A on : ~Coming(queue', "interface", on) /\ ~Coming(queue', "address", on)
                /\ ~Coming(queue', "assign", on)
    <3>1. PICK w : w = Set("device", NoName)
      OBVIOUS
    <3>2. w.op = "device"
      BY <3>1 DEF Set, Write
    <3>3. PICK a, b : a = <<>> /\ b = <<w>>
      OBVIOUS
    <3>4. queue' = a \/ queue' = b
      BY <1>1, <1>3, <1>6, <2>1, <3>1, <3>3
    <3>5. \A op, on : ~Coming(a, op, on) /\ (Coming(b, op, on) => op = "device")
      BY <3>2, <3>3, ComingOne
    <3> QED
      BY <3>4, <3>5
  <2>4. DOMAIN This'.ifs \cap Ports = PortsOf(matches, at)
    <3>1. CASE matches[at].action = "create"
      <4>1. device' = Preview
        BY <1>1, <1>3, <3>1
      <4>2. This'.ifs = [n \in Reported.template |-> Bare]
        BY <1>4, <4>1 DEF This
      <4>3. DOMAIN This'.ifs = Reported.template
        BY <4>2
      <4> QED
        BY <3>1, <4>3 DEF PortsOf, Reported
    <3>2. CASE matches[at].action = "update"
      <4>1. device' \in DOMAIN devices
        BY <1>1, <1>3, <3>2
      <4>2. device' # Preview
        BY <1>0, <4>1 DEF Recorded, Preview
      <4>3. This' = devices[matches[at].id]
        BY <1>1, <4>2 DEF This
      <4> QED
        BY <3>2, <4>3 DEF PortsOf
    <3> QED
      BY <1>3, <1>6, <3>1, <3>2
  <2>5. PortsHere' = PortsOf(matches, at)
    BY <2>3, <2>4 DEF PortsHere, Has
  <2>6. IssuesHere' <=> Troubled(matches, at)
    <3>1. Refused(matches, at)' <=> Refused(matches, at)
      BY <1>1, Alike
    <3> QED
      BY <1>1, <1>4, <1>6, <2>1, <2>5, <3>1 DEF IssuesHere, Troubled, OnDevice, Reported
  <2>7. IssuesLeft' <=> IssuesLeft
    BY <1>1, <2>2, <2>6 DEF IssuesLeft
  <2>8. changes' \/ queue' # <<>> \/ ChangesLeft' <=> changes \/ queue # <<>> \/ ChangesLeft
    <3>1. CASE matches[at].action = "create"
      BY <2>1, <2>2, <3>1 DEF Changing
    <3>2. CASE matches[at].action = "update"
      <4>1. device' = matches[at].id /\ device' # Preview
        BY <1>0, <1>1, <1>3, <3>2 DEF Recorded, Preview
      <4>2. PICK i, r, d : i = matches[at].id /\ r = devices[i] /\ d = report[at]
        OBVIOUS
      <4>3. This' = r /\ Reported' = d /\ device' = i
        BY <1>1, <4>1, <4>2 DEF This, Reported
      <4>4. Changing(matches, at) <=> \/ IdentityDue(r, d)
                                      \/ d.kind = "ap" /\ BridgeDue(r, d)
                                      \/ IpComes(matches, at, r, i)
                                      \/ RadioDue(r, d)
        BY <3>2, <4>2 DEF Changing
      <4>5. IpComes(matches, at, This, device)' <=> IpComes(matches, at, r, i)
        <5>1. Refused(matches, at)' <=> Refused(matches, at)
          BY <1>1, Alike
        <5> QED
          BY <1>1, <4>3, <5>1 DEF IpComes, IpDue
      <4>6. RadioDue(This, Reported)' <=> RadioDue(r, d)
        BY <1>1, <4>3 DEF RadioDue
      <4>7. ChangesHere' <=> Changing(matches, at)
        BY <2>1, <4>3, <4>4, <4>5, <4>6 DEF ChangesHere, OnDevice
      <4>8. ChangesLeft' <=> ChangesLeft
        BY <2>1, <2>2, <1>1, <4>7 DEF ChangesLeft
      <4> QED
        BY <1>1, <2>1, <3>2, <4>8
    <3> QED
      BY <1>3, <1>6, <3>1, <3>2
  <2>9. Tells
    BY <1>1, <1>6, <2>1, <2>2, <2>7, <2>8 DEF Tells, Blocked
  <2>10. Here'
    <3>1. matches[at].action = "create" =>
            (\A ip \in DOMAIN addresses : addresses[ip] \notin Places => addresses[ip][1] # device)'
      <4>1. Preview \notin DOMAIN devices
        BY <1>0 DEF Recorded, Preview
      <4>2. \A ip \in DOMAIN addresses : addresses[ip] \notin Places => addresses[ip][1] \in DOMAIN devices
        BY DEF Firm, Placed
      <4> QED
        BY <1>1, <1>3, <4>1, <4>2
    <3>2. (\A op \in {"address", "assign"} : \A on : Coming(queue, op, on) => on = Reported.ip)'
      BY <2>3
    <3> QED
      BY <1>1, <1>6, <2>1, <3>1, <3>2 DEF Here
  <2> QED
    BY <1>1, <2>1, <2>9, <2>10, StageFirm DEF Stage
<1> QED
  BY <1>5, <1>6

(* What is here and ahead in the stages of one device.                     *)
LEMMA OnStage ==
  ASSUME Stage, stage \in OnDevice, stage' \in Begun, UNCHANGED <<at, device>>
  PROVE  /\ This' = This /\ Reported' = Reported
         /\ FailsLeft' <=> FailsLeft
         /\ IssuesLeft' <=> IssuesHere' \/ \E j \in Ahead : Troubled(matches, j)
         /\ ChangesLeft' <=> ChangesHere' \/ \E j \in Ahead : Changing(matches, j)
         /\ ChangesLeft <=> ChangesHere \/ \E j \in Ahead : Changing(matches, j)
         /\ Refused(matches, at)' <=> Refused(matches, at)
         /\ \A r, d : RadioDue(r, d)' <=> RadioDue(r, d)
         /\ \A r, i : IpComes(matches, at, r, i)' <=> IpComes(matches, at, r, i)
<1>1. UNCHANGED <<report, matches, netbox, at, device, devices, addresses, lans>>
  BY DEF Stage, netbox
<1>2. This' = This /\ Reported' = Reported
  BY <1>1 DEF This, Reported
<1>3. Ahead' = Ahead
  BY <1>1 DEF Ahead, Begun
<1>4. /\ FailsLeft' <=> FailsLeft
      /\ (\E j \in Ahead' : Troubled(matches, j)') <=> \E j \in Ahead : Troubled(matches, j)
      /\ (\E j \in Ahead' : Changing(matches, j)') <=> \E j \in Ahead : Changing(matches, j)
  BY <1>1, <1>3, AheadIs
<1>5. stage \notin {"tag", "lans"} /\ stage' \notin {"tag", "lans"}
  BY DEF OnDevice, Begun
<1>6. Refused(matches, at)' <=> Refused(matches, at)
  BY <1>1 DEF Refused
<1>7. \A r, d : RadioDue(r, d)' <=> RadioDue(r, d)
  BY <1>1 DEF RadioDue
<1>8. \A r, i : IpComes(matches, at, r, i)' <=> IpComes(matches, at, r, i)
  BY <1>1, <1>6 DEF IpComes, IpDue
<1>9. IssuesLeft' <=> IssuesHere' \/ \E j \in Ahead : Troubled(matches, j)
  BY <1>4 DEF IssuesLeft
<1>10. ChangesLeft' <=> ChangesHere' \/ \E j \in Ahead : Changing(matches, j)
  BY <1>4, <1>5 DEF ChangesLeft
<1>11. ChangesLeft <=> ChangesHere \/ \E j \in Ahead : Changing(matches, j)
  BY <1>5 DEF ChangesLeft
<1> QED
  BY <1>2, <1>4, <1>6, <1>7, <1>8, <1>9, <1>10, <1>11

(* The identity.                                                           *)
LEMMA IdentityTells ==
  ASSUME IInv, IInv', PlanThenApply, Firm, SyncIdentity
  PROVE  Firm'
<1>0. Located /\ Recorded /\ Queued /\ Located' /\ Queued'
  BY DEF IInv
<1>1. /\ stage = "identity" /\ queue = <<>> /\ UNCHANGED <<at, device, failed>>
      /\ issues' = (issues \/ "platform" \in Reported.lacks)
      /\ UNCHANGED <<report, modes, netbox, matches, ended, faults, faulty>>
  BY DEF SyncIdentity
<1>2. PICK w, s : w = IdentityWrites /\ s = (IF Reported.kind = "ap" THEN "bridge" ELSE "ip")
  OBVIOUS
<1>3. Enqueue(w, s)
  BY <1>2 DEF SyncIdentity
<1>4. /\ changes' \/ queue' # <<>> <=> changes \/ w # <<>>
      /\ stage' = s /\ (queue' = w \/ queue' = <<>>)
  BY <1>3, EnqueueTells
<1>5. w = <<>> <=> ~IdentityDue(This, Reported)
  BY <1>2, IdentityIsDue
<1>6. s \in {"bridge", "ip"} /\ (s = "bridge" <=> Reported.kind = "ap")
  BY <1>2
<1>7. Stage /\ stage \in OnDevice /\ stage' \in Begun
  BY <1>1, <1>4, <1>6 DEF Stage, OnDevice, Begun
<1>8. This' = This /\ Reported' = Reported /\ (Refused(matches, at)' <=> Refused(matches, at))
  BY <1>1, <1>7, OnStage
<1>9. PortsHere' = PortsHere
  <2>1. \A on : ~Coming(<<>>, "interface", on)
    BY ComingOne
  <2>2. \A on : ~Coming(w, "interface", on)
    <3>1. \A k \in DOMAIN w : w[k].op \in Ops["bridge"]
      BY <1>2, IdentityFits DEF Fits
    <3>2. "interface" \notin Ops["bridge"]
      BY DEF Ops
    <3> QED
      BY <3>1, <3>2 DEF Coming
  <2>3. \A on : ~Coming(queue, "interface", on) /\ ~Coming(queue', "interface", on)
    BY <1>1, <1>4, <2>1, <2>2
  <2> QED
    BY <1>8, <2>3 DEF PortsHere, Has
<1>10. issues' \/ IssuesHere' <=> issues \/ IssuesHere
  BY <1>1, <1>4, <1>6, <1>8, <1>9 DEF IssuesHere, OnDevice
<1>11. ChangesHere <=> IdentityDue(This, Reported) \/ ChangesHere'
  <2>1. IpComes(matches, at, This, device)' <=> IpComes(matches, at, This, device)
    BY <1>1, <1>7, <1>8, OnStage
  <2>2. RadioDue(This, Reported)' <=> RadioDue(This, Reported)
    BY <1>1, <1>7, <1>8, OnStage
  <2> QED
    BY <1>1, <1>4, <1>6, <1>8, <2>1, <2>2 DEF ChangesHere, OnDevice
<1>12. Tells
  <2>1. IssuesLeft <=> IssuesHere \/ \E j \in Ahead : Troubled(matches, j)
    BY DEF IssuesLeft
  <2> HIDE DEF IssuesHere, ChangesHere
  <2> QED
    BY <1>1, <1>4, <1>5, <1>7, <1>10, <1>11, <2>1, OnStage DEF Tells
<1>13. Here'
  <2>1. NoneComes
    BY <1>0, <1>4, <1>6, NoneToCome
  <2>2. Here
    BY <1>1 DEF Firm
  <2>3. changes \/ queue # <<>> => changes' \/ queue' # <<>>
    BY <1>1, <1>4
  <2>4. UNCHANGED <<matches, addresses, at, device>>
    BY <1>1 DEF netbox
  <2> QED
    BY <1>1, <1>4, <1>6, <1>7, <1>8, <2>1, <2>2, <2>3, <2>4 DEF Here, NoneComes, OnDevice
<1> QED
  BY <1>7, <1>12, <1>13, StageFirm

(* The bridge stage makes the ports that are new, and no others.           *)
LEMMA NewPortsCome ==
  ASSUME NEW uplinks \in SUBSET Ports, NEW p \in Ports
  PROVE  Coming(BridgeWrites(uplinks), "interface", p) <=> p \in NewPorts(uplinks)
<1> DEFINE Create(name) == Interface(name, NoName)
           bridge == When(~Has("br0"), Create("br0"))
           ports == Each(Create, Order(NewPorts(uplinks)))
           links == IF Linked(uplinks) = {} THEN <<>>
                    ELSE IF Has("bond0") \/ Cardinality(Linked(uplinks)) > 1 THEN BondWrites(uplinks)
                    ELSE PortWrites(uplinks)
<1>1. BridgeWrites(uplinks) = (bridge \o ports) \o links
  BY DEF BridgeWrites
<1>2. \A name, b : /\ Interface(name, b).op = "interface" /\ Interface(name, b).on = name
  BY DEF Interface, Write
<1>3. IsSeq(bridge) /\ \A op, on : Coming(bridge, op, on) => op = "interface" /\ on = "br0"
  BY <1>2, ComingWhen
<1>4. /\ IsSeq(ports)
      /\ Coming(ports, "interface", p) <=> p \in NewPorts(uplinks)
  <2>1. PICK q, P : q = ports /\ P = NewPorts(uplinks)
    OBVIOUS
  <2>2. q = [k \in DOMAIN Order(P) |-> Interface(Order(P)[k], NoName)]
    BY <2>1 DEF Each
  <2>3. EachPort(q, "interface", P)
    BY <1>2, <2>2 DEF EachPort
  <2>4. /\ IsSeq(q) /\ \A op, on : Coming(q, op, on) => op = "interface" /\ on \in P \cap Ports
        /\ \A n \in P \cap Ports : Coming(q, "interface", n)
    BY <2>3, ComingEach
  <2> QED
    BY <2>1, <2>4
<1>5. IsSeq(links) /\ \A on : Coming(links, "interface", on) => on = "bond0"
  <2>1. CASE Linked(uplinks) = {}
    BY <2>1, Empty, ComingOne
  <2>2. CASE Linked(uplinks) # {} /\ (Has("bond0") \/ Cardinality(Linked(uplinks)) > 1)
    <3>1. links = BondWrites(uplinks)
      BY <2>2
    <3> HIDE DEF links
    <3> QED
      BY <3>1, BondComing
  <2>3. CASE Linked(uplinks) # {} /\ ~(Has("bond0") \/ Cardinality(Linked(uplinks)) > 1)
    <3>1. links = PortWrites(uplinks)
      BY <2>3
    <3> HIDE DEF links
    <3> QED
      BY <3>1, PortsComing
  <2> QED
    BY <2>1, <2>2, <2>3
<1>6. p # "br0" /\ p # "bond0"
  BY PortNames
<1> HIDE DEF bridge, ports, links
<1>7. PICK a, q : a = bridge \o ports /\ q = a \o links
  OBVIOUS
<1>8. IsSeq(a) /\ \A op, on : Coming(a, op, on) <=> Coming(bridge, op, on) \/ Coming(ports, op, on)
  BY <1>3, <1>4, <1>7, ComingJoined, Joined
<1>9. \A op, on : Coming(q, op, on) <=> Coming(a, op, on) \/ Coming(links, op, on)
  BY <1>5, <1>7, <1>8, ComingJoined
<1>10. BridgeWrites(uplinks) = q
  BY <1>1, <1>7
<1> QED
  BY <1>3, <1>4, <1>5, <1>6, <1>8, <1>9, <1>10

(* The bridge.                                                             *)
LEMMA BridgeTells ==
  ASSUME IInv, IInv', Matched, PlanThenApply, Firm, SyncBridge
  PROVE  Firm'
<1>0. Located /\ Recorded /\ Queued /\ Located' /\ Queued'
  BY DEF IInv
<1>1. /\ stage = "bridge" /\ queue = <<>> /\ UNCHANGED <<at, device, failed, issues>>
      /\ UNCHANGED <<report, modes, netbox, matches, ended, faults, faulty>>
  BY DEF SyncBridge
<1>2. /\ Uplinks = Reported.uplinks /\ Uplinks \in SUBSET Ports
  BY <1>0, <1>1, Calm, ReportedIs DEF Begun, OnDevice
<1>3. Here /\ Reported.kind = "ap"
  BY <1>1 DEF Firm, Here, OnDevice
<1>4. PICK u, w : u = Uplinks /\ w = BridgeWrites(u)
  OBVIOUS
<1>5. Enqueue(w, "ip")
  BY <1>4 DEF SyncBridge
<1>6. /\ changes' \/ queue' # <<>> <=> changes \/ w # <<>>
      /\ stage' = "ip" /\ (queue' = w \/ queue' = <<>>)
  BY <1>5, EnqueueTells
<1>7. w = <<>> <=> ~BridgeDue(This, Reported)
  BY <1>2, <1>4, BridgeIsDue
<1>8. Stage /\ stage \in OnDevice /\ stage' \in Begun
  BY <1>1, <1>6 DEF Stage, OnDevice, Begun
<1>9. This' = This /\ Reported' = Reported /\ (Refused(matches, at)' <=> Refused(matches, at))
  BY <1>1, <1>8, OnStage
<1>10. Portless(PortsHere', Reported) <=> Portless(PortsHere, Reported)
  <2>1. \A on : ~Coming(<<>>, "interface", on)
    BY ComingOne
  <2>2. PortsHere = Wired
    BY <1>1, <2>1 DEF PortsHere, Has, Wired
  <2>3. \A p \in Ports : Coming(w, "interface", p) <=> p \in NewPorts(u)
    BY <1>2, <1>4, NewPortsCome
  <2>4. PortsHere' = Wired \/ PortsHere' = Wired \cup NewPorts(u)
    <3>1. CASE queue' = <<>>
      BY <1>9, <2>1, <3>1 DEF PortsHere, Has, Wired
    <3>2. CASE queue' = w
      <4>1. NewPorts(u) \subseteq Ports
        BY <1>2, <1>4 DEF NewPorts
      <4> QED
        BY <1>9, <2>3, <3>2, <4>1 DEF PortsHere, Has, Wired
    <3> QED
      BY <1>6, <3>1, <3>2
  <2>5. CASE Wired = {}
    <3>1. NewPorts(u) = Reported.uplinks
      BY <1>2, <1>4, <2>5 DEF NewPorts
    <3> QED
      BY <2>2, <2>4, <2>5, <3>1 DEF Portless
  <2>6. CASE Wired # {}
    <3>1. NewPorts(u) = {}
      BY <2>6 DEF NewPorts
    <3> QED
      BY <2>2, <2>4, <3>1
  <2> QED
    BY <2>5, <2>6
<1>11. IssuesHere' <=> IssuesHere
  BY <1>1, <1>6, <1>9, <1>10 DEF IssuesHere, OnDevice
<1>12. ChangesHere <=> BridgeDue(This, Reported) \/ ChangesHere'
  <2>1. IpComes(matches, at, This, device)' <=> IpComes(matches, at, This, device)
    BY <1>1, <1>8, <1>9, OnStage
  <2>2. RadioDue(This, Reported)' <=> RadioDue(This, Reported)
    BY <1>1, <1>8, <1>9, OnStage
  <2> QED
    BY <1>1, <1>3, <1>6, <1>9, <2>1, <2>2 DEF ChangesHere, OnDevice
<1>13. Tells
  <2>1. IssuesLeft <=> IssuesHere \/ \E j \in Ahead : Troubled(matches, j)
    BY DEF IssuesLeft
  <2> QED
    BY <1>1, <1>6, <1>7, <1>8, <1>11, <1>12, <2>1, OnStage DEF Tells
<1>14. Here'
  <2>1. NoneComes
    BY <1>0, <1>6, NoneToCome
  <2>2. changes \/ queue # <<>> => changes' \/ queue' # <<>>
    BY <1>1, <1>6
  <2>3. UNCHANGED <<matches, addresses, at, device>>
    BY <1>1 DEF netbox
  <2> QED
    BY <1>1, <1>3, <1>6, <1>8, <1>9, <2>1, <2>2, <2>3 DEF Here, NoneComes, OnDevice
<1> QED
  BY <1>8, <1>13, <1>14, StageFirm

(* The IP stage writes no address but the one reported.                    *)
LEMMA OnlyReported ==
  ASSUME NEW ip
  PROVE  \A op \in {"address", "assign"} : \A on : Coming(IpWrites(ip), op, on) => on = ip
<1> DEFINE absent == addresses[ip] = Absent
           moved == ~absent /\ addresses[ip] # <<device, IpTarget>>
           other == absent \/ This.primary # ip
           a == When(~Has(IpTarget), Interface(IpTarget, NoName))
           b == When(absent, Address("address", ip))
           c == When(moved, Address("assign", ip))
           d == When(other, Address("primary", ip))
<1>1. IpWrites(ip) = ((a \o b) \o c) \o d
  BY DEF IpWrites
<1>2. PICK wa, wb, wc, wd :
        /\ wa = Interface(IpTarget, NoName) /\ wb = Address("address", ip)
        /\ wc = Address("assign", ip) /\ wd = Address("primary", ip)
  OBVIOUS
<1>3. wa.op = "interface" /\ wb.on = ip /\ wc.on = ip /\ wd.op = "primary"
  BY <1>2 DEF Interface, Address, Write
<1>4. IsSeq(a) /\ \A op, on : Coming(a, op, on) => op = "interface"
  BY <1>2, <1>3, ComingWhen
<1>5. IsSeq(b) /\ \A op, on : Coming(b, op, on) => on = ip
  BY <1>2, <1>3, ComingWhen
<1>6. IsSeq(c) /\ \A op, on : Coming(c, op, on) => on = ip
  BY <1>2, <1>3, ComingWhen
<1>7. IsSeq(d) /\ \A op, on : Coming(d, op, on) => op = "primary"
  BY <1>2, <1>3, ComingWhen
<1> HIDE DEF a, b, c, d
<1>8. PICK ab, abc : ab = a \o b /\ abc = ab \o c
  OBVIOUS
<1>9. IsSeq(ab) /\ \A op, on : Coming(ab, op, on) <=> Coming(a, op, on) \/ Coming(b, op, on)
  BY <1>4, <1>5, <1>8, ComingJoined, Joined
<1>10. IsSeq(abc) /\ \A op, on : Coming(abc, op, on) <=> Coming(ab, op, on) \/ Coming(c, op, on)
  BY <1>6, <1>8, <1>9, ComingJoined, Joined
<1>11. \A op, on : Coming(IpWrites(ip), op, on) <=> Coming(abc, op, on) \/ Coming(d, op, on)
  BY <1>1, <1>7, <1>8, <1>10, ComingJoined
<1> QED
  BY <1>4, <1>5, <1>6, <1>7, <1>9, <1>10, <1>11

(* The address, and the port that is missing.                              *)
LEMMA IpTells ==
  ASSUME IInv, IInv', Matched, PlanThenApply, Firm, SyncIp
  PROVE  Firm'
<1>0. Located /\ Recorded /\ Queued /\ Located' /\ Queued'
  BY DEF IInv
<1>1. /\ stage = "ip" /\ queue = <<>> /\ UNCHANGED <<at, device, failed>>
      /\ UNCHANGED <<report, modes, netbox, matches, ended, faults, faulty>>
  BY DEF SyncIp
<1>2. /\ Uplinks = Reported.uplinks /\ Uplinks \subseteq Ports /\ ~noBridge /\ at \notin silent
      /\ at \in DOMAIN report /\ Reported \in Range(report)
  BY <1>0, <1>1, Calm, ReportedIs DEF Begun, OnDevice
<1>3. Here
  BY <1>1 DEF Firm
<1>4. /\ matches[at].action \in {"update", "create"}
      /\ matches[at].action = "update" => device = matches[at].id /\ device \in DOMAIN devices
      /\ matches[at].action = "create" => changes
      /\ matches[at].action = "create" =>
           \A ip \in DOMAIN addresses : addresses[ip] \notin Places => addresses[ip][1] # device
  BY <1>0, <1>1, <1>2, <1>3 DEF Here, OnDevice, Located
<1> DEFINE wanted == Reported.ip # NoIp /\ (Reported.kind = "ap" \/ matches[at].action = "create")
           portless == /\ Reported.kind = "ap"
                       /\ Uplinks \ DOMAIN This.ifs # {}
                       /\ DOMAIN This.ifs \cap Ports # {}
           refused == wanted /\ ~noBridge /\ IpBlocked(Reported.ip)
<1>5. /\ issues' = (issues \/ refused \/ portless \/ (wanted /\ noBridge) \/ at \in silent)
      /\ IF wanted /\ ~noBridge /\ ~refused
         THEN Enqueue(IpWrites(Reported.ip), "radio")
         ELSE stage' = "radio" /\ UNCHANGED <<queue, changes>>
  BY DEF SyncIp
<1>6. refused <=> Refused(matches, at)
  <2>1. CASE ~wanted
    BY <2>1 DEF Refused, Reported
  <2>2. CASE wanted
    <3>1. Reported.ip \in DOMAIN addresses
      BY <1>0, <1>2, <2>2 DEF Recorded
    <3>2. PICK ip : ip = Reported.ip /\ ip = report[at].ip
      BY DEF Reported
    <3>3. IpBlocked(ip) <=>
            \/ addresses[ip] = Unfit
            \/ /\ addresses[ip] \notin Places
               /\ matches[at].action = "create" \/ addresses[ip][1] # matches[at].id
      BY <1>4, <3>1, <3>2 DEF IpBlocked
    <3>4. refused <=> IpBlocked(ip)
      BY <1>2, <2>2, <3>2
    <3>5. Refused(matches, at) <=>
            \/ addresses[ip] = Unfit
            \/ /\ addresses[ip] \notin Places
               /\ matches[at].action = "create" \/ addresses[ip][1] # matches[at].id
      BY <2>2, <3>2 DEF Refused, Reported
    <3> QED
      BY <3>3, <3>4, <3>5
  <2> QED
    BY <2>1, <2>2
<1>7. portless <=> Portless(PortsHere, Reported)
  <2>1. \A on : ~Coming(<<>>, "interface", on)
    BY ComingOne
  <2>2. PortsHere = DOMAIN This.ifs \cap Ports
    BY <1>1, <2>1 DEF PortsHere, Has
  <2> QED
    BY <1>2, <2>2 DEF Portless
<1>8. PICK blockedIp \in BOOLEAN, lacking \in BOOLEAN, want \in BOOLEAN :
        (blockedIp <=> refused) /\ (lacking <=> portless) /\ (want <=> wanted)
  OBVIOUS
<1>9. /\ issues' <=> issues \/ blockedIp \/ lacking
      /\ stage' = "radio"
      /\ want /\ ~blockedIp => Enqueue(IpWrites(Reported.ip), "radio")
      /\ ~want \/ blockedIp => UNCHANGED <<queue, changes>>
  <2> HIDE DEF wanted, portless, refused
  <2>1. issues' <=> issues \/ blockedIp \/ lacking
    BY <1>2, <1>5, <1>8
  <2>2. CASE want /\ ~blockedIp
    <3>1. Enqueue(IpWrites(Reported.ip), "radio")
      BY <1>2, <1>5, <1>8, <2>2
    <3> QED
      BY <2>1, <2>2, <3>1, EnqueueTells
  <2>3. CASE ~want \/ blockedIp
    BY <1>2, <1>5, <1>8, <2>1, <2>3
  <2> QED
    BY <2>2, <2>3
<1>10. /\ blockedIp <=> Refused(matches, at)
       /\ lacking <=> Portless(PortsHere, Reported)
       /\ want <=> Reported.ip # NoIp /\ (Reported.kind = "ap" \/ matches[at].action = "create")
  BY <1>6, <1>7, <1>8
<1> HIDE DEF wanted, portless, refused
<1>11. Stage /\ stage \in OnDevice /\ stage' \in Begun
  BY <1>1, <1>9 DEF Stage, OnDevice, Begun
<1>12. This' = This /\ Reported' = Reported /\ (Refused(matches, at)' <=> Refused(matches, at))
  BY <1>1, <1>11, OnStage
<1>13. /\ IssuesHere <=> Radioless(Reported) \/ blockedIp \/ lacking
       /\ IssuesHere' <=> Radioless(Reported)
  BY <1>1, <1>9, <1>10, <1>12 DEF IssuesHere, OnDevice, Radioless
<1>14. changes => changes' \/ queue' # <<>>
  BY <1>9, EnqueueTells
<1>15. ~blockedIp =>
         (changes' \/ queue' # <<>> \/ ChangesHere' <=> changes \/ ChangesHere)
  <2> SUFFICES ASSUME ~blockedIp
               PROVE  changes' \/ queue' # <<>> \/ ChangesHere' <=> changes \/ ChangesHere
    OBVIOUS
  <2>1. RadioDue(This, Reported)' <=> RadioDue(This, Reported)
    BY <1>1, <1>11, <1>12, OnStage
  <2>2. /\ ChangesHere <=> IpComes(matches, at, This, device) \/ RadioDue(This, Reported)
        /\ ChangesHere' <=> RadioDue(This, Reported)
    BY <1>1, <1>9, <2>1 DEF ChangesHere, OnDevice
  <2>3. CASE changes
    BY <1>14, <2>3
  <2>4. CASE ~changes /\ ~want
    <3>1. matches[at].action # "create"
      BY <1>4, <2>4
    <3>2. ~IpComes(matches, at, This, device)
      BY <1>10, <2>4 DEF IpComes, Reported
    <3> QED
      BY <1>1, <1>9, <2>2, <2>4, <3>2
  <2>5. CASE ~changes /\ want
    <3>1. device \in DOMAIN devices /\ Reported.kind = "ap"
      BY <1>4, <1>10, <2>5
    <3>2. IpWrites(Reported.ip) = <<>> <=> ~IpDue(This, device, Reported)
      BY <1>0, <3>1, IpIsDue
    <3>3. IpComes(matches, at, This, device) <=> IpDue(This, device, Reported)
      BY <1>10, <2>5, <3>1 DEF IpComes, Reported
    <3>4. PICK w : w = IpWrites(Reported.ip)
      OBVIOUS
    <3>5. changes' \/ queue' # <<>> <=> changes \/ w # <<>>
      BY <1>9, <2>5, <3>4, EnqueueTells
    <3> QED
      BY <2>2, <2>5, <3>2, <3>3, <3>4, <3>5
  <2> QED
    BY <2>3, <2>4, <2>5
<1>16. Tells
  <2>1. IssuesLeft <=> IssuesHere \/ \E j \in Ahead : Troubled(matches, j)
    BY DEF IssuesLeft
  <2>2. /\ FailsLeft' <=> FailsLeft
        /\ IssuesLeft' <=> IssuesHere' \/ \E j \in Ahead : Troubled(matches, j)
        /\ ChangesLeft' <=> ChangesHere' \/ \E j \in Ahead : Changing(matches, j)
        /\ ChangesLeft <=> ChangesHere \/ \E j \in Ahead : Changing(matches, j)
    BY <1>1, <1>11, OnStage
  <2>3. issues' \/ IssuesLeft' <=> issues \/ IssuesLeft
    BY <1>9, <1>13, <2>1, <2>2
  <2>4. ~(issues \/ IssuesLeft) => ~blockedIp
    BY <1>13, <2>1
  <2> QED
    BY <1>1, <1>15, <2>2, <2>3, <2>4 DEF Tells
<1>17. Here'
  <2>1. \A op \in {"address", "assign"} : \A on : Coming(queue', op, on) => on = Reported.ip
    <3>1. \A op, on : ~Coming(<<>>, op, on)
      BY ComingOne
    <3>2. PICK w : w = IpWrites(Reported.ip)
      OBVIOUS
    <3>3. queue' = w \/ queue' = <<>>
      BY <1>1, <1>9, <3>2, EnqueueTells
    <3> QED
      BY <3>1, <3>2, <3>3, OnlyReported
  <2> QED
    BY <1>1, <1>4, <1>9, <1>12, <1>14, <2>1 DEF Here, OnDevice
<1> QED
  BY <1>11, <1>16, <1>17, StageFirm

(* The radios.                                                             *)
LEMMA RadiosTell ==
  ASSUME IInv, IInv', PlanThenApply, Firm, SyncRadios
  PROVE  Firm'
<1>0. Located /\ Recorded /\ Queued /\ Located' /\ Queued'
  BY DEF IInv
<1>1. /\ stage = "radio" /\ queue = <<>> /\ UNCHANGED <<at, device, failed>>
      /\ UNCHANGED <<report, modes, netbox, matches, ended, faults, faulty>>
  BY DEF SyncRadios
<1>2. ~unread /\ noLans = {}
  BY <1>1, Calm
<1> DEFINE reported == Reported.kind = "ap" /\ ~unread /\ "radio" \notin Reported.skips
           lacking == reported /\ "radio" \in Reported.lacks
           lost == Reported.ssids \cap noLans
           ambiguous == {ssid \in Reported.ssids : lans[ssid] > 1}
           fields == ({"radio", "channel"} \ Reported.skips)
                       \cup (IF lost \cup ambiguous = {} THEN {"lan"} ELSE {})
           due == reported /\ ~lacking /\ This.wrong \cap fields # {}
           on == IF "lan" \in fields THEN "lan" ELSE "radio"
<1>3. /\ Enqueue(When(due, Set("radio", on)), "next")
      /\ issues' = (issues \/ lacking \/ (reported /\ lost # {}))
  BY DEF SyncRadios
<1>4. lost = {} /\ (lacking <=> Radioless(Reported))
  BY <1>2 DEF Radioless
<1>5. due <=> RadioDue(This, Reported)
  <2>1. fields = ({"radio", "channel"} \ Reported.skips)
                   \cup (IF \E s \in Reported.ssids : lans[s] > 1 THEN {} ELSE {"lan"})
    BY <1>4
  <2> HIDE DEF fields
  <2> QED
    BY <1>2, <2>1 DEF RadioDue
<1>6. PICK w : w = Set("radio", on)
  OBVIOUS
<1>c. PICK c \in BOOLEAN : c <=> due
  OBVIOUS
<1> HIDE DEF due, on, lost
<1>7. Enqueue(When(c, w), "next")
  BY <1>3, <1>6, <1>c DEF When
<1>8. issues' <=> issues \/ Radioless(Reported)
  BY <1>3, <1>4
<1>9. (changes' \/ queue' # <<>> <=> changes \/ c) /\ stage' = "next"
  BY <1>7, EnqueueTells, AnyWhen
<1>10. Stage /\ stage \in OnDevice /\ stage' \in Begun
  BY <1>1, <1>9 DEF Stage, OnDevice, Begun
<1>11. /\ IssuesHere <=> Radioless(Reported)
       /\ ~IssuesHere' /\ ~ChangesHere'
       /\ ChangesHere <=> c
  BY <1>1, <1>5, <1>c, <1>9 DEF IssuesHere, ChangesHere, OnDevice
<1>12. Tells
  <2>1. IssuesLeft <=> IssuesHere \/ \E j \in Ahead : Troubled(matches, j)
    BY DEF IssuesLeft
  <2>2. /\ FailsLeft' <=> FailsLeft
        /\ IssuesLeft' <=> IssuesHere' \/ \E j \in Ahead : Troubled(matches, j)
        /\ ChangesLeft' <=> ChangesHere' \/ \E j \in Ahead : Changing(matches, j)
        /\ ChangesLeft <=> ChangesHere \/ \E j \in Ahead : Changing(matches, j)
    BY <1>1, <1>10, OnStage
  <2> QED
    BY <1>1, <1>8, <1>9, <1>11, <2>1, <2>2 DEF Tells
<1>13. Here'
  BY <1>0, <1>9, HereOff DEF OnDevice
<1> QED
  BY <1>10, <1>12, <1>13, StageFirm

-----------------------------------------------------------------------------
(* A write leaves the interfaces of every device but the one at hand, and  *)
(* only a write of an interface changes that one's.                        *)
LEMMA IfsAfter ==
  ASSUME Located, Recorded, Queued, queue # <<>>, NEW w, w = Head(queue), Carried(w)
  PROVE  /\ DOMAIN devices \subseteq DOMAIN devices'
         /\ \A i \in DOMAIN devices :
              i # device \/ w.op \notin {"interface", "link"} => devices'[i].ifs = devices[i].ifs
<1>1. devices' = Devices(w)
  BY DEF Carried
<1>2. w.op \in Ops[stage] /\ stage \in DOMAIN Ops
  BY HeadIs DEF Located
<1>3. CASE Quiet(w.op)
  BY <1>1, <1>3, QuietLeaves
<1>4. CASE w.op \in {"interface", "link"}
  <2>1. device \in DOMAIN devices
    BY <1>4, HeadIs DEF Linking
  <2>2. /\ devices' \in Seq(Range(devices')) /\ DOMAIN devices' = DOMAIN devices
        /\ \A i \in DOMAIN devices : i # device => devices'[i] = devices[i]
        /\ DOMAIN devices'[device] = DOMAIN devices[device]
        /\ devices'[device].primary = devices[device].primary
        /\ DOMAIN devices'[device].ifs = DOMAIN devices[device].ifs \cup {w.on}
        /\ devices'[device].ifs[w.on] = [lag |-> w.lag, bridge |-> w.bridge]
        /\ \A n \in DOMAIN devices[device].ifs :
              n # w.on => devices'[device].ifs[n] = devices[device].ifs[n]
    BY <1>1, <1>4, <2>1, InterfaceLeaves
  <2> QED
    BY <1>4, <2>2
<1>5. CASE w.op = "primary"
  <2>1. device \in DOMAIN devices
    BY <1>5, HeadIs DEF Linking
  <2>2. /\ DOMAIN devices' = DOMAIN devices
        /\ \A i \in DOMAIN devices : i # device => devices'[i] = devices[i]
        /\ devices'[device].ifs = devices[device].ifs
    BY <1>1, <1>5, <2>1, PrimaryLeaves
  <2> QED
    BY <2>2
<1>6. CASE w.op = "device"
  BY <1>1, <1>6, RecordNew
<1> QED
  BY <1>2, <1>3, <1>4, <1>5, <1>6, OpsOf DEF Quiet

(* The devices ahead are not touched by it.                                *)
LEMMA AheadApart ==
  ASSUME Located, Recorded, Queued, Matched, Here, PlanThenApply, stage # "start",
         queue # <<>>, NEW w, w = Head(queue), Carried(w),
         UNCHANGED <<report, matches>>, NEW j \in Ahead
  PROVE  Troubled(matches, j)' <=> Troubled(matches, j)
<1>1. w.op \in Ops[stage] /\ stage \in DOMAIN Ops /\ addresses' = Addresses(w)
  BY HeadIs DEF Located, Carried
<1>2. j \in DOMAIN report /\ (stage \in Begun => j # at)
  <2>1. at \in Nat /\ \A k \in DOMAIN report : k \in Nat
    BY ReportIs DEF Located
  <2> QED
    BY <2>1 DEF Ahead
<1>3. matches[j].action # "blocked" => PortsOf(matches, j)' = PortsOf(matches, j)
  <2>1. CASE matches[j].action = "create"
    BY <2>1 DEF PortsOf
  <2>2. CASE matches[j].action = "update"
    <3>1. PICK i : i = matches[j].id
      OBVIOUS
    <3>2. i \in Existing(devices, report[j])
      BY <1>2, <2>2, <3>1 DEF Matched, Ahead
    <3>3. i \in DOMAIN devices
      BY <3>2 DEF Existing
    <3>4. w.op \in {"interface", "link"} => i # device
      <4> SUFFICES ASSUME w.op \in {"interface", "link"} PROVE i # device
        OBVIOUS
      <4>1. device \in DOMAIN devices /\ stage \in Begun
        BY HeadIs DEF Linking, Begun, OnDevice
      <4>2. device # Preview
        BY <4>1, DeviceThere
      <4>3. at \in DOMAIN report /\ device \in Existing(devices, report[at])
        BY <4>1, <4>2 DEF Matched, Reported
      <4>4. Existing(devices, report[at]) \cap Existing(devices, report[j]) = {}
        BY <1>2, <4>1, <4>3 DEF Matched
      <4> QED
        BY <3>2, <4>3, <4>4
    <3>5. devices'[i].ifs = devices[i].ifs
      BY <3>3, <3>4, IfsAfter
    <3>6. matches'[j].id = i
      BY <3>1
    <3> QED
      BY <2>2, <3>1, <3>5, <3>6 DEF PortsOf
  <2> QED
    BY <1>2, <2>1, <2>2 DEF Located
<1>4. Refused(matches, j)' <=> Refused(matches, j)
  <2>1. CASE report[j].ip = NoIp
    BY <2>1 DEF Refused
  <2>2. CASE report[j].ip # NoIp
    <3>1. PICK ip : ip = report[j].ip
      OBVIOUS
    <3>2. ip \in DOMAIN addresses
      BY <1>2, <2>2, <3>1 DEF Recorded, Range
    <3>3. w.op \in {"address", "assign"} => w.on # ip
      <4> SUFFICES ASSUME w.op \in {"address", "assign"} PROVE w.on # ip
        OBVIOUS
      <4>1. stage \in Begun
        BY <1>1, StageOf DEF Begun, OnDevice
      <4>2. IsSeq(queue)
        BY DEF Queued, IsSeq
      <4>3. 1 \in DOMAIN queue /\ queue[1] = w
        BY <4>2, Rest
      <4>4. Coming(queue, w.op, w.on)
        BY <4>3 DEF Coming
      <4>5. w.on = report[at].ip
        BY <4>4 DEF Here, Reported
      <4>6. at \in DOMAIN report /\ j # at
        BY <1>2, <4>1 DEF Matched
      <4> QED
        BY <1>2, <3>1, <4>5, <4>6 DEF PlanThenApply
    <3>4. addresses'[ip] = addresses[ip]
      BY <1>1, <3>2, <3>3, AddressesAfter
    <3>5. report'[j].ip = ip /\ report'[j] = report[j] /\ matches'[j] = matches[j]
      BY <3>1
    <3> QED
      BY <3>1, <3>4, <3>5 DEF Refused
  <2> QED
    BY <2>1, <2>2
<1> QED
  BY <1>3, <1>4 DEF Troubled, Radioless, Portless

(* The ports of the device at hand, those to come among them, are as they  *)
(* were: what is made was to come.                                         *)
LEMMA PortsKept ==
  ASSUME IInv, Matched, WriteOk, stage \in OnDevice
  PROVE  PortsHere' = PortsHere
<1>0. Located /\ Recorded /\ Queued
  BY DEF IInv
<1>1. PICK w : w = Head(queue)
  OBVIOUS
<1>2. /\ queue # <<>> /\ Carried(w) /\ queue' = Tail(queue)
      /\ device' = IF w.op = "device" THEN Len(devices) + 1 ELSE device
      /\ UNCHANGED <<report, matches, at, unread, silent, stage>>
  BY <1>1 DEF WriteOk, live
<1>3. w.op \in Ops[stage] /\ stage \in DOMAIN Ops /\ apply
  BY <1>0, <1>1, <1>2, HeadIs DEF Located
<1>4. CASE w.op = "device"
  <2>1. stage = "identity" /\ queue' = <<>>
    BY <1>0, <1>1, <1>2, <1>4, HeadIs
  <2>2. device = Preview /\ queue = <<Set("device", NoName)>>
    BY <1>0, <1>2, <2>1 DEF Matched, Located
  <2>3. PICK v : v = Set("device", NoName)
    OBVIOUS
  <2>4. v.op = "device"
    BY <2>3 DEF Set, Write
  <2>5. \A on : ~Coming(queue, "interface", on)
    <3>1. PICK q : q = <<v>>
      OBVIOUS
    <3>2. \A on : ~Coming(q, "interface", on)
      BY <2>4, <3>1, ComingOne
    <3> QED
      BY <2>2, <2>3, <3>1, <3>2
  <2>6. \A on : ~Coming(queue', "interface", on)
    <3>1. \A on : ~Coming(<<>>, "interface", on)
      BY ComingOne
    <3> QED
      BY <2>1, <3>1
  <2>7. DOMAIN This.ifs = Reported.template
    BY <2>2 DEF This
  <2>8. DOMAIN This'.ifs = Reported.template
    <3>1. PICK n : n = Len(devices) + 1
      OBVIOUS
    <3>2. n # Preview
      <4>1. Len(devices) \in Nat
        BY <1>0 DEF Recorded
      <4> QED
        BY <3>1, <4>1 DEF Preview
    <3>3. device' = n /\ devices'[n].ifs = [m \in Reported.template |-> Bare]
      BY <1>0, <1>2, <1>4, <3>1, DeviceComes DEF Carried
    <3>4. This' = devices'[n]
      BY <3>2, <3>3 DEF This
    <3> QED
      BY <3>3, <3>4
  <2> QED
    BY <2>5, <2>6, <2>7, <2>8 DEF PortsHere, Has
<1>5. CASE w.op # "device"
  <2>1. stage # "identity"
    BY <1>3, <1>5, OpsOf
  <2>2. device # Preview
    BY <1>0, <1>3, <2>1 DEF Located
  <2>3. device \in DOMAIN devices
    BY <1>0, <2>2 DEF Located
  <2>4. Wrote(w)
    BY <1>1, <1>2, <1>5, <2>3 DEF Wrote, Begun
  <2>5. /\ \A op, on : Coming(queue, op, on) => (w.op = op /\ w.on = on) \/ Coming(queue', op, on)
        /\ \A op, on : Coming(queue', op, on) => Coming(queue, op, on)
    BY <1>0, <2>4, ThisAfter
  <2>6. /\ w.op \in {"interface", "link"} => DOMAIN This'.ifs = DOMAIN This.ifs \cup {w.on}
        /\ w.op \notin {"interface", "link"} => This'.ifs = This.ifs
        /\ w.op = "link" => Has(w.on)
    BY <1>0, <2>4, LinksAfter
  <2>7. Coming(queue, w.op, w.on)
    <3>1. IsSeq(queue)
      BY <1>0 DEF Queued, IsSeq
    <3>2. 1 \in DOMAIN queue /\ queue[1] = w
      BY <1>1, <1>2, <3>1, Rest
    <3> QED
      BY <3>2 DEF Coming
  <2> QED
    BY <2>5, <2>6, <2>7 DEF PortsHere, Has
<1> QED
  BY <1>4, <1>5

(* A write that is carried out.                                            *)
LEMMA WriteTells ==
  ASSUME IInv, IInv', Matched, PlanThenApply, Firm, WriteOk
  PROVE  Firm'
<1>0. Located /\ Recorded /\ Queued /\ Located' /\ Queued'
  BY DEF IInv
<1>1. PICK w : w = Head(queue)
  OBVIOUS
<1>2. /\ queue # <<>> /\ Carried(w) /\ queue' = Tail(queue) /\ changes' = TRUE
      /\ device' = IF w.op = "device" THEN Len(devices) + 1 ELSE device
      /\ UNCHANGED <<report, modes, stage, matches, at, failed, issues, ended, faults, faulty>>
  BY <1>1 DEF WriteOk
<1>3. /\ w.op \in Ops[stage] /\ stage \in DOMAIN Ops /\ apply /\ Proper(w)
      /\ w.op \in Linking => device \in DOMAIN devices /\ stage \in {"ip", "radio"}
  BY <1>0, <1>1, <1>2, HeadIs DEF Located
<1>4. stage # "start" /\ Here /\ Telling /\ Placed /\ ~faulty
  BY <1>3, OpsOf DEF Firm
<1>5. addresses' = Addresses(w) /\ (w.op \notin {"address", "assign"} => addresses' = addresses)
  BY <1>2, AddressesAfter DEF Carried
<1>6. Reported' = Reported
  BY <1>2 DEF Reported
<1>7. DOMAIN devices \subseteq DOMAIN devices'
  BY <1>0, <1>1, <1>2, IfsAfter
<1>8. w.op \in {"address", "assign"} => stage = "radio"
  BY <1>3, StageOf
<1>9. stage \in OnDevice \ {"radio"} => (Refused(matches, at)' <=> Refused(matches, at))
  BY <1>2, <1>5, <1>8 DEF Refused
<1>10. IssuesHere' <=> IssuesHere
  <2>1. stage \in OnDevice => PortsHere' = PortsHere
    BY <1>0, PortsKept
  <2> QED
    BY <1>2, <1>6, <1>9, <2>1 DEF IssuesHere
<1>11. Ahead' = Ahead
  BY <1>2 DEF Ahead
<1>12. IssuesLeft' <=> IssuesLeft
  <2>1. \A j \in Ahead : Troubled(matches, j)' <=> Troubled(matches, j)
    BY <1>0, <1>1, <1>2, <1>4, AheadApart
  <2> QED
    BY <1>10, <1>11, <2>1 DEF IssuesLeft
<1>13. FailsLeft' <=> FailsLeft
  BY <1>2, <1>11 DEF FailsLeft, Blocked
<1>14. Tells
  BY <1>2, <1>12, <1>13 DEF Tells
<1>15. ended # <<>>
  BY <1>2, <1>4, Calm
<1>16. Telling'
  BY <1>2, <1>4, <1>14, <1>15, KeepsTelling
<1>17. Placed'
  <2> SUFFICES ASSUME NEW ip \in DOMAIN addresses', addresses'[ip] \notin Places
               PROVE  addresses'[ip][1] \in DOMAIN devices'
    BY DEF Placed
  <2>1. DOMAIN addresses' = DOMAIN addresses
    BY <1>5, AddressesAfter
  <2>2. CASE w.op \in {"address", "assign"} /\ ip = w.on
    <3>1. addresses'[ip] = <<device, IpTarget>>
      BY <1>5, <2>1, <2>2, AddressesAfter
    <3>2. device \in DOMAIN devices
      BY <1>3, <2>2 DEF Linking
    <3> QED
      BY <1>7, <3>1, <3>2
  <2>3. CASE ~(w.op \in {"address", "assign"} /\ ip = w.on)
    <3>1. addresses'[ip] = addresses[ip]
      BY <1>5, <2>1, <2>3, AddressesAfter
    <3> QED
      BY <1>4, <1>7, <2>1, <3>1 DEF Placed
  <2> QED
    BY <2>2, <2>3
<1>18. Here'
  <2>1. \A op \in {"address", "assign"} : \A on : Coming(queue', op, on) => on = Reported.ip
    <3>1. PICK q, t : q = queue /\ t = Tail(q)
      OBVIOUS
    <3>2. IsSeq(q)
      BY <1>0, <3>1 DEF Queued, IsSeq
    <3>3. \A op, on : Coming(t, op, on) => Coming(q, op, on)
      BY <1>2, <3>1, <3>2, ComingHead
    <3>4. queue' = t
      BY <1>2, <3>1
    <3> QED
      BY <1>4, <3>1, <3>3, <3>4 DEF Here
  <2>2. stage \in OnDevice => at \in DOMAIN report
    BY <1>0 DEF Located
  <2>3. CASE w.op = "device"
    <3>1. stage = "identity" /\ device = Preview
      BY <1>0, <1>2, <1>3, <2>3, OpsOf DEF Matched
    <3>2. Preview \notin DOMAIN devices
      BY <1>0 DEF Recorded, Preview
    <3>3. matches[at].action # "update"
      <4>1. matches[at].action = "update" => matches[at].id \in DOMAIN devices
        BY <1>0, <1>4, <2>2, <3>1 DEF Located, OnDevice
      <4> QED
        BY <1>4, <3>1, <3>2, <4>1 DEF Here, OnDevice
    <3>4. \A ip \in DOMAIN addresses : addresses[ip] \notin Places => addresses[ip][1] # device'
      <4>1. Len(devices) + 1 \notin DOMAIN devices
        BY <1>0 DEF Recorded
      <4> QED
        BY <1>2, <1>4, <2>3, <4>1 DEF Placed
    <3> QED
      BY <1>2, <1>4, <1>5, <1>6, <2>1, <2>3, <3>1, <3>3, <3>4 DEF Here, OnDevice
  <2>4. CASE w.op # "device"
    <3>1. device' = device
      BY <1>2, <2>4
    <3>2. stage # "radio" => addresses' = addresses
      BY <1>5, <1>8
    <3> QED
      BY <1>2, <1>4, <1>6, <2>1, <3>1, <3>2 DEF Here
  <2> QED
    BY <2>3, <2>4
<1> QED
  BY <1>2, <1>4, <1>16, <1>17, <1>18 DEF Firm

(* A run ends with what is left when nothing is.                           *)
LEMMA NothingLeft ==
  ASSUME IInv, stage = "device", at > Len(report)
  PROVE  ~FailsLeft /\ ~IssuesLeft /\ ~ChangesLeft
<1>1. Ahead = {}
  <2>1. /\ at \in Nat /\ Len(report) \in Nat /\ DOMAIN report = 1 .. Len(report)
    BY ReportIs DEF IInv, Located
  <2> QED
    BY <2>1 DEF Ahead
<1>2. ~IssuesHere /\ ~ChangesHere
  BY DEF IssuesHere, ChangesHere, OnDevice
<1> QED
  BY <1>1, <1>2 DEF FailsLeft, IssuesLeft, ChangesLeft

(* The plan says what is to come.                                          *)
LEMMA PlanEnds ==
  ASSUME IInv, PlanThenApply, Firm, EndRun, ended = <<>>
  PROVE  Firm'
<1>1. /\ stage = "device" /\ queue = <<>> /\ at > Len(report) /\ stage' = "start"
      /\ ended' = Append(ended, Status)
      /\ UNCHANGED <<report, modes, matches, netbox, devices, addresses, faulty>>
  BY DEF EndRun, netbox
<1>2. ended'[1] = Status /\ ended' # <<>>
  BY <1>1
<1>3. ~unread /\ ~apply /\ cables = modes[1].cables
  BY <1>1, Calm DEF cables
<1>4. matches = MatchedNow /\ Sums(FailsAll(matches), IssuesAll(matches), ChangesAll(matches))
  BY <1>1 DEF Firm, Telling
<1>5. ~FailsLeft /\ ~IssuesLeft /\ ~ChangesLeft
  BY <1>1, NothingLeft
<1>6. Status = Verdict(matches)
  BY <1>1, <1>3, <1>4, <1>5 DEF Status, Verdict, Outcome, Sums
<1>7. PICK m : m = MatchedNow
  OBVIOUS
<1>8. MatchedNow' = m
  BY <1>1, <1>7, MatchedAlike
<1>9. Verdict(m)' = Verdict(m)
  BY <1>1, AlikeOf DEF Verdict, Outcome
<1>10. ended'[1] = Verdict(MatchedNow)'
  BY <1>2, <1>4, <1>6, <1>7, <1>8, <1>9
<1>11. Telling'
  BY <1>1, <1>10 DEF Telling
<1>12. Placed'
  BY <1>1 DEF Firm, Placed
<1> QED
  BY <1>1, <1>11, <1>12 DEF Firm

(* A second status comes after the first.                                  *)
LEMMA Second ==
  ASSUME NEW S, NEW e \in Seq(S), NEW s \in S, Len(e) = 1
  PROVE  Append(e, s)[1] = e[1] /\ Append(e, s)[2] = s /\ Len(Append(e, s)) = 2
<1>1. /\ Len(Append(e, s)) = Len(e) + 1
      /\ \A i \in 1 .. Len(e) : Append(e, s)[i] = e[i]
      /\ Append(e, s)[Len(e) + 1] = s
  BY AppendProperties
<1>2. Len(e) + 1 = 2 /\ 1 \in 1 .. Len(e)
  OBVIOUS
<1> QED
  BY <1>1, <1>2

(* The apply after it comes to that.                                       *)
LEMMA ApplyEnds ==
  ASSUME IInv, PlanThenApply, Firm, EndRun, ended # <<>>
  PROVE  ended'[2] = AfterPlan[ended'[1]] /\ Len(ended') = 2
<1>1. /\ stage = "device" /\ queue = <<>> /\ at > Len(report) /\ ended' = Append(ended, Status)
  BY DEF EndRun
<1>2. Len(ended) = 1
  <2>1. PICK n : n = Len(ended)
    OBVIOUS
  <2>2. n \in Nat /\ n < 2 /\ n # 0
    BY <2>1 DEF PlanThenApply, IInv, Located
  <2> QED
    BY <2>1, <2>2
<1>3. ended'[1] = ended[1] /\ ended'[2] = Status /\ Len(ended') = 2
  <2>1. PICK e, s : e = ended /\ s = Status
    OBVIOUS
  <2>2. e \in Seq({"ok", "drift", "changed", "partial", "error"})
    BY <2>1 DEF IInv, Located
  <2>3. Len(e) = 1 /\ s \in {"ok", "drift", "changed", "partial", "error"}
    BY <1>2, <2>1, StatusIs
  <2>4. PICK t : t = Append(e, s)
    OBVIOUS
  <2>5. t[1] = e[1] /\ t[2] = s /\ Len(t) = 2
    BY <2>2, <2>3, <2>4, Second
  <2> QED
    BY <1>1, <2>1, <2>4, <2>5
<1>4. ~unread /\ apply /\ cables = modes[1].cables
  BY <1>1, <1>2, Calm DEF cables, PlanThenApply
<1>5. PICK f \in BOOLEAN, t \in BOOLEAN, d \in BOOLEAN :
        Sums(f, t, d) /\ ended[1] = Outcome(f, t, d, modes[1].cables)
  BY <1>1 DEF Firm, Telling
<1>6. ~FailsLeft /\ ~IssuesLeft /\ ~ChangesLeft
  BY <1>1, NothingLeft
<1>7. (failed <=> f) /\ (~f => (issues <=> t)) /\ (~f /\ ~t => (changes <=> d))
  BY <1>1, <1>5, <1>6 DEF Sums
<1>8. PICK c : c = cables
  OBVIOUS
<1>9. ended[1] = Outcome(f, t, d, c)
  BY <1>4, <1>5, <1>8
<1>10. Status = AfterPlan[ended[1]]
  BY <1>4, <1>7, <1>8, <1>9 DEF Status, AfterPlan, Outcome
<1> QED
  BY <1>3, <1>10

(* Only a fault keeps a run from going on.                                 *)
LEMMA NoFault ==
  ASSUME IInv, [Next]_vars, faults \in Nat, PlanThenApply'
  PROVE  /\ PlanThenApply /\ UNCHANGED <<report, modes, faults>>
         /\ ~WriteFails /\ ~TagFails
<1>1. UNCHANGED <<report, modes>> /\ (ended' = ended \/ \E s \in {Status, "error"} : ended' = Append(ended, s))
  BY DEF Next, vars, StartRun, SyncTag, SyncLans, StartDevice, SyncIdentity, SyncBridge, SyncIp,
         SyncRadios, NextDevice, WriteOk, WriteFails, TagFails, EndRun
<1>2. faults' = faults \/ faults' = faults + 1
  BY DEF Next, vars, StartRun, QueryWlcs, SyncTag, SyncLans, StartDevice, SyncIdentity, SyncBridge,
         SyncIp, SyncRadios, NextDevice, WriteOk, WriteFails, TagFails, EndRun
<1>3. faults' = 0 /\ faults = 0
  BY <1>2 DEF PlanThenApply
<1>4. Len(ended) < 2
  <2>1. PICK n : n = Len(ended)
    OBVIOUS
  <2>2. ended \in Seq({"ok", "drift", "changed", "partial", "error"}) /\ n \in Nat
    BY <2>1 DEF IInv, Located
  <2>3. Len(ended') = n \/ Len(ended') = n + 1
    BY <1>1, <2>1, <2>2, StatusIs
  <2> QED
    BY <2>1, <2>2, <2>3 DEF PlanThenApply
<1>5. PlanThenApply
  BY <1>1, <1>3, <1>4 DEF PlanThenApply
<1>6. ~WriteFails
  <2> SUFFICES ASSUME WriteFails PROVE FALSE
    OBVIOUS
  <2>1. PICK w : w = Head(queue)
    OBVIOUS
  <2>2. Possible(w)
    BY <2>1, HeadPossible DEF IInv, WriteFails
  <2>3. faults' = faults + 1
    BY <2>1, <2>2 DEF WriteFails
  <2> QED
    BY <1>3, <2>3
<1>7. ~TagFails
  BY <1>3 DEF TagFails
<1> QED
  BY <1>1, <1>3, <1>5, <1>6, <1>7

(* Each step keeps what has been told.                                     *)
LEMMA NextFirm ==
  ASSUME IInv, IInv', Matched, [Next]_vars, faults \in Nat, PlanThenApply => Firm, PlanThenApply'
  PROVE  Firm'
<1>1. PlanThenApply /\ Firm /\ UNCHANGED faults /\ ~WriteFails /\ ~TagFails
  BY NoFault
<1>2. CASE EndRun
  <2>1. ended = <<>>
    <3>1. ended # <<>> => Len(ended') = 2
      BY <1>1, <1>2, ApplyEnds
    <3>2. PICK n : n = Len(ended')
      OBVIOUS
    <3>3. n < 2
      BY <3>2 DEF PlanThenApply
    <3>4. n # 2
      BY <3>3
    <3> QED
      BY <3>1, <3>2, <3>4
  <2> QED
    BY <1>1, <1>2, <2>1, PlanEnds
<1>3. CASE UNCHANGED vars
  <2>1. /\ UNCHANGED <<report, modes, devices, addresses, lans, tagged, stage, matches, at, device, queue>>
        /\ UNCHANGED <<failed, issues, changes, ended, faulty, netbox>>
    BY <1>3 DEF vars, netbox, outcome
  <2>2. UNCHANGED <<This, Reported>>
    BY <2>1 DEF This, Reported
  <2>3. UNCHANGED <<Ahead, PortsHere>>
    BY <2>1, <2>2 DEF Ahead, PortsHere, Has
  <2>4. /\ Refused(matches, at)' <=> Refused(matches, at)
        /\ \A j : Troubled(matches, j)' <=> Troubled(matches, j)
        /\ \A j : Changing(matches, j)' <=> Changing(matches, j)
        /\ TagDue(matches)' <=> TagDue(matches)
        /\ LansDue' <=> LansDue
        /\ FailsLeft' <=> FailsLeft
    BY <2>1, <2>3, Alike, AheadIs
  <2>5. IssuesHere' <=> IssuesHere
    BY <2>1, <2>2, <2>3, <2>4 DEF IssuesHere
  <2>6. IpComes(matches, at, This, device)' <=> IpComes(matches, at, This, device)
    BY <2>1, <2>2, <2>4 DEF IpComes, IpDue
  <2>7. RadioDue(This, Reported)' <=> RadioDue(This, Reported)
    BY <2>1, <2>2 DEF RadioDue
  <2>8. ChangesHere' <=> ChangesHere
    BY <2>1, <2>2, <2>6, <2>7 DEF ChangesHere
  <2>9. (IssuesLeft' <=> IssuesLeft) /\ (ChangesLeft' <=> ChangesLeft)
    BY <2>1, <2>3, <2>4, <2>5, <2>8 DEF IssuesLeft, ChangesLeft
  <2>10. Tells
    BY <2>1, <2>4, <2>9 DEF Tells
  <2>11. Telling'
    <3>1. CASE stage # "start"
      BY <1>1, <2>1, <2>10, <3>1, KeepsTelling DEF Firm
    <3>2. CASE stage = "start"
      <4>1. PICK m : m = MatchedNow
        OBVIOUS
      <4>2. MatchedNow' = m
        BY <2>1, <4>1, MatchedAlike
      <4>3. Verdict(m)' = Verdict(m)
        BY <2>1, AlikeOf DEF Verdict, Outcome
      <4> QED
        BY <1>1, <2>1, <3>2, <4>1, <4>2, <4>3 DEF Firm, Telling
    <3> QED
      BY <3>1, <3>2
  <2>12. Placed' /\ (stage' # "start" => Here')
    BY <1>1, <2>1, <2>2 DEF Firm, Placed, Here
  <2> QED
    BY <1>1, <2>1, <2>11, <2>12 DEF Firm
<1> QED
  BY <1>1, <1>2, <1>3, StartTells, TagTells, LansTell, DeviceTells, IdentityTells, BridgeTells,
     IpTells, RadiosTell, NextTells, WriteTells DEF Next

(* Each step keeps what the plan foretold.                                 *)
LEMMA NextForetells ==
  ASSUME IInv, IInv', Matched, FInv, [Next]_vars
  PROVE  FInv'
<1>1. faults' \in Nat
  BY DEF FInv, Next, vars, StartRun, QueryWlcs, SyncTag, SyncLans, StartDevice, SyncIdentity,
         SyncBridge, SyncIp, SyncRadios, NextDevice, WriteOk, WriteFails, TagFails, EndRun
<1>2. PlanThenApply' => Firm'
  BY NextFirm DEF FInv
<1>3. PlanForetells'
  <2>1. CASE EndRun
    <3> SUFFICES ASSUME /\ Len(ended') = 2 /\ faults' = 0
                        /\ ~modes'[1].apply /\ modes'[2].apply
                        /\ modes'[1].cables = modes'[2].cables
                        /\ \A i, j \in DOMAIN report' : i # j => report'[i].ip # report'[j].ip
                 PROVE  ended'[2] = AfterPlan[ended'[1]]
      BY DEF PlanForetells
    <3>1. UNCHANGED <<report, modes, faults>> /\ ended' = Append(ended, Status)
      BY <2>1 DEF EndRun
    <3>2. Len(ended) = 1
      <4>1. PICK n : n = Len(ended)
        OBVIOUS
      <4>2. n \in Nat /\ Len(ended') = n + 1
        BY <3>1, <4>1, StatusIs DEF IInv, Located
      <4>3. 2 = n + 1
        BY <4>2
      <4> QED
        BY <4>1, <4>2, <4>3
    <3>3. PlanThenApply
      BY <3>1, <3>2 DEF PlanThenApply
    <3>4. ended # <<>>
      BY <3>2
    <3> QED
      BY <2>1, <3>3, <3>4, ApplyEnds DEF FInv
  <2>2. CASE TagFails
    <3>1. faults' # 0
      BY <2>2 DEF TagFails, FInv
    <3> QED
      BY <3>1 DEF PlanForetells
  <2>3. CASE WriteOk \/ WriteFails
    <3>1. stage # "start"
      BY <2>3, HeadIs, OpsOf DEF IInv, Located, WriteOk, WriteFails
    <3>2. stage' # "start"
      BY <2>3, <3>1 DEF WriteOk, WriteFails
    <3> QED
      BY <3>2 DEF PlanForetells
  <2>4. CASE UNCHANGED vars
    BY <2>4 DEF vars, FInv, PlanForetells
  <2>5. CASE StartRun \/ SyncTag \/ SyncLans \/ StartDevice \/ SyncIdentity \/ SyncBridge
             \/ SyncIp \/ SyncRadios \/ NextDevice
    <3>1. stage' # "start"
      BY <2>5 DEF Enqueue, StartRun, SyncTag, SyncLans, StartDevice, SyncIdentity, SyncBridge, SyncIp,
                  SyncRadios, NextDevice
    <3> QED
      BY <3>1 DEF PlanForetells
  <2> QED
    BY <2>1, <2>2, <2>3, <2>4, <2>5 DEF Next
<1> QED
  BY <1>1, <1>2, <1>3 DEF FInv

(* An apply that follows a plan comes to what the plan told, for whatever  *)
(* is reported and recorded, when nothing goes wrong in either, the cables *)
(* come to the same in both (sync.py:906-916), and no two devices report   *)
(* one address or are one device of NetBox.                                *)
THEOREM PlanComesTrue == ASSUME OnePerDevice PROVE Spec => []PlanForetells
<1>1. Init => FInv
  <2> SUFFICES ASSUME Init PROVE FInv
    OBVIOUS
  <2>1. stage = "start" /\ ended = <<>> /\ faults = 0 /\ ~faulty
    BY DEF Init
  <2>2. Placed
    <3>1. PICK nb \in NetBoxes : devices = nb.devices /\ addresses = nb.addresses
      BY DEF Init
    <3> QED
      BY <3>1, NetBoxesAssumption DEF Placed
  <2>3. PlanForetells
    BY <2>1 DEF PlanForetells
  <2> QED
    BY <2>1, <2>2, <2>3 DEF FInv, Firm, Telling
<1>2. Init => IInv /\ Matched
  BY InitIInv, InitMatched
<1>3. IInv /\ [Next]_vars => IInv'
  BY NextLocated, NextQueued, NextRecorded, NextStunting, NextExcused, NextResumes DEF IInv
<1>4. IInv /\ Matched /\ [Next]_vars => Matched'
  BY NextMatched
<1>5. IInv /\ Matched /\ FInv /\ [Next]_vars => FInv'
  BY <1>3, NextForetells
<1>6. FInv => PlanForetells
  BY DEF FInv
<1> QED
  BY <1>1, <1>2, <1>3, <1>4, <1>5, <1>6, PTL DEF Spec
=============================================================================
