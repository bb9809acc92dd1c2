----------------------- MODULE DeviceTypeImportProofs -----------------------
(***************************************************************************)
(* Theorems about DeviceTypeImport: whatever folder is imported, however   *)
(* often, and whichever requests fail or lose their answer, a green run    *)
(* leaves nothing out, a failure stays in its file, references stay within *)
(* their device type, and undisturbed runs make what was planned.          *)
(***************************************************************************)
EXTENDS DeviceTypeImport, WellFoundedInduction, TLAPS

Statuses == {"ok", "drift", "changed", "partial", "error", "skipped"}
Busy == pc \in {"manufacturer", "type", "templates"}

\* How far a run is, by its results.
Counted ==
    /\ folder \in Folders /\ apply \in BOOLEAN /\ run \in Nat
    /\ DOMAIN notes = {"changes", "blocked", "failures"}
    /\ results \in Seq(Statuses)
    /\ pc = "next" => Len(results) = at
    /\ Busy => at # 0 /\ Len(results) = at - 1
    /\ pc = "idle" => Len(results) <= at
    /\ run = 0 => pc = "idle"

\* No file with the slug of one before it is imported.
Alone(i) == \A j \in 1 .. (i - 1) : Loads(folder[j]) => folder[j].slug # folder[i].slug
Slugs ==
    /\ Busy => Importable(File) /\ Alone(at)
    /\ \A i \in Ran : Alone(i)

\* The files that a run is to import, and does not skip.
Candidate(i) == Importable(folder[i]) /\ Alone(i)
Skipping == \A i \in DOMAIN results : results[i] = "skipped" => ~Candidate(i)

\* A run under way has come across no file that does not decode.
Decoded == pc # "idle" => \A i \in 1 .. at : folder[i].text

Triple(id) == id = <<id[1], id[2], id[3]>>
Recorded ==
    /\ DOMAIN nb = {"manufacturers", "types", "templates"}
    /\ \A t \in nb.templates : Triple(t.id)

\* What is known of a type's templates is in NetBox, and is all of them
\* but those whose request failed.
Names ==
    pc = "templates" =>
        /\ \A id \in names : id \in Ids /\ id[1] = File.slug
        /\ \A id \in Ids : id[1] = File.slug => id \in names \cup lost

\* The items looked at come before those still to look at.
Ordered ==
    pc = "templates" =>
        /\ todo \subseteq DOMAIN File.items
        /\ \A i \in DOMAIN File.items \ todo, j \in todo : Sooner(i, j)

\* What an apply has dealt with is in NetBox as far as it could be.
Kept ==
    /\ pc = "templates" /\ apply =>
          /\ File.slug \in nb.types
          /\ \A i \in DOMAIN File.items \ todo : Settled(File.slug, File.items[i])
    /\ apply => \A i \in Ran \ hit :
                    /\ folder[i].manufacturer \in nb.manufacturers
                    /\ folder[i].slug \in nb.types
                    /\ \A k \in DOMAIN folder[i].items :
                          Settled(folder[i].slug, folder[i].items[k])

\* What a plan found missing shows: in a result, or in the notes of the file.
Open == \E i \in DOMAIN results : results[i] \in {"drift", "partial"}
Noticed == ~apply /\ notes.changes # {}
Missing == notes.blocked \cup notes.failures \cup (IF apply THEN {} ELSE notes.changes)
Shown ==
    /\ ~apply /\ pc # "idle" =>
          \A m \in planned : \/ m \in nb.manufacturers \/ Open
                             \/ pc \in {"type", "templates"} /\ Noticed
    /\ pc \in {"type", "templates"} =>
          File.manufacturer \in nb.manufacturers \/ (~apply /\ Open) \/ Noticed
    /\ pc = "templates" =>
          /\ File.slug \in nb.types \/ Noticed
          /\ \A i \in DOMAIN File.items \ todo :
                IdOf(File.slug, File.items[i]) \in Ids \/ Entry(at, i) \in Missing

\* A file that is done and clean is in NetBox.
Clean ==
    /\ \A i \in DOMAIN results : /\ results[i] = "drift" => ~apply
                                 /\ results[i] = "changed" => apply
    /\ \A i \in DOMAIN results : results[i] \in {"ok", "changed"} =>
          /\ Importable(folder[i]) /\ folder[i].slug \in nb.types
          /\ \A k \in DOMAIN folder[i].items :
                IdOf(folder[i].slug, folder[i].items[k]) \in Ids
          /\ folder[i].manufacturer \in nb.manufacturers \/ (~apply /\ Open)

Ended ==
    pc = "idle" /\ run # 0 =>
        /\ last.apply = apply
        /\ last.status # "error" =>
              Len(results) = Len(folder) /\ last.status = FolderStatus
        /\ \/ Len(results) = Len(folder)
           \/ Len(results) < Len(folder) /\ ~Reached(Len(results) + 1)

IInv == TypeOK /\ Counted /\ Slugs /\ Skipping /\ Decoded /\ Recorded /\ RefsAreOwn /\ Names /\ Ordered
        /\ Kept /\ Shown /\ Clean /\ Ended

-----------------------------------------------------------------------------
(* A set of numbers with a member has a smallest one.                      *)
LEMMA LeastNumber ==
  ASSUME NEW S \in SUBSET Nat, S # {}
  PROVE  \E x \in S : \A y \in S : x <= y
<1> DEFINE Less == {ss \in Nat \X Nat : ss[1] < ss[2]}
<1>1. IsWellFoundedOn(Less, Nat)
  BY NatLessThanWellFounded DEF OpToRel
<1>2. \A x, y \in Nat : y < x => <<y, x>> \in Less
  OBVIOUS
<1> HIDE DEF Less
<1>3. PICK x \in S : \A y \in S : <<y, x>> \notin Less
  BY <1>1, WFMin
<1>4. ASSUME NEW y \in S PROVE x <= y
  <2>1. x \in Nat /\ y \in Nat
    OBVIOUS
  <2>2. ~(y < x)
    BY <1>2, <1>3, <2>1
  <2> QED
    BY <2>1, <2>2
<1> QED
  BY <1>4

(* A category has a place in the order, and refers to an earlier one.      *)
LEMMA Ranks ==
  /\ \A cat \in Range(Categories) : Rank(cat) \in Nat /\ Categories[Rank(cat)] = cat
  /\ \A cat \in {"power-outlets", "front-ports"} : Rank(RefCategory(cat)) < Rank(cat)
<1>1. ASSUME NEW cat \in Range(Categories)
      PROVE  Rank(cat) \in DOMAIN Categories /\ Categories[Rank(cat)] = cat
  BY DEF Range, Rank
<1>2. DOMAIN Categories = 1 .. 9
  BY DEF Categories
<1>3. Rank("power-ports") = 3 /\ Rank("power-outlets") = 4
  BY <1>2 DEF Rank, Categories
<1>4. Rank("rear-ports") = 5 /\ Rank("front-ports") = 6
  BY <1>2 DEF Rank, Categories
<1> QED
  BY <1>1, <1>2, <1>3, <1>4 DEF RefCategory

(* What the loader lets through.                                           *)
LEMMA Numbered ==
  ASSUME NEW R, NEW s \in Seq(R)
  PROVE  DOMAIN s = 1 .. Len(s) /\ Len(s) \in Nat
OBVIOUS

(* The files of a folder are numbered from 1.                              *)
LEMMA Folder ==
  ASSUME Counted
  PROVE  Len(folder) \in Nat /\ DOMAIN folder = 1 .. Len(folder)
BY FoldersAssumption, Numbered DEF Counted

(* Of a file the import reads only the nine categories, and only power     *)
(* outlets and front ports refer to another template.                      *)
LEMMA Files ==
  ASSUME Counted, NEW i \in 1 .. Len(folder)
  PROVE  /\ DOMAIN folder[i].items \subseteq Nat
         /\ \A k \in DOMAIN folder[i].items :
              /\ folder[i].items[k].cat \in Range(Categories)
              /\ folder[i].items[k].ref # "" =>
                   folder[i].items[k].cat \in {"power-outlets", "front-ports"}
<1>1. folder[i] \in Range(folder)
  BY Folder DEF Range
<1>2. /\ folder[i].items \in Seq(Range(folder[i].items))
      /\ \A item \in Range(folder[i].items) :
            /\ item.cat \in Range(Categories)
            /\ item.ref # "" => item.cat \in {"power-outlets", "front-ports"}
  BY <1>1, FoldersAssumption DEF Counted
<1>3. DOMAIN folder[i].items \subseteq Nat
  <2>1. DOMAIN folder[i].items = 1 .. Len(folder[i].items)
    BY <1>2, Numbered
  <2> QED
    BY <2>1
<1>4. ASSUME NEW k \in DOMAIN folder[i].items
      PROVE  folder[i].items[k] \in Range(folder[i].items)
  BY DEF Range
<1> QED
  BY <1>2, <1>3, <1>4

(* The next item is one of those left, and the first of them.              *)
LEMMA TheFirst ==
  ASSUME TypeOK, Counted, Ordered, pc = "templates", todo # {}
  PROVE  /\ NextItem \in todo
         /\ \A j \in todo \ {NextItem} : Sooner(NextItem, j)
<1> DEFINE Of(k) == Rank(File.items[k].cat)
<1>1. at \in 1 .. Len(folder)
  BY Folder DEF TypeOK, Counted, Busy
<1>2. \A k \in todo : k \in Nat /\ Of(k) \in Nat
  BY <1>1, Files, Ranks DEF Ordered, File
<1> HIDE DEF Of
<1>3. PICK r \in {Of(k) : k \in todo} : \A s \in {Of(k) : k \in todo} : r <= s
  BY <1>2, LeastNumber
<1>4. PICK i \in {k \in todo : Of(k) = r} : \A k \in {h \in todo : Of(h) = r} : i <= k
  <2>1. {k \in todo : Of(k) = r} \in SUBSET Nat /\ {k \in todo : Of(k) = r} # {}
    BY <1>2, <1>3
  <2> QED
    BY <2>1, LeastNumber
<1>5. \A j \in todo \ {i} : Of(i) < Of(j) \/ (Of(i) = Of(j) /\ i < j)
  <2> SUFFICES ASSUME NEW j \in todo \ {i}
               PROVE  Of(i) < Of(j) \/ (Of(i) = Of(j) /\ i < j)
    OBVIOUS
  <2>1. Of(i) <= Of(j) /\ (Of(i) = Of(j) => i <= j)
    BY <1>3, <1>4
  <2> QED
    BY <1>2, <2>1
<1>6. \A j \in todo \ {i} : Sooner(i, j)
  BY <1>5 DEF Sooner, Of
<1> QED
  BY <1>6 DEF NextItem

-----------------------------------------------------------------------------
(* The program starts in the invariant.                                    *)
LEMMA InitIInv == Init => IInv
<1> SUFFICES ASSUME Init PROVE IInv
  OBVIOUS
<1> USE DEF Init
<1>1. folder \in Seq(Range(folder)) /\ Len(folder) \in Nat
  BY FoldersAssumption, Numbered
<1>2. results \in Seq(Statuses) /\ Len(results) = 0 /\ Range(results) = {}
  BY DEF Range
<1>2a. TypeOK
  BY <1>1, <1>2 DEF TypeOK
<1>2b. Counted
  <2>1. folder \in Folders /\ apply \in BOOLEAN /\ run \in Nat /\ pc = "idle" /\ at = 0
    OBVIOUS
  <2>2. DOMAIN notes = {"changes", "blocked", "failures"}
    BY DEF NoNotes
  <2> HIDE DEF Init
  <2> QED
    BY <1>2, <2>1, <2>2 DEF Counted, Busy
<1>3. Recorded /\ RefsAreOwn
  BY ContentsAssumption DEF Recorded, Triple, RefsAreOwn, Ids
<1>4. Slugs /\ Skipping /\ Decoded /\ Names /\ Ordered /\ Kept /\ Shown /\ Clean /\ Ended
  BY DEF Slugs, Skipping, Decoded, Busy, Ran, Names, Ordered, Kept, Shown, Clean, Ended
<1> QED
  BY <1>2a, <1>2b, <1>3, <1>4 DEF IInv

(* The type, and the count of the files, in every step.                    *)
LEMMA NextCounted == TypeOK /\ Counted /\ [Next]_vars => TypeOK' /\ Counted'
<1> SUFFICES ASSUME TypeOK, Counted, [Next]_vars PROVE TypeOK' /\ Counted'
  OBVIOUS
<1> USE Folder DEF Run
<1>0. \A f : f \in Statuses =>
         /\ Append(results, f) \in Seq(Statuses)
         /\ Len(Append(results, f)) = Len(results) + 1
         /\ Len(results) \in Nat
  BY DEF Counted
<1>1. ASSUME NEW r \in Seq(Statuses) PROVE \A x \in Range(r) : x \in Statuses
  BY Numbered DEF Range
<1>2. ASSUME Counted', at' \in 0 .. Len(folder'), hit' \subseteq 1 .. Len(folder'),
             unread' \in 0 .. Len(folder'),
             pc' \in {"idle", "next", "manufacturer", "type", "templates"}
      PROVE  TypeOK' /\ Counted'
  BY <1>1, <1>2 DEF TypeOK, Counted, Statuses
<1>3. CASE StartRun
  BY <1>2, <1>3 DEF StartRun, TypeOK, Counted, Busy
<1>4. CASE NextFile
  <2>1. /\ pc = "next" /\ at < Len(folder) /\ at' = at + 1 /\ folder' = folder /\ apply' = apply
        /\ run' = run /\ hit' = hit /\ unread' = unread
    BY <1>4 DEF NextFile
  <2>2. \/ results' = results /\ notes' = NoNotes /\ pc' = "manufacturer"
        \/ /\ \E s \in Statuses : results' = Append(results, s)
           /\ pc' = pc /\ notes' = notes
    BY <1>4, Zenon DEF NextFile, Statuses
  <2>3. /\ at \in Nat /\ Len(folder) \in Nat /\ hit \subseteq 1 .. Len(folder)
        /\ unread \in 0 .. Len(folder) /\ Len(results) = at
    BY <2>1 DEF TypeOK, Counted
  <2>4. CASE results' = results /\ notes' = NoNotes /\ pc' = "manufacturer"
    <3>1. Counted'
      BY <2>1, <2>3, <2>4 DEF Counted, Busy, NoNotes
    <3> QED
      BY <1>2, <2>1, <2>3, <2>4, <3>1
  <2>5. CASE \E s \in Statuses : results' = Append(results, s) /\ pc' = pc /\ notes' = notes
    <3>1. results' \in Seq(Statuses) /\ Len(results') = Len(results) + 1
      BY <1>0, <2>5
    <3>2. Counted'
      BY <2>1, <2>3, <2>5, <3>1 DEF Counted, Busy
    <3> QED
      BY <1>2, <2>1, <2>3, <2>5, <3>2
  <2> QED
    BY <2>2, <2>4, <2>5
<1>5. CASE Manufacturer \/ DeviceType
  BY <1>2, <1>5 DEF Manufacturer, DeviceType, TypeOK, Counted, Busy
<1>6. CASE FileFails
  BY <1>0, <1>2, <1>6 DEF FileFails, TypeOK, Counted, Busy, Statuses
<1>7. CASE KeepTemplate \/ BlockTemplate \/ PlanTemplate \/ CreateTemplate \/ TemplateFails
  BY <1>2, <1>7 DEF KeepTemplate, BlockTemplate, PlanTemplate, CreateTemplate, TemplateFails,
       AtTemplate, Noted, TypeOK, Counted, Busy
<1>8. CASE EndFile
  <2>1. FileStatus \in Statuses
    BY DEF FileStatus, Statuses
  <2> QED
    BY <1>0, <1>2, <1>8, <2>1 DEF EndFile, TypeOK, Counted, Busy
<1>9. CASE EndRun \/ DecodeFails \/ ReadFails
  <2>1. ReadFails => at \in 1 .. Len(folder) /\ Len(results) <= at
    BY <1>0 DEF ReadFails, TypeOK, Counted, Busy
  <2>2. Counted'
    BY <1>0, <1>9, <2>1 DEF EndRun, DecodeFails, ReadFails, TypeOK, Counted, Busy
  <2>3. /\ at' \in 0 .. Len(folder') /\ hit' \subseteq 1 .. Len(folder')
        /\ unread' \in 0 .. Len(folder')
    BY <1>9, <2>1 DEF EndRun, DecodeFails, ReadFails, TypeOK
  <2> QED
    BY <1>2, <1>9, <2>2, <2>3 DEF EndRun, DecodeFails, ReadFails
<1>10. CASE UNCHANGED vars
  BY <1>2, <1>10 DEF vars, TypeOK, Counted, Busy
<1> QED
  BY <1>3, <1>4, <1>5, <1>6, <1>7, <1>8, <1>9, <1>10 DEF Next

(* NetBox only grows, and by one template at a time: that of the item.     *)
LEMMA NextGrows ==
  ASSUME Counted, Recorded, [Next]_vars
  PROVE  /\ DOMAIN nb' = DOMAIN nb
         /\ nb.manufacturers \subseteq nb'.manufacturers
         /\ nb.types \subseteq nb'.types
         /\ nb.templates \subseteq nb'.templates
         /\ \A t \in nb'.templates : t \notin nb.templates =>
               /\ pc = "templates" /\ AtTemplate /\ ToCreate /\ t = Template(Item)
               /\ names' = names \cup {t.id} \/ t.id \in lost'
         /\ pc = "templates" => lost \subseteq lost'
<1> USE DEF Recorded
<1>1. CASE StartRun \/ NextFile \/ EndFile \/ EndRun \/ DecodeFails \/ ReadFails \/ UNCHANGED vars
  BY <1>1 DEF StartRun, NextFile, EndFile, EndRun, DecodeFails, ReadFails, vars
<1>2. CASE Manufacturer
  BY <1>2 DEF Manufacturer, WithManufacturer
<1>3. CASE DeviceType
  BY <1>3 DEF DeviceType, WithType
<1>4. CASE FileFails
  BY <1>4 DEF FileFails, WithManufacturer, WithType
<1>5. CASE KeepTemplate \/ BlockTemplate \/ PlanTemplate
  BY <1>5 DEF KeepTemplate, BlockTemplate, PlanTemplate
<1>6. CASE CreateTemplate
  <2>1. Template(Item).id = IdOf(File.slug, Item)
    BY DEF Template
  <2>2. pc = "templates" /\ AtTemplate
    BY <1>6 DEF CreateTemplate, AtTemplate
  <2> QED
    BY <1>6, <2>1, <2>2 DEF CreateTemplate
<1>7. CASE TemplateFails
  <2>1. Template(Item).id = IdOf(File.slug, Item)
    BY DEF Template
  <2> QED
    BY <1>7, <2>1 DEF TemplateFails, AtTemplate
<1> QED
  BY <1>1, <1>2, <1>3, <1>4, <1>5, <1>6, <1>7 DEF Next

(* NetBox's references stay whole, and no template ever goes away.         *)
LEMMA NextRecorded ==
  ASSUME Counted, Recorded, Names, RefsAreOwn, [Next]_vars
  PROVE  Recorded' /\ RefsAreOwn' /\ Ids \subseteq Ids'
<1>1. ASSUME NEW t \in nb'.templates, t \notin nb.templates
      PROVE  Triple(t.id) /\ (t.ref # NoRef => t.ref \in Ids /\ t.ref[1] = t.id[1])
  <2>1. pc = "templates" /\ RefMade(Item) /\ t = Template(Item)
    BY <1>1, NextGrows DEF ToCreate
  <2>2. t.id = <<File.slug, Item.cat, Item.name>>
    BY <2>1 DEF Template, IdOf
  <2>3. ASSUME Item.ref # ""
        PROVE  t.ref \in names
    BY <2>1, <2>3 DEF Template, RefMade, Named
  <2>4. t.ref # NoRef => Item.ref # ""
    BY <2>1 DEF Template
  <2>5. t.id[1] = File.slug /\ Triple(t.id)
    BY <2>2 DEF Triple
  <2>6. t.ref \in names => t.ref \in Ids /\ t.ref[1] = File.slug
    BY <2>1 DEF Names
  <2> QED
    BY <2>3, <2>4, <2>5, <2>6
<1>2. Ids \subseteq Ids'
  BY NextGrows DEF Ids
<1>3. Recorded'
  <2>1. \A t \in nb'.templates : Triple(t.id)
    BY <1>1 DEF Recorded
  <2> QED
    BY <2>1, NextGrows DEF Recorded, Triple
<1>4. ASSUME NEW t \in nb'.templates, t.ref # NoRef
      PROVE  t.ref \in Ids' /\ t.ref[1] = t.id[1]
  BY <1>1, <1>2, <1>4 DEF RefsAreOwn
<1> QED
  BY <1>2, <1>3, <1>4 DEF RefsAreOwn

-----------------------------------------------------------------------------
(* The steps, by what they leave alone.                                    *)
TemplateStep ==
    \/ KeepTemplate \/ BlockTemplate \/ PlanTemplate \/ CreateTemplate \/ TemplateFails

(* A step at a template disposes of that one item and of nothing else of   *)
(* the file.                                                               *)
LEMMA AtATemplate ==
  ASSUME TypeOK, Counted, Ordered, TemplateStep
  PROVE  /\ pc = "templates" /\ pc' = pc /\ todo # {} /\ todo' = todo \ {NextItem}
         /\ folder' = folder /\ at' = at /\ apply' = apply /\ results' = results
         /\ planned' = planned /\ last' = last /\ run' = run
         /\ hit' = hit /\ lost \subseteq lost' /\ File' = File
         /\ NextItem \in todo /\ NextItem \in DOMAIN File.items
         /\ Item = File.items[NextItem]
<1>1. AtTemplate
  BY DEF TemplateStep, KeepTemplate, BlockTemplate, PlanTemplate, CreateTemplate, TemplateFails
<1>2. hit' = hit /\ lost \subseteq lost'
  BY DEF TemplateStep, KeepTemplate, BlockTemplate, PlanTemplate, CreateTemplate, TemplateFails
<1>3. NextItem \in todo
  BY <1>1, TheFirst DEF AtTemplate
<1> QED
  BY <1>1, <1>2, <1>3 DEF AtTemplate, Run, File, Item, Ordered

(* When a file is through, its status is the next in the list and the      *)
(* earlier ones stay.                                                      *)
LEMMA Appended ==
  ASSUME Counted, NEW s \in Statuses, results' = Append(results, s), folder' = folder,
         NEW k, k = Len(results) + 1
  PROVE  /\ k \in Nat /\ DOMAIN results = 1 .. (k - 1) /\ DOMAIN results' = 1 .. k
         /\ \A i \in 1 .. (k - 1) : results'[i] = results[i]
         /\ results'[k] = s
         /\ Ran \subseteq Ran' /\ Ran' \subseteq Ran \cup {k}
         /\ k \in Ran' => Importable(folder[k]) /\ s # "skipped"
<1>1. DOMAIN results = 1 .. (k - 1) /\ k \in Nat
  BY Numbered DEF Counted
<1>2. DOMAIN results' = 1 .. k
  BY <1>1 DEF Counted
<1>3. results'[k] = s /\ \A i \in 1 .. (k - 1) : results'[i] = results[i]
  BY <1>1, <1>2 DEF Counted
<1>4. Ran' = {i \in 1 .. k : Importable(folder[i]) /\ results'[i] # "skipped"}
  BY <1>2 DEF Ran
<1>5. Ran = {i \in 1 .. (k - 1) : Importable(folder[i]) /\ results[i] # "skipped"}
  BY <1>1 DEF Ran
<1>6. Ran \subseteq Ran' /\ Ran' \subseteq Ran \cup {k}
  <2> HIDE DEF Ran
  <2> QED
    BY <1>1, <1>3, <1>4, <1>5
<1> QED
  BY <1>1, <1>2, <1>3, <1>4, <1>6

(* Each slug counts as seen from the file on that brought it.              *)
LEMMA NextSlugs ==
  ASSUME TypeOK, Counted, Ordered, Slugs, [Next]_vars
  PROVE  Slugs'
<1> USE DEF Run
<1>1. ASSUME folder' = folder, results' = results, at' = at, Busy' => Busy
      PROVE  Slugs'
  BY <1>1 DEF Slugs, Alone, Importable, Loads, Ran, File
<1>2. CASE StartRun
  BY <1>2 DEF StartRun, Slugs, Busy, Ran
<1>3. CASE NextFile
  <2>1. folder' = folder /\ at' = at + 1 /\ at = Len(results) /\ at \in Nat
    BY <1>3, Folder DEF NextFile, Counted, TypeOK
  <2>2. CASE pc' = "manufacturer"
    <3>1. Importable(File') /\ Alone(at')
      BY <1>3, <2>1, <2>2 DEF NextFile, Claimed, Alone, File
    <3>2. results' = results
      BY <1>3, <2>2 DEF NextFile
    <3> QED
      BY <2>1, <3>1, <3>2 DEF Slugs, Alone, Importable, Loads, Ran, File
  <2>3. CASE pc' # "manufacturer"
    <3>1. PICK s \in Statuses : /\ results' = Append(results, s)
                                /\ Importable(folder[at + 1]) => s = "skipped"
      BY <1>3, <2>3 DEF NextFile, Importable, Claimed, Statuses
    <3>2. Ran' = Ran
      <4>1. PICK k : k = Len(results) + 1
        OBVIOUS
      <4>2. /\ Ran \subseteq Ran' /\ Ran' \subseteq Ran \cup {k}
            /\ k \in Ran' => Importable(folder[k]) /\ s # "skipped"
        BY <2>1, <3>1, <4>1, Appended
      <4>3. k = at + 1
        BY <2>1, <4>1
      <4> QED
        BY <3>1, <4>2, <4>3
    <3>3. ~Busy'
      BY <1>3, <2>3 DEF NextFile, Busy
    <3> QED
      BY <2>1, <3>2, <3>3 DEF Slugs, Alone, Importable, Loads
  <2> QED
    BY <2>2, <2>3
<1>4. CASE Manufacturer \/ DeviceType
  BY <1>1, <1>4 DEF Manufacturer, DeviceType, Busy
<1>5. ASSUME FileFails \/ EndFile PROVE Slugs'
  <2>1. folder' = folder /\ pc' = "next" /\ at = Len(results) + 1 /\ Busy
    BY <1>5, Folder, Numbered DEF FileFails, EndFile, Busy, Counted, TypeOK
  <2>2. PICK s \in Statuses : results' = Append(results, s)
    BY <1>5 DEF FileFails, EndFile, FileStatus, Statuses
  <2>3. Ran' \subseteq Ran \cup {at}
    BY <2>1, <2>2, Appended
  <2> QED
    BY <2>1, <2>3 DEF Slugs, Busy, Alone, Importable, Loads
<1>6. CASE TemplateStep
  BY <1>1, <1>6, AtATemplate DEF Busy
<1>7. CASE EndRun \/ DecodeFails \/ ReadFails
  BY <1>1, <1>7 DEF EndRun, DecodeFails, ReadFails, Busy
<1>8. CASE UNCHANGED vars
  BY <1>1, <1>8 DEF vars, Busy
<1> QED
  BY <1>2, <1>3, <1>4, <1>5, <1>6, <1>7, <1>8 DEF Next, TemplateStep

(* Only files that bring a slug again are skipped.                         *)
LEMMA NextSkipping ==
  ASSUME TypeOK, Counted, Ordered, Skipping, [Next]_vars
  PROVE  Skipping'
<1> USE DEF Run
<1>1. ASSUME folder' = folder, results' = results PROVE Skipping'
  BY <1>1 DEF Skipping, Candidate, Alone, Importable, Loads
<1>2. ASSUME folder' = folder, NEW s \in Statuses, results' = Append(results, s),
             NEW k, k = Len(results) + 1, s = "skipped" => ~Candidate(k)
      PROVE  Skipping'
  <2>1. /\ k \in Nat /\ DOMAIN results = 1 .. (k - 1) /\ DOMAIN results' = 1 .. k
        /\ \A i \in 1 .. (k - 1) : results'[i] = results[i]
        /\ results'[k] = s
    BY <1>2, Appended
  <2>2. \A i \in 1 .. k : i = k \/ i \in 1 .. (k - 1)
    BY <2>1
  <2>3. \A i : Candidate(i)' <=> Candidate(i)
    BY <1>2 DEF Candidate, Alone, Importable, Loads
  <2>4. ASSUME NEW i \in DOMAIN results', results'[i] = "skipped" PROVE ~Candidate(i)
    <3>1. CASE i = k
      BY <1>2, <2>1, <2>4, <3>1
    <3>2. CASE i \in 1 .. (k - 1)
      BY <2>1, <2>4, <3>2 DEF Skipping
    <3> QED
      BY <2>1, <2>2, <2>4, <3>1, <3>2
  <2> QED
    BY <2>3, <2>4 DEF Skipping
<1>3. CASE StartRun
  BY <1>3 DEF StartRun, Skipping
<1>4. CASE NextFile
  <2>1. folder' = folder /\ at \in Nat /\ Len(results) = at
    BY <1>4, Folder DEF NextFile, Counted, TypeOK
  <2>2. PICK k : k = Len(results) + 1
    OBVIOUS
  <2>3. k = at + 1 /\ k - 1 = at
    BY <2>1, <2>2
  <2>4. \/ results' = results
        \/ \E s \in Statuses : results' = Append(results, s) /\ (s = "skipped" => ~Candidate(k))
    BY <1>4, <2>3 DEF NextFile, Statuses, Claimed, Candidate, Alone, Importable
  <2> QED
    BY <1>1, <1>2, <2>1, <2>2, <2>4
<1>5. CASE EndFile
  <2>1. FileStatus \in Statuses /\ FileStatus # "skipped"
    BY DEF FileStatus, Statuses
  <2>2. folder' = folder /\ results' = Append(results, FileStatus)
    BY <1>5 DEF EndFile
  <2> QED
    BY <1>2, <2>1, <2>2
<1>6. CASE TemplateStep
  BY <1>1, <1>6, AtATemplate
<1>7. CASE Manufacturer \/ DeviceType \/ EndRun \/ DecodeFails \/ ReadFails \/ UNCHANGED vars
  BY <1>1, <1>7 DEF Manufacturer, DeviceType, EndRun, DecodeFails, ReadFails, vars
<1>8. CASE FileFails
  BY <1>2, <1>8 DEF FileFails, Statuses
<1> QED
  BY <1>3, <1>4, <1>5, <1>6, <1>7, <1>8 DEF Next, TemplateStep

(* A run goes on only past files that decode.                              *)
LEMMA NextDecoded ==
  ASSUME TypeOK, Counted, Ordered, Decoded, [Next]_vars
  PROVE  Decoded'
<1> USE DEF Run
<1>1. CASE StartRun \/ EndRun \/ DecodeFails \/ ReadFails
  BY <1>1 DEF StartRun, EndRun, DecodeFails, ReadFails, Decoded
<1>2. CASE NextFile
  <2>1. at \in Nat /\ pc = "next" /\ at' = at + 1 /\ folder' = folder /\ folder[at + 1].text
    BY <1>2, Folder DEF NextFile, TypeOK
  <2>2. \A i \in 1 .. at' : i = at + 1 \/ i \in 1 .. at
    BY <2>1
  <2> QED
    BY <2>1, <2>2 DEF Decoded
<1>3. ASSUME folder' = folder, at' = at, pc # "idle" PROVE Decoded'
  BY <1>3 DEF Decoded
<1>4. CASE Manufacturer \/ DeviceType \/ FileFails \/ EndFile
  BY <1>3, <1>4 DEF Manufacturer, DeviceType, FileFails, EndFile
<1>5. CASE TemplateStep
  BY <1>3, <1>5, AtATemplate
<1>6. CASE UNCHANGED vars
  BY <1>6 DEF vars, Decoded
<1> QED
  BY <1>1, <1>2, <1>4, <1>5, <1>6 DEF Next, TemplateStep

(* The items still to do are those that come later in the order of the     *)
(* categories.                                                             *)
LEMMA NextOrdered ==
  ASSUME TypeOK, Counted, Ordered, [Next]_vars
  PROVE  Ordered'
<1> USE DEF Run
<1>1. CASE DeviceType
  BY <1>1 DEF DeviceType, Ordered, Templates, File
<1>2. CASE TemplateStep
  <2>1. \A j \in todo \ {NextItem} : Sooner(NextItem, j)
    BY <1>2, AtATemplate, TheFirst
  <2>2. \A i, j : Sooner(i, j)' = Sooner(i, j)
    BY <1>2, AtATemplate DEF Sooner
  <2> QED
    BY <1>2, <2>1, <2>2, AtATemplate DEF Ordered
<1>3. CASE UNCHANGED vars
  BY <1>3 DEF vars, Ordered, Sooner, File
<1>4. ASSUME pc' # "templates" PROVE Ordered'
  BY <1>4 DEF Ordered
<1>5. CASE StartRun \/ NextFile \/ Manufacturer \/ FileFails \/ EndFile \/ EndRun \/ DecodeFails \/ ReadFails
  BY <1>4, <1>5 DEF StartRun, NextFile, Manufacturer, FileFails, EndFile, EndRun, DecodeFails, ReadFails
<1> QED
  BY <1>1, <1>2, <1>3, <1>5 DEF Next, TemplateStep

(* What is known of the type stays what NetBox has of it.                  *)
LEMMA NextNames ==
  ASSUME TypeOK, Counted, Ordered, Recorded, RefsAreOwn, Names, [Next]_vars
  PROVE  Names'
<1> USE DEF Run
<1>1. CASE DeviceType
  <2>1. nb'.templates = nb.templates
    BY <1>1 DEF DeviceType, WithType, Recorded
  <2> QED
    BY <1>1, <2>1 DEF DeviceType, Names, Existing, Ids, File
<1>2. CASE TemplateStep
  <2>1. names' = names \/ (CreateTemplate /\ names' = names \cup {IdOf(File.slug, Item)})
    BY <1>2 DEF TemplateStep, KeepTemplate, BlockTemplate, PlanTemplate, CreateTemplate, TemplateFails
  <2>2. CreateTemplate => IdOf(File.slug, Item) \in Ids'
    <3> SUFFICES ASSUME CreateTemplate PROVE IdOf(File.slug, Item) \in Ids'
      OBVIOUS
    <3>1. Template(Item) \in nb'.templates
      BY DEF CreateTemplate, Recorded
    <3>2. Template(Item).id = IdOf(File.slug, Item)
      BY DEF Template
    <3> QED
      BY <3>1, <3>2 DEF Ids
  <2>3. \A id \in names' : id \in Ids' /\ id[1] = File.slug
    BY <1>2, <2>1, <2>2, NextRecorded, AtATemplate DEF Names, IdOf
  <2>4. \A id \in Ids' : id \in Ids \/ id \in names' \cup lost'
    BY NextGrows DEF Ids
  <2>4a. lost \subseteq lost'
    BY <1>2, NextGrows, AtATemplate
  <2>5. names \subseteq names'
    BY <2>1
  <2> QED
    BY <1>2, <2>3, <2>4, <2>4a, <2>5, AtATemplate DEF Names
<1>3. CASE UNCHANGED vars
  BY <1>3 DEF vars, Names, Ids, File
<1>4. ASSUME pc' # "templates" PROVE Names'
  BY <1>4 DEF Names
<1>5. CASE StartRun \/ NextFile \/ Manufacturer \/ FileFails \/ EndFile \/ EndRun \/ DecodeFails \/ ReadFails
  BY <1>4, <1>5 DEF StartRun, NextFile, Manufacturer, FileFails, EndFile, EndRun, DecodeFails, ReadFails
<1> QED
  BY <1>1, <1>2, <1>3, <1>5 DEF Next, TemplateStep

-----------------------------------------------------------------------------
(* Only the template of the item becomes new in NetBox.                    *)
LEMMA NewIds ==
  ASSUME Counted, Recorded, Names, RefsAreOwn, [Next]_vars
  PROVE  /\ Ids \subseteq Ids'
         /\ \A id \in Ids' : id \in Ids \/ (pc = "templates" /\ id = IdOf(File.slug, Item))
<1>1. Ids \subseteq Ids'
  BY NextRecorded
<1>2. Template(Item).id = IdOf(File.slug, Item)
  BY DEF Template
<1>3. ASSUME NEW id \in Ids', id \notin Ids
      PROVE  pc = "templates" /\ id = IdOf(File.slug, Item)
  <2>1. PICK t \in nb'.templates : t.id = id
    BY DEF Ids
  <2>2. t \notin nb.templates
    BY <1>3, <2>1 DEF Ids
  <2> QED
    BY <1>2, <2>1, <2>2, NextGrows
<1> QED
  BY <1>1, <1>3

(* What the item comes to, in NetBox and in the notes of the file.         *)
LEMMA ItemSettled ==
  ASSUME TypeOK, Counted, Ordered, Recorded, RefsAreOwn, Names, TemplateStep,
         apply, NEW slug, slug = File.slug, NEW item, item = Item
  PROVE  Settled(slug, item)'
<1>1. pc = "templates" /\ File' = File /\ lost \subseteq lost'
  BY AtATemplate
<1>0. \/ IdOf(File.slug, Item) \in Ids' \cup lost'
      \/ /\ Item.ref # ""
         /\ RefOf(File.slug, Item) \notin Ids' \/ RefOf(File.slug, Item) \in lost'
  <2>1. CASE KeepTemplate
    <3>1. PICK id \in names : id[2] = Item.cat /\ id[3] = Item.name
      BY <2>1 DEF KeepTemplate, Known, Named
    <3>2. id \in Ids /\ id[1] = File.slug /\ Triple(id)
      BY <1>1, <3>1 DEF Names, Recorded, Ids
    <3>3. id = IdOf(File.slug, Item)
      BY <3>1, <3>2 DEF Triple, IdOf
    <3> QED
      BY <2>1, <3>2, <3>3 DEF KeepTemplate, Ids
  <2>2. CASE BlockTemplate
    <3>1. Item.ref # "" /\ Named(RefCategory(Item.cat), Item.ref) = {}
      BY <2>2 DEF BlockTemplate, RefKnown, RefMade
    <3>2. RefOf(File.slug, Item) = <<File.slug, RefCategory(Item.cat), Item.ref>>
      BY <3>1 DEF RefOf
    <3>3. RefOf(File.slug, Item) \notin names
      <4>1. /\ RefOf(File.slug, Item)[2] = RefCategory(Item.cat)
            /\ RefOf(File.slug, Item)[3] = Item.ref
        BY <3>2
      <4> QED
        BY <3>1, <4>1 DEF Named
    <3>4. RefOf(File.slug, Item) \notin Ids \/ RefOf(File.slug, Item) \in lost
      <4>1. RefOf(File.slug, Item)[1] = File.slug
        BY <3>2
      <4> QED
        BY <1>1, <3>3, <4>1 DEF Names
    <3> QED
      BY <1>1, <2>2, <3>1, <3>4 DEF BlockTemplate, Ids
  <2>3. CASE CreateTemplate
    <3>1. Template(Item) \in nb'.templates
      BY <2>3 DEF CreateTemplate, Recorded
    <3>2. Template(Item).id = IdOf(File.slug, Item)
      BY DEF Template
    <3> QED
      BY <3>1, <3>2 DEF Ids
  <2>4. CASE TemplateFails
    BY <2>4 DEF TemplateFails
  <2>5. ~PlanTemplate
    BY DEF PlanTemplate
  <2> QED
    BY <2>1, <2>2, <2>3, <2>4, <2>5 DEF TemplateStep
<1> QED
  BY <1>0 DEF Settled

(* A template that refers to another comes after it, so it stays settled.  *)
LEMMA StaysSettled ==
  ASSUME Counted, Recorded, Names, RefsAreOwn, [Next]_vars,
         lost \subseteq lost', NEW slug, NEW item, Settled(slug, item),
         ~(/\ pc = "templates" /\ item.ref # "" /\ RefCategory(item.cat) = Item.cat
           /\ slug = File.slug)
  PROVE  Settled(slug, item)'
<1>1. CASE IdOf(slug, item) \in Ids \cup lost
  BY <1>1, NewIds DEF Settled
<1>3. CASE item.ref # "" /\ RefOf(slug, item) \in lost
  BY <1>3 DEF Settled, RefOf
<1>2. CASE item.ref # "" /\ RefOf(slug, item) \notin Ids
  <2>1. RefOf(slug, item) = <<slug, RefCategory(item.cat), item.ref>>
    BY <1>2 DEF RefOf
  <2>2. RefOf(slug, item) = IdOf(File.slug, Item) =>
          slug = File.slug /\ RefCategory(item.cat) = Item.cat
    <3>1. IdOf(File.slug, Item)[1] = File.slug /\ IdOf(File.slug, Item)[2] = Item.cat
      BY DEF IdOf
    <3>2. RefOf(slug, item)[1] = slug /\ RefOf(slug, item)[2] = RefCategory(item.cat)
      <4>1. /\ <<slug, RefCategory(item.cat), item.ref>>[1] = slug
            /\ <<slug, RefCategory(item.cat), item.ref>>[2] = RefCategory(item.cat)
        OBVIOUS
      <4> QED
        BY <2>1, <4>1
    <3> QED
      BY <3>1, <3>2
  <2>3. RefOf(slug, item) \notin Ids'
    BY <1>2, <2>2, NewIds
  <2> QED
    BY <1>2, <2>3 DEF Settled
<1> QED
  BY <1>1, <1>2, <1>3 DEF Settled

(* The items of the file looked at stay settled, and so does the next.     *)
LEMMA FileKept ==
  ASSUME TypeOK, Counted, Ordered, Recorded, RefsAreOwn, Names, Kept, TemplateStep,
         [Next]_vars, apply
  PROVE  \A i \in DOMAIN File.items \ todo' : Settled(File.slug, File.items[i])'
<1> SUFFICES ASSUME NEW i \in DOMAIN File.items \ todo'
             PROVE  Settled(File.slug, File.items[i])'
  OBVIOUS
<1> USE AtATemplate
<1>0. pc = "templates" /\ lost \subseteq lost'
  BY AtATemplate
<1>1. at \in 1 .. Len(folder) /\ pc = "templates"
  BY <1>0, Folder DEF TypeOK, Counted, Busy
<1>2. PICK slug, item : slug = File.slug /\ item = File.items[i]
  OBVIOUS
<1>3. CASE i = NextItem
  BY <1>2, <1>3, ItemSettled
<1>4. CASE i # NextItem
  <2>1. i \in DOMAIN File.items /\ i \notin todo
    BY <1>4
  <2>2. Settled(slug, item)
    BY <1>1, <1>2, <2>1 DEF Kept
  <2>3. Sooner(i, NextItem)
    BY <1>1, <2>1 DEF Ordered
  <2>4. ASSUME item.ref # "", RefCategory(item.cat) = Item.cat
        PROVE  FALSE
    <3>1. /\ item.cat \in {"power-outlets", "front-ports"}
          /\ item.cat \in Range(Categories) /\ Item.cat \in Range(Categories)
      BY <1>1, <1>2, <2>1, <2>4, Files DEF File
    <3>2. Rank(Item.cat) < Rank(item.cat) /\ Rank(Item.cat) \in Nat /\ Rank(item.cat) \in Nat
      BY <2>4, <3>1, Ranks
    <3>3. Rank(item.cat) <= Rank(Item.cat)
      BY <1>2, <2>3, <3>2 DEF Sooner
    <3> QED
      BY <3>2, <3>3
  <2>5. Settled(slug, item)'
    BY <1>0, <2>2, <2>4, StaysSettled
  <2> QED
    BY <1>2, <2>5
<1> QED
  BY <1>3, <1>4

(* What an apply found in order or made of a file is still there when it   *)
(* ends.                                                                   *)
LEMMA NextKept ==
  ASSUME TypeOK, Counted, Slugs, Ordered, Recorded, RefsAreOwn, Names, Kept, Shown,
         [Next]_vars
  PROVE  Kept'
<1> USE DEF Run
<1> DEFINE Now == pc = "templates" /\ apply =>
                    /\ File.slug \in nb.types
                    /\ \A i \in DOMAIN File.items \ todo :
                          Settled(File.slug, File.items[i])
           Past(i) == /\ folder[i].manufacturer \in nb.manufacturers
                      /\ folder[i].slug \in nb.types
                      /\ \A k \in DOMAIN folder[i].items :
                            Settled(folder[i].slug, folder[i].items[k])
<1>1. ASSUME Now', apply' => \A i \in Ran' \ hit' : Past(i)' PROVE Kept'
  BY <1>1 DEF Kept
<1>2. ASSUME folder' = folder, apply, lost \subseteq lost', NEW i \in Ran, i \notin hit PROVE Past(i)'
  <2>1. Past(i)
    BY <1>2 DEF Kept
  <2>2. pc = "templates" => folder[i].slug # File.slug
    <3> SUFFICES ASSUME pc = "templates" PROVE folder[i].slug # File.slug
      OBVIOUS
    <3>1. i \in 1 .. (at - 1) /\ Importable(folder[i]) /\ Loads(folder[i])
      BY Numbered DEF Ran, Counted, Busy, Importable
    <3> QED
      BY <3>1 DEF Slugs, Busy, Alone, File
  <2>3. folder[i].slug \in nb'.types /\ folder[i].manufacturer \in nb'.manufacturers
    BY <2>1, NextGrows
  <2>4. ASSUME NEW k \in DOMAIN folder[i].items
        PROVE  Settled(folder[i].slug, folder[i].items[k])'
    <3>1. PICK slug, item : slug = folder[i].slug /\ item = folder[i].items[k]
      OBVIOUS
    <3>2. Settled(slug, item)'
      BY <1>2, <2>1, <2>2, <3>1, StaysSettled
    <3> QED
      BY <1>2, <3>1, <3>2
  <2> QED
    BY <1>2, <2>3, <2>4
<1> HIDE DEF Past
<1>3. CASE StartRun
  BY <1>1, <1>3 DEF StartRun, Ran
<1>4. ASSUME folder' = folder, apply' = apply, Ran' \ hit' \subseteq Ran \ hit, pc' # "templates",
             lost \subseteq lost'
      PROVE  Kept'
  BY <1>1, <1>2, <1>4
<1>5. CASE NextFile
  <2>1. folder' = folder /\ hit' = hit /\ apply' = apply /\ pc' # "templates"
        /\ lost' = lost
    BY <1>5 DEF NextFile
  <2>2. Ran' \subseteq Ran
    <3>1. CASE results' = results
      BY <2>1, <3>1 DEF Ran
    <3>2. CASE results' # results
      <4>1. PICK s \in Statuses : /\ results' = Append(results, s)
                                  /\ Importable(folder[at + 1]) => s = "skipped"
        BY <1>5, <3>2 DEF NextFile, Importable, Claimed, Statuses
      <4>2. at = Len(results)
        BY <1>5 DEF NextFile, Counted
      <4> QED
        BY <2>1, <4>1, <4>2, Appended
    <3> QED
      BY <3>1, <3>2
  <2> QED
    BY <1>4, <2>1, <2>2
<1>6. CASE Manufacturer \/ EndRun \/ DecodeFails \/ ReadFails
  BY <1>4, <1>6 DEF Manufacturer, EndRun, DecodeFails, ReadFails, Ran
<1>7. CASE DeviceType
  <2>1. /\ folder' = folder /\ apply' = apply /\ Ran' = Ran /\ hit' = hit /\ lost' = lost
        /\ File' = File /\ todo' = DOMAIN File.items
    BY <1>7 DEF DeviceType, Ran, File, Templates
  <2>2. apply => File.slug \in nb'.types
    BY <1>7 DEF DeviceType, WithType, Recorded
  <2>3. Now'
    BY <2>1, <2>2
  <2> QED
    BY <1>1, <1>2, <2>1, <2>3
<1>8. CASE FileFails
  <2>1. /\ folder' = folder /\ apply' = apply /\ pc' = "next" /\ hit' = hit \cup {at} /\ lost' = lost
        /\ results' = Append(results, "error") /\ at = Len(results) + 1
    BY <1>8, Folder, Numbered DEF FileFails, Counted, Busy, TypeOK
  <2>2. Ran' \subseteq Ran \cup {at}
    BY <2>1, Appended DEF Statuses
  <2> QED
    BY <1>4, <2>1, <2>2
<1>9. CASE EndFile
  <2>1. /\ folder' = folder /\ apply' = apply /\ pc' = "next" /\ hit' = hit /\ nb' = nb /\ lost' = lost
        /\ at = Len(results) + 1 /\ pc = "templates" /\ todo = {} /\ at' = at
    BY <1>9, Folder, Numbered DEF EndFile, Counted, Busy, TypeOK
  <2>2. PICK s \in Statuses : results' = Append(results, s)
    BY <1>9 DEF EndFile, FileStatus, Statuses
  <2>3. Ran' \subseteq Ran \cup {at}
    BY <2>1, <2>2, Appended
  <2>4. ASSUME apply, at \notin hit PROVE Past(at)'
    <3>0. File.manufacturer \in nb.manufacturers
      BY <2>1, <2>4 DEF Shown, Noticed
    <3>1. Past(at)
      BY <2>1, <2>4, <3>0 DEF Kept, Past, File
    <3> QED
      BY <2>1, <3>1 DEF Past, Settled, Ids
  <2> QED
    BY <1>1, <1>2, <2>1, <2>3, <2>4
<1>10. CASE TemplateStep
  <2>1. Ran' = Ran
    BY <1>10, AtATemplate DEF Ran
  <2>2. Now'
    <3>1. apply =>
            \A i \in DOMAIN File.items \ todo' : Settled(File.slug, File.items[i])'
      BY <1>10, FileKept
    <3>2. apply => File.slug \in nb'.types
      BY <1>10, AtATemplate, NextGrows DEF Kept
    <3> QED
      BY <1>10, <3>1, <3>2, AtATemplate
  <2> QED
    BY <1>1, <1>2, <1>10, <2>1, <2>2, AtATemplate
<1>11. CASE UNCHANGED vars
  <2>1. /\ UNCHANGED <<folder, nb, apply, at, todo, pc, results, hit, lost>>
        /\ File' = File /\ Ids' = Ids /\ Ran' = Ran
    BY <1>11 DEF vars, File, Ids, Ran
  <2>2. \A slug, item : Settled(slug, item)' <=> Settled(slug, item)
    BY <2>1, Zenon DEF Settled
  <2> QED
    BY <2>1, <2>2, Zenon DEF Kept
<1> QED
  BY <1>3, <1>5, <1>6, <1>7, <1>8, <1>9, <1>10, <1>11 DEF Next, TemplateStep

-----------------------------------------------------------------------------
(* What a file's status says of its notes.                                 *)
LEMMA FileStatuses ==
  /\ FileStatus \in Statuses
  /\ FileStatus \in {"ok", "changed"} => notes.failures = {} /\ notes.blocked = {}
  /\ FileStatus \in {"ok", "changed"} => notes.changes = {} \/ apply
  /\ FileStatus = "changed" => apply
  /\ FileStatus = "drift" => ~apply
  /\ ~apply /\ notes.changes # {} => FileStatus \in {"drift", "partial"}
<1>1. CASE notes.failures \cup notes.blocked # {}
  BY <1>1 DEF FileStatus, Statuses
<1>2. CASE notes.failures \cup notes.blocked = {}
  BY <1>2 DEF FileStatus, Statuses
<1> QED
  BY <1>1, <1>2

(* A file that is not green keeps the run from being green.                *)
LEMMA StaysOpen ==
  ASSUME Counted, NEW s \in Statuses, results' = Append(results, s), folder' = folder
  PROVE  /\ Open => Open'
         /\ s \in {"drift", "partial"} => Open'
<1> DEFINE k == Len(results) + 1
<1>1. /\ k \in Nat /\ DOMAIN results = 1 .. (k - 1) /\ DOMAIN results' = 1 .. k
      /\ \A i \in 1 .. (k - 1) : results'[i] = results[i]
      /\ results'[k] = s
  BY Appended
<1>2. k \in 1 .. k /\ 1 .. (k - 1) \subseteq 1 .. k
  BY <1>1
<1> HIDE DEF k
<1> QED
  BY <1>1, <1>2 DEF Open

(* An item that is disposed of is in NetBox or on the list of what is      *)
(* missing.                                                                *)
LEMMA ItemShown ==
  ASSUME TypeOK, Counted, Ordered, Recorded, RefsAreOwn, Names, TemplateStep
  PROVE  /\ IdOf(File.slug, Item) \in Ids' \/ Entry(at, NextItem) \in Missing'
         /\ Missing \subseteq Missing' /\ notes.changes \subseteq notes'.changes
<1> DEFINE id == Entry(at, NextItem)
<1>1. apply' = apply /\ DOMAIN notes = {"changes", "blocked", "failures"}
  BY AtATemplate DEF Counted
<1>2. ASSUME NEW kinds, notes' = Noted(kinds)
      PROVE  /\ \A k \in DOMAIN notes : notes[k] \subseteq notes'[k]
             /\ \A k \in kinds \cap DOMAIN notes : id \in notes'[k]
  BY <1>2 DEF Noted
<1>3. CASE KeepTemplate
  <2>1. PICK i \in names : i[2] = Item.cat /\ i[3] = Item.name
    BY <1>3 DEF KeepTemplate, Known, Named
  <2>2. i \in Ids /\ i[1] = File.slug /\ Triple(i)
    BY <2>1, AtATemplate DEF Names, Recorded, Ids
  <2>3. i = IdOf(File.slug, Item)
    BY <2>1, <2>2 DEF Triple, IdOf
  <2> QED
    BY <1>1, <1>3, <2>2, <2>3 DEF KeepTemplate, Ids, Missing
<1>4. CASE BlockTemplate \/ PlanTemplate \/ TemplateFails
  <2>1. PICK kinds : /\ notes' = Noted(kinds)
                     /\ \/ "blocked" \in kinds \/ "failures" \in kinds
                        \/ "changes" \in kinds /\ ~apply
    BY <1>4 DEF BlockTemplate, PlanTemplate, TemplateFails
  <2>2. /\ \A k \in DOMAIN notes : notes[k] \subseteq notes'[k]
        /\ \A k \in kinds \cap DOMAIN notes : id \in notes'[k]
    BY <1>2, <2>1
  <2> HIDE DEF id
  <2> QED
    BY <1>1, <2>1, <2>2 DEF Missing, id
<1>5. CASE CreateTemplate
  <2>0. Template(Item) \in nb'.templates
    BY <1>5 DEF CreateTemplate, Recorded
  <2>1. Template(Item) \in nb'.templates /\ Template(Item).id = IdOf(File.slug, Item)
    BY <2>0 DEF Template
  <2>2. \A k \in DOMAIN notes : notes[k] \subseteq notes'[k]
    BY <1>2, <1>5 DEF CreateTemplate
  <2> QED
    BY <1>1, <2>1, <2>2 DEF Missing, Ids
<1> QED
  BY <1>3, <1>4, <1>5 DEF TemplateStep

(* Every item that is no longer to do is in NetBox or listed as missing.   *)
LEMMA NextShown ==
  ASSUME TypeOK, Counted, Ordered, Recorded, RefsAreOwn, Names, Shown, [Next]_vars
  PROVE  Shown'
<1> USE DEF Run
<1> DEFINE Planned == ~apply /\ pc # "idle" =>
                        \A m \in planned : \/ m \in nb.manufacturers \/ Open
                                           \/ pc \in {"type", "templates"} /\ Noticed
           Maker == pc \in {"type", "templates"} =>
                      File.manufacturer \in nb.manufacturers \/ (~apply /\ Open) \/ Noticed
           Items == pc = "templates" =>
                      /\ File.slug \in nb.types \/ Noticed
                      /\ \A i \in DOMAIN File.items \ todo :
                            IdOf(File.slug, File.items[i]) \in Ids \/ Entry(at, i) \in Missing
<1>1. (Shown <=> Planned /\ Maker /\ Items) /\ (Shown' <=> Planned' /\ Maker' /\ Items')
  BY DEF Shown
<1>2. Planned /\ Maker /\ Items
  BY <1>1
<1>3. ASSUME pc' = "next", Planned' PROVE Shown'
  BY <1>1, <1>3
<1>4. nb.manufacturers \subseteq nb'.manufacturers /\ nb.types \subseteq nb'.types
  BY NextGrows
<1>5. CASE StartRun
  BY <1>1, <1>5 DEF StartRun
<1>6. CASE NextFile
  <2>1. /\ folder' = folder /\ apply' = apply /\ planned' = planned /\ nb' = nb /\ pc = "next"
        /\ pc' \in {"next", "manufacturer"}
    BY <1>6 DEF NextFile
  <2>2. Open => Open'
    <3>1. results' = results \/ \E s \in Statuses : results' = Append(results, s)
      BY <1>6 DEF NextFile, Statuses
    <3>2. CASE results' = results
      BY <3>2 DEF Open
    <3> QED
      BY <2>1, <3>1, <3>2, StaysOpen
  <2> QED
    BY <1>1, <1>2, <2>1, <2>2
<1>7. CASE Manufacturer
  <2>1. /\ pc = "manufacturer" /\ pc' = "type" /\ apply' = apply /\ Open' = Open /\ File' = File
    BY <1>7 DEF Manufacturer, Open, File
  <2>2. apply => File.manufacturer \in nb'.manufacturers
    BY <1>7 DEF Manufacturer, WithManufacturer, Recorded
  <2>3. ~apply /\ NewManufacturer /\ File.manufacturer \notin planned => Noticed'
    <3> SUFFICES ASSUME ~apply, NewManufacturer, File.manufacturer \notin planned
                 PROVE  Noticed'
      OBVIOUS
    <3>1. notes'.changes = {<<at, File.manufacturer>>}
      BY <1>7 DEF Manufacturer, Counted
    <3>2. <<at, File.manufacturer>> \in notes'.changes
      BY <3>1
    <3> QED
      BY <2>1, <3>2 DEF Noticed
  <2>4. ~apply /\ File.manufacturer \in planned => File.manufacturer \in nb.manufacturers \/ Open
    BY <1>2, <2>1
  <2>5. Maker'
    BY <1>4, <2>1, <2>2, <2>3, <2>4 DEF NewManufacturer
  <2>6. planned' \subseteq planned \cup {File.manufacturer}
    BY <1>7 DEF Manufacturer
  <2>7. Planned'
    BY <1>2, <1>4, <2>1, <2>5, <2>6
  <2> QED
    BY <1>1, <2>1, <2>5, <2>7
<1>8. CASE DeviceType
  <2>1. /\ pc = "type" /\ pc' = "templates" /\ apply' = apply /\ Open' = Open /\ File' = File
        /\ planned' = planned /\ todo' = DOMAIN File.items
    BY <1>8 DEF DeviceType, Open, File, Templates
  <2>2. Noticed => Noticed'
    BY <1>8, <2>1 DEF DeviceType, Noticed, Counted
  <2>3. File.slug \in nb'.types \/ Noticed'
    <3>1. CASE ~NewType
      BY <1>4, <3>1 DEF NewType
    <3>2. CASE NewType /\ apply
      BY <1>8, <3>2 DEF DeviceType, WithType, Recorded
    <3>3. CASE NewType /\ ~apply
      <4>1. notes'.changes = notes.changes \cup {<<at, File.slug>>}
        BY <1>8, <3>3 DEF DeviceType, Counted
      <4>2. <<at, File.slug>> \in notes'.changes
        BY <4>1
      <4> QED
        BY <2>1, <3>3, <4>2 DEF Noticed
    <3> QED
      BY <3>1, <3>2, <3>3
  <2> QED
    BY <1>1, <1>2, <1>4, <2>1, <2>2, <2>3
<1>9. CASE FileFails
  BY <1>3, <1>9 DEF FileFails
<1>10. CASE EndFile
  <2>1. /\ pc' = "next" /\ apply' = apply /\ planned' = planned /\ nb' = nb /\ folder' = folder
        /\ results' = Append(results, FileStatus)
    BY <1>10 DEF EndFile
  <2>2. (Open => Open') /\ (Noticed => Open')
    BY <2>1, FileStatuses, StaysOpen DEF Noticed
  <2> QED
    BY <1>2, <1>3, <2>1, <2>2, <1>10 DEF EndFile
<1>11. CASE TemplateStep
  <2>1. Open' = Open
    BY <1>11, AtATemplate DEF Open
  <2>2. Noticed => Noticed'
    BY <1>11, AtATemplate, ItemShown DEF Noticed
  <2>3. Planned' /\ Maker'
    BY <1>2, <1>4, <1>11, <2>1, <2>2, AtATemplate
  <2>4. File.slug \in nb'.types \/ Noticed'
    BY <1>2, <1>4, <1>11, <2>2, AtATemplate
  <2>5. ASSUME NEW i \in DOMAIN File.items \ todo'
        PROVE  IdOf(File.slug, File.items[i]) \in Ids' \/ Entry(at, i) \in Missing'
    <3>1. CASE i = NextItem
      BY <1>11, <3>1, AtATemplate, ItemShown
    <3>2. CASE i # NextItem
      <4>1. i \in DOMAIN File.items \ todo
        BY <1>11, <2>5, <3>2, AtATemplate
      <4>2. IdOf(File.slug, File.items[i]) \in Ids \/ Entry(at, i) \in Missing
        BY <1>2, <1>11, <4>1, AtATemplate
      <4> QED
        BY <1>11, <4>2, ItemShown, NextRecorded
    <3> QED
      BY <3>1, <3>2
  <2>6. Items'
    <3>1. \A i : Entry(at, i)' = Entry(at, i)
      BY <1>11, AtATemplate DEF Entry
    <3> QED
      BY <1>11, <2>4, <2>5, <3>1, AtATemplate
  <2> QED
    BY <1>1, <2>3, <2>6
<1>12. CASE EndRun \/ DecodeFails \/ ReadFails
  BY <1>1, <1>12 DEF EndRun, DecodeFails, ReadFails
<1>13. CASE UNCHANGED vars
  BY <1>13 DEF vars, Shown, Open, Noticed, Missing, Ids, File, Entry
<1> QED
  BY <1>5, <1>6, <1>7, <1>8, <1>9, <1>10, <1>11, <1>12, <1>13 DEF Next, TemplateStep

(* A green file has all of its items in NetBox.                            *)
LEMMA NextClean ==
  ASSUME TypeOK, Counted, Slugs, Ordered, Recorded, RefsAreOwn, Names, Shown, Clean,
         [Next]_vars
  PROVE  Clean'
<1> USE DEF Run
<1> DEFINE In(i) == /\ Importable(folder[i]) /\ folder[i].slug \in nb.types
                    /\ \A k \in DOMAIN folder[i].items :
                          IdOf(folder[i].slug, folder[i].items[k]) \in Ids
                    /\ folder[i].manufacturer \in nb.manufacturers \/ (~apply /\ Open)
           Told(i) == /\ results[i] = "drift" => ~apply
                      /\ results[i] = "changed" => apply
                      /\ results[i] \in {"ok", "changed"} => In(i)
<1>1. /\ Clean <=> \A i \in DOMAIN results : Told(i)
      /\ Clean' <=> \A i \in DOMAIN results' : Told(i)'
  BY DEF Clean
<1>2. ASSUME folder' = folder, apply' = apply, Open => Open', NEW i, In(i) PROVE In(i)'
  <2>1. /\ nb.manufacturers \subseteq nb'.manufacturers /\ nb.types \subseteq nb'.types
        /\ Ids \subseteq Ids'
    BY NextGrows, NextRecorded
  <2> QED
    BY <1>2, <2>1
<1> HIDE DEF In
<1>3. ASSUME folder' = folder, apply' = apply, results' = results PROVE Clean'
  <2>1. Open' = Open
    BY <1>3 DEF Open
  <2> QED
    BY <1>1, <1>2, <1>3, <2>1
<1>4. ASSUME folder' = folder, apply' = apply, NEW s \in Statuses, results' = Append(results, s),
             s = "drift" => ~apply, s = "changed" => apply,
             NEW k, k = Len(results) + 1, s \in {"ok", "changed"} => In(k)
      PROVE  Clean'
  <2>1. Open => Open'
    BY <1>4, StaysOpen
  <2>2. /\ k \in Nat /\ DOMAIN results = 1 .. (k - 1) /\ DOMAIN results' = 1 .. k
        /\ \A i \in 1 .. (k - 1) : results'[i] = results[i]
        /\ results'[k] = s
    BY <1>4, Appended
  <2>3. ASSUME NEW i \in 1 .. (k - 1) PROVE Told(i)'
    BY <1>1, <1>2, <1>4, <2>1, <2>2
  <2>4. Told(k)'
    BY <1>2, <1>4, <2>1, <2>2
  <2>5. \A i \in 1 .. k : i = k \/ i \in 1 .. (k - 1)
    BY <2>2
  <2> QED
    BY <1>1, <2>2, <2>3, <2>4, <2>5
<1>5. CASE StartRun
  BY <1>1, <1>5 DEF StartRun
<1>6. CASE NextFile
  <2>1. \/ results' = results
        \/ \E s \in {"skipped", "error"} : results' = Append(results, s)
    BY <1>6 DEF NextFile
  <2> QED
    BY <1>3, <1>4, <1>6, <2>1 DEF NextFile, Statuses
<1>7. CASE Manufacturer \/ DeviceType \/ EndRun \/ DecodeFails \/ ReadFails
  BY <1>3, <1>7 DEF Manufacturer, DeviceType, EndRun, DecodeFails, ReadFails
<1>8. CASE FileFails
  BY <1>4, <1>8 DEF FileFails, Statuses
<1>9. CASE EndFile
  <2>1. /\ pc = "templates" /\ todo = {} /\ at = Len(results) + 1
        /\ folder' = folder /\ apply' = apply /\ results' = Append(results, FileStatus)
    BY <1>9, Folder, Numbered DEF EndFile, Counted, Busy, TypeOK
  <2>2. ASSUME FileStatus \in {"ok", "changed"} PROVE In(at)
    <3>1. Missing = {} /\ ~Noticed
      BY <2>2, FileStatuses DEF Missing, Noticed
    <3>2. Importable(File)
      BY <2>1 DEF Slugs, Busy
    <3> QED
      BY <2>1, <3>1, <3>2 DEF Shown, In, File
  <2> QED
    BY <1>4, <2>1, <2>2, FileStatuses
<1>10. CASE TemplateStep
  BY <1>3, <1>10, AtATemplate
<1>11. CASE UNCHANGED vars
  BY <1>3, <1>11 DEF vars
<1> QED
  BY <1>5, <1>6, <1>7, <1>8, <1>9, <1>10, <1>11 DEF Next, TemplateStep

(* The status of a run that ended is that of its files.                    *)
LEMMA NextEnded ==
  ASSUME TypeOK, Counted, Ordered, Ended, [Next]_vars
  PROVE  Ended'
<1> USE DEF Run
<1>1. CASE EndRun
  <2>1. FolderStatus' = FolderStatus
    BY <1>1 DEF EndRun, FolderStatus, With
  <2>2. Len(results) = Len(folder)
    BY <1>1 DEF EndRun, Counted
  <2>3. last'.apply = apply /\ last'.status = FolderStatus
    BY <1>1 DEF EndRun
  <2> QED
    BY <1>1, <2>1, <2>2, <2>3 DEF EndRun, Ended
<1>2. CASE ReadFails
  <2>1. at \in 1 .. Len(folder) /\ Len(results) = at - 1 /\ unread' = at /\ Len(folder) \in Nat
    BY <1>2, Folder DEF ReadFails, TypeOK, Counted, Busy
  <2>2. Len(results) + 1 = at /\ Len(results) < Len(folder) /\ at \in 1 .. at
    BY <2>1
  <2>3. ~Reached(Len(results) + 1)'
    BY <1>2, <2>1, <2>2 DEF ReadFails, Reached
  <2> QED
    BY <1>2, <2>2, <2>3 DEF ReadFails, Ended
<1>7. CASE DecodeFails
  <2>1. at \in Nat /\ Len(results) = at /\ at < Len(folder) /\ ~folder[at + 1].text
    BY <1>7, Folder DEF DecodeFails, TypeOK, Counted
  <2>2. Len(results) + 1 \in 1 .. (Len(results) + 1) /\ results' = results /\ folder' = folder
    BY <1>7, <2>1 DEF DecodeFails
  <2>3. ~Reached(Len(results) + 1)'
    BY <2>1, <2>2 DEF Reached
  <2> QED
    BY <1>7, <2>1, <2>3 DEF DecodeFails, Ended
<1>3. ASSUME pc' # "idle" PROVE Ended'
  BY <1>3 DEF Ended
<1>4. CASE StartRun \/ NextFile \/ Manufacturer \/ DeviceType \/ FileFails \/ EndFile
  BY <1>3, <1>4 DEF StartRun, NextFile, Manufacturer, DeviceType, FileFails, EndFile
<1>5. CASE TemplateStep
  BY <1>3, <1>5, AtATemplate
<1>6. CASE UNCHANGED vars
  BY <1>6 DEF vars, Ended, FolderStatus, With, Reached
<1> QED
  BY <1>1, <1>2, <1>4, <1>5, <1>6, <1>7 DEF Next, TemplateStep

(* Each step preserves the invariant.                                      *)
LEMMA Inductive == IInv /\ [Next]_vars => IInv'
BY NextCounted, NextRecorded, NextSlugs, NextSkipping, NextDecoded, NextOrdered, NextNames, NextKept, NextShown,
   NextClean, NextEnded DEF IInv

-----------------------------------------------------------------------------
(* The invariant the theorems rest on.                                     *)
THEOREM Invariance == Spec => []IInv
BY InitIInv, Inductive, PTL DEF Spec

(* The import never loses count of its files, and has a status for each.   *)
THEOREM TypeCorrect == Spec => []TypeOK
<1>1. IInv => TypeOK
  BY DEF IInv
<1> QED
  BY <1>1, Invariance, PTL

(* No power outlet or front port refers to a port of another device type,  *)
(* or to one that does not exist.                                          *)
THEOREM ReferencesOwn == Spec => []RefsAreOwn
<1>1. IInv => RefsAreOwn
  BY DEF IInv
<1> QED
  BY <1>1, Invariance, PTL

(* One bad file or request does not stop the rest of a folder: up to a     *)
(* file that does not decode, or at which NetBox cannot be read, every     *)
(* file is dealt with, and each of its templates on its own.               *)
THEOREM FailureStays == Spec => []FailureStaysInItsFile
<1>1. IInv => FailureStaysInItsFile
  <2> SUFFICES ASSUME IInv, pc = "idle", run > 0, NEW i \in 1 .. Len(folder), Reached(i)
               PROVE  /\ i \in DOMAIN results
                      /\ apply /\ Importable(folder[i]) /\ ~Claimed(i) /\ i \notin hit =>
                           /\ folder[i].manufacturer \in nb.manufacturers
                           /\ folder[i].slug \in nb.types
                           /\ \A item \in Range(folder[i].items) : Settled(folder[i].slug, item)
    BY DEF FailureStaysInItsFile
  <2>0. /\ DOMAIN results = 1 .. Len(results) /\ Len(results) \in Nat
        /\ Len(folder) \in Nat
    BY Numbered, Folder DEF IInv, Counted
  <2>1. i \in DOMAIN results
    <3>1. CASE Len(results) = Len(folder)
      BY <2>0, <3>1
    <3>2. CASE Len(results) < Len(folder) /\ ~Reached(Len(results) + 1)
      <4>1. PICK n \in Nat : n = Len(results) + 1
        BY <2>0
      <4>2. PICK j \in 1 .. n : ~(folder[j].text /\ j # unread)
        BY <3>2, <4>1 DEF Reached
      <4>3. ~(j \in 1 .. i)
        BY <4>2 DEF Reached
      <4> QED
        BY <2>0, <4>1, <4>2, <4>3
    <3> QED
      BY <3>1, <3>2 DEF IInv, Ended
  <2>2. ASSUME apply, Importable(folder[i]), ~Claimed(i), i \notin hit
        PROVE  /\ folder[i].manufacturer \in nb.manufacturers
               /\ folder[i].slug \in nb.types
               /\ \A item \in Range(folder[i].items) : Settled(folder[i].slug, item)
    <3>1. Candidate(i)
      BY <2>2 DEF Candidate, Alone, Claimed
    <3>2. i \in Ran \ hit
      BY <2>1, <2>2, <3>1 DEF IInv, Skipping, Ran
    <3>3. /\ folder[i].manufacturer \in nb.manufacturers
          /\ folder[i].slug \in nb.types
          /\ \A k \in DOMAIN folder[i].items :
                Settled(folder[i].slug, folder[i].items[k])
      BY <2>2, <3>2 DEF IInv, Kept
    <3> QED
      BY <3>3 DEF Range
  <2> QED
    BY <2>1, <2>2
<1> QED
  BY <1>1, Invariance, PTL

(* A green run leaves nothing of its files out.                            *)
THEOREM GreenComplete == Spec => []GreenMeansImported
<1>1. IInv => GreenMeansImported
  <2> SUFFICES ASSUME IInv, pc = "idle", run > 0,
                      last.status \in (IF last.apply THEN {"ok", "changed"} ELSE {"ok"}),
                      NEW i \in 1 .. Len(folder), results[i] # "skipped"
               PROVE  i \in Ran /\ Imported(folder[i])
    BY DEF GreenMeansImported
  <2>1. /\ last.apply = apply /\ last.status = FolderStatus /\ DOMAIN results = 1 .. Len(folder)
        /\ results[i] \in Statuses
    BY Numbered DEF IInv, Ended, Counted
  <2>2. With("error") = {} /\ With("partial") = {}
    BY <2>1 DEF FolderStatus, With
  <2>3. ~apply => With("drift") = {}
    BY <2>1 DEF FolderStatus, With
  <2>4. ~Open \/ apply
    BY <2>2, <2>3 DEF Open, With
  <2>5. results[i] \in {"ok", "changed"}
    BY <2>1, <2>2, <2>3 DEF With, Statuses, IInv, Clean
  <2>6. /\ Importable(folder[i]) /\ folder[i].slug \in nb.types
        /\ \A k \in DOMAIN folder[i].items :
              IdOf(folder[i].slug, folder[i].items[k]) \in Ids
        /\ folder[i].manufacturer \in nb.manufacturers
    BY <2>1, <2>4, <2>5 DEF IInv, Clean
  <2> QED
    BY <2>1, <2>6 DEF Ran, Imported, Range
<1> QED
  BY <1>1, Invariance, PTL

-----------------------------------------------------------------------------
(* What a run has to list of NetBox as it is: the new manufacturer of each *)
(* file, at the first file that names it, the new device type, and the     *)
(* templates that are missing and whose reference is known.                *)
Maker(i) == folder[i].manufacturer
First(i) == \A j \in 1 .. (i - 1) : Candidate(j) => Maker(j) # Maker(i)
ItemId(i, k) == IdOf(folder[i].slug, folder[i].items[k])
Sound(i, k) ==
    LET item == folder[i].items[k] IN
    \/ item.ref = ""
    \/ RefOf(folder[i].slug, item) \in Ids
    \/ \E l \in DOMAIN folder[i].items : ItemId(i, l) = RefOf(folder[i].slug, item)
OweMaker(i) ==
    IF Maker(i) \notin nb.manufacturers /\ First(i) THEN {<<i, Maker(i)>>} ELSE {}
OweType(i) ==
    IF folder[i].slug \notin nb.types THEN {<<i, folder[i].slug>>} ELSE {}
OweItems(i, ks) == {Entry(i, k) : k \in {l \in ks : ItemId(i, l) \notin Ids /\ Sound(i, l)}}
Owe(i) == OweMaker(i) \cup OweType(i) \cup OweItems(i, DOMAIN folder[i].items)
OweFrom(n) == UNION {Owe(i) : i \in {j \in n .. Len(folder) : Candidate(j)}}

(* What is listed and what is still to be listed add up: in a run to what  *)
(* the plan before it listed, in a plan to what NetBox lacks.              *)
OweFile ==
    CASE pc = "manufacturer" -> Owe(at)
      [] pc = "type" -> notes.changes \cup OweType(at) \cup OweItems(at, DOMAIN File.items)
      [] pc = "templates" -> notes.changes \cup OweItems(at, todo)
      [] OTHER -> {}
Total == listed \cup OweFile \cup OweFrom(at + 1)
Owed == IF last.apply THEN {} ELSE last.listed
Passed(i) == Candidate(i) /\ (i < at \/ (i = at /\ pc # "manufacturer"))
Adding ==
    /\ pc = "idle" /\ run # 0 => OweFrom(1) = Owed
    /\ pc # "idle" /\ run > 1 => Total = Owed
    /\ pc # "idle" /\ ~apply => Total = OweFrom(1)
Making ==
    /\ pc # "idle" /\ ~apply =>
         \A m : m \in planned <=>
           \E i \in 1 .. at : Passed(i) /\ Maker(i) = m /\ m \notin nb.manufacturers
    /\ pc # "idle" /\ apply => \A i \in 1 .. at : Passed(i) => Maker(i) \in nb.manufacturers
Undisturbed == hit = {} /\ lost = {} /\ Adding /\ Making
Plain == \A i \in 1 .. Len(folder) : folder[i].text /\ Distinct(folder[i])
RInv == mishaps \in Nat /\ (mishaps = 0 /\ Plain => Undisturbed)

(* The first of the files left, and the others.                            *)
LEMMA OweSplit ==
  ASSUME Counted, NEW n \in 1 .. Len(folder)
  PROVE  OweFrom(n) = (IF Candidate(n) THEN Owe(n) ELSE {}) \cup OweFrom(n + 1)
<1>1. \A j : j \in n .. Len(folder) <=> (j = n \/ j \in (n + 1) .. Len(folder))
  BY Folder
<1> QED
  BY <1>1, Zenon DEF OweFrom

(* Behind the last file nothing is left.                                   *)
LEMMA OweNone ==
  ASSUME Counted
  PROVE  OweFrom(Len(folder) + 1) = {}
<1>1. (Len(folder) + 1) .. Len(folder) = {}
  BY Folder
<1> QED
  BY <1>1 DEF OweFrom

(* What the files from some on owe stays, if it does of each.              *)
LEMMA OweLater ==
  ASSUME folder' = folder, NEW n \in Nat,
         \A i \in n .. Len(folder) : Candidate(i) => Owe(i)' = Owe(i)
  PROVE  OweFrom(n)' = OweFrom(n)
<1>1. \A i : Candidate(i)' <=> Candidate(i)
  BY DEF Candidate, Alone, Importable, Loads
<1> QED
  BY <1>1 DEF OweFrom

(* As long as NetBox is what it was, all owe the same.                     *)
LEMMA OweSame ==
  ASSUME folder' = folder, nb' = nb
  PROVE  /\ \A i : OweMaker(i)' = OweMaker(i) /\ OweType(i)' = OweType(i)
         /\ \A i, ks : OweItems(i, ks)' = OweItems(i, ks)
         /\ \A i : Owe(i)' = Owe(i)
         /\ \A n : OweFrom(n)' = OweFrom(n)
<1>1. \A i : (Candidate(i)' <=> Candidate(i)) /\ (First(i)' <=> First(i))
  BY DEF Candidate, Alone, Importable, Loads, First, Maker
<1>2. \A i : OweMaker(i)' = OweMaker(i) /\ OweType(i)' = OweType(i)
  BY <1>1 DEF OweMaker, OweType, Maker
<1>3. \A i, k : (Sound(i, k)' <=> Sound(i, k)) /\ ItemId(i, k)' = ItemId(i, k)
  BY DEF Sound, ItemId, Ids
<1>4. \A i, ks : OweItems(i, ks)' = OweItems(i, ks)
  BY <1>3 DEF OweItems, Ids, Entry
<1>5. \A i : Owe(i)' = Owe(i)
  BY <1>2, <1>4 DEF Owe
<1> QED
  BY <1>1, <1>2, <1>4, <1>5 DEF OweFrom

(* The items of a file owe the same unless a template of its type is made. *)
LEMMA OweItemsSame ==
  ASSUME folder' = folder, NEW i, NEW ks,
         \A id : id[1] = folder[i].slug => (id \in Ids' <=> id \in Ids)
  PROVE  OweItems(i, ks)' = OweItems(i, ks)
<1>1. \A k : ItemId(i, k)' = ItemId(i, k) /\ (ItemId(i, k) \in Ids' <=> ItemId(i, k) \in Ids)
  <2>1. \A k : ItemId(i, k)[1] = folder[i].slug
    BY DEF ItemId, IdOf
  <2> QED
    BY <2>1 DEF ItemId
<1>2. ASSUME NEW k PROVE Sound(i, k)' <=> Sound(i, k)
  <2>1. PICK item : item = folder[i].items[k]
    OBVIOUS
  <2>2. CASE item.ref = ""
    BY <2>1, <2>2 DEF Sound
  <2>3. CASE item.ref # ""
    <3>1. RefOf(folder[i].slug, item) = <<folder[i].slug, RefCategory(item.cat), item.ref>>
      BY <2>3 DEF RefOf
    <3>2. RefOf(folder[i].slug, item)[1] = folder[i].slug
      BY <3>1
    <3>3. RefOf(folder[i].slug, item) \in Ids' <=> RefOf(folder[i].slug, item) \in Ids
      BY <3>2
    <3> QED
      BY <2>1, <3>3, <1>1 DEF Sound
  <2> QED
    BY <2>2, <2>3
<1> QED
  BY <1>1, <1>2 DEF OweItems, Entry

(* What is known of a type's templates, while no request for one has       *)
(* failed, is what NetBox has.                                             *)
LEMMA NamedIs ==
  ASSUME pc = "templates", Names, Recorded, lost = {}, NEW cat, NEW nm
  PROVE  Named(cat, nm) # {} <=> <<File.slug, cat, nm>> \in Ids
<1>1. ASSUME NEW id \in Named(cat, nm) PROVE <<File.slug, cat, nm>> \in Ids
  <2>1. id \in names /\ id[2] = cat /\ id[3] = nm
    BY DEF Named
  <2>2. id \in Ids /\ id[1] = File.slug
    BY <2>1 DEF Names
  <2>3. id = <<id[1], id[2], id[3]>>
    BY <2>2 DEF Recorded, Triple, Ids
  <2> QED
    BY <2>1, <2>2, <2>3
<1>2. ASSUME <<File.slug, cat, nm>> \in Ids PROVE Named(cat, nm) # {}
  <2>1. PICK id : id = <<File.slug, cat, nm>>
    OBVIOUS
  <2>2. id[1] = File.slug /\ id[2] = cat /\ id[3] = nm
    BY <2>1
  <2>3. id \in names
    BY <1>2, <2>1, <2>2 DEF Names
  <2> QED
    BY <2>2, <2>3 DEF Named
<1> QED
  BY <1>1, <1>2

(* The item is known, or its reference, when NetBox has it or the file.    *)
LEMMA ItemKnown ==
  ASSUME TypeOK, Counted, Ordered, Recorded, Names, TemplateStep, lost = {}
  PROVE  /\ Known(Item) <=> ItemId(at, NextItem) \in Ids
         /\ RefKnown(Item) <=> Sound(at, NextItem)
         /\ ItemId(at, NextItem) = IdOf(File.slug, Item)
<1>1. pc = "templates" /\ Item = folder[at].items[NextItem] /\ File = folder[at]
  BY AtATemplate DEF File
<1>2. ItemId(at, NextItem) = IdOf(File.slug, Item)
  BY <1>1 DEF ItemId
<1>3. Known(Item) <=> ItemId(at, NextItem) \in Ids
  BY <1>1, <1>2, NamedIs DEF Known, IdOf
<1>4. RefKnown(Item) <=> Sound(at, NextItem)
  <2>1. CASE Item.ref = ""
    BY <1>1, <2>1 DEF RefKnown, Sound
  <2>2. CASE Item.ref # ""
    <3>1. RefOf(File.slug, Item) = <<File.slug, RefCategory(Item.cat), Item.ref>>
      BY <2>2 DEF RefOf
    <3>2. Named(RefCategory(Item.cat), Item.ref) # {} <=> RefOf(File.slug, Item) \in Ids
      BY <1>1, <3>1, NamedIs
    <3>3. \A l : ItemId(at, l) = RefOf(File.slug, Item) <=>
                   /\ File.items[l].cat = RefCategory(Item.cat)
                   /\ File.items[l].name = Item.ref
      BY <1>1, <3>1 DEF ItemId, IdOf
    <3> QED
      BY <1>1, <2>2, <3>2, <3>3 DEF RefKnown, Sound
  <2> QED
    BY <2>1, <2>2
<1> QED
  BY <1>2, <1>3, <1>4

(* A step at an item leaves the sum of what is noted and what is owed.     *)
LEMMA ItemAdds ==
  ASSUME TypeOK, Counted, Ordered, Recorded, Names, RefsAreOwn, [Next]_vars,
         TemplateStep, ~TemplateFails, lost = {}, Distinct(folder[at])
  PROVE  notes'.changes \cup OweItems(at, todo)' = notes.changes \cup OweItems(at, todo)
<1> DEFINE id == ItemId(at, NextItem)
           entry == Entry(at, NextItem)
<1>1. /\ NextItem \in todo /\ NextItem \in DOMAIN folder[at].items
      /\ todo' = todo \ {NextItem} /\ folder' = folder /\ at' = at /\ pc = "templates"
      /\ Item = folder[at].items[NextItem] /\ File = folder[at]
  BY AtATemplate DEF File
<1>2. /\ Known(Item) <=> id \in Ids
      /\ RefKnown(Item) <=> Sound(at, NextItem)
      /\ id = IdOf(File.slug, Item)
  BY ItemKnown
<1>3. Ids \subseteq Ids' /\ \A x \in Ids' : x \in Ids \/ x = id
  BY <1>2, NewIds
<1>4. \A l : ItemId(at, l)' = ItemId(at, l)
  BY <1>1 DEF ItemId
<1>5. \A l : Sound(at, l)' <=> Sound(at, l)
  <2>1. PICK n : n = NextItem
    OBVIOUS
  <2>2. n \in DOMAIN folder[at].items /\ id = ItemId(at, n)
    BY <1>1, <2>1
  <2> HIDE DEF id
  <2> QED
    BY <1>1, <1>3, <1>4, <2>2 DEF Sound
<1>6. Sound(at, NextItem) /\ id \notin Ids => entry \in OweItems(at, todo)
  BY <1>1 DEF OweItems
<1>6a. \A l \in todo : ItemId(at, l) = id => l = NextItem
  <2>1. \A l \in todo : l \in DOMAIN folder[at].items
    BY <1>1 DEF Ordered
  <2> QED
    BY <1>1, <2>1 DEF ItemId, IdOf, Distinct
<1>6b. \A l : Entry(at, l)' = Entry(at, l)
  BY <1>1 DEF Entry
<1>7. ASSUME Ids' = Ids, ~Sound(at, NextItem) \/ id \in Ids
      PROVE  OweItems(at, todo)' = OweItems(at, todo)
  <2>1. {l \in todo' : ItemId(at, l)' \notin Ids' /\ Sound(at, l)'}
          = {l \in todo : ItemId(at, l) \notin Ids /\ Sound(at, l)}
    BY <1>1, <1>4, <1>5, <1>7
  <2> QED
    BY <1>1, <1>6b, <2>1 DEF OweItems
<1>8. ASSUME NEW x, x # entry
      PROVE  x \in OweItems(at, todo)' <=> x \in OweItems(at, todo)
  <2>1. x \in OweItems(at, todo)' <=>
          \E l \in todo \ {NextItem} : x = Entry(at, l) /\ ItemId(at, l) \notin Ids' /\ Sound(at, l)
    BY <1>1, <1>4, <1>5, <1>6b DEF OweItems
  <2>2. x \in OweItems(at, todo) <=>
          \E l \in todo : x = Entry(at, l) /\ ItemId(at, l) \notin Ids /\ Sound(at, l)
    BY DEF OweItems
  <2>3. \A l : x = Entry(at, l) => l # NextItem
    BY <1>8
  <2> HIDE DEF id, entry
  <2> QED
    BY <1>3, <1>6a, <1>8, <2>1, <2>2, <2>3
<1>9. ASSUME notes'.changes = notes.changes \cup {entry}, Sound(at, NextItem), id \notin Ids
      PROVE  notes'.changes \cup OweItems(at, todo)' = notes.changes \cup OweItems(at, todo)
  <2>1. entry \in OweItems(at, todo)
    BY <1>6, <1>9
  <2> HIDE DEF id, entry
  <2> QED
    BY <1>8, <1>9, <2>1
<1>10. Noted({"changes"}).changes = notes.changes \cup {entry}
  BY <1>2 DEF Noted, Counted
<1>11. Noted({"changes", "blocked"}).changes = notes.changes \cup {entry}
  BY <1>2 DEF Noted, Counted
<1>12. Noted({"blocked"}).changes = notes.changes
  BY DEF Noted, Counted
<1>13. nb' = nb => Ids' = Ids
  BY DEF Ids
<1> HIDE DEF id, entry
<1>14. CASE KeepTemplate
  BY <1>2, <1>7, <1>13, <1>14 DEF KeepTemplate
<1>15. CASE BlockTemplate
  BY <1>2, <1>7, <1>9, <1>11, <1>12, <1>13, <1>15 DEF BlockTemplate
<1>16. CASE PlanTemplate
  BY <1>2, <1>9, <1>10, <1>16 DEF PlanTemplate
<1>17. CASE CreateTemplate
  BY <1>2, <1>9, <1>10, <1>17 DEF CreateTemplate, ToCreate
<1> QED
  BY <1>14, <1>15, <1>16, <1>17 DEF TemplateStep

-----------------------------------------------------------------------------
(* Where a run is in its folder.                                           *)
LEMMA Standing ==
  ASSUME TypeOK, Counted
  PROVE  /\ Len(folder) \in Nat /\ at \in Nat /\ at <= Len(folder)
         /\ Busy => at \in 1 .. Len(folder)
BY Folder DEF TypeOK, Counted

(* The sum stays when it does not change within a run.                     *)
LEMMA AddingStays ==
  ASSUME Adding, run' = run, last' = last, apply' = apply, folder' = folder,
         pc # "idle", pc' # "idle", Total' = Total, ~apply => nb' = nb
  PROVE  Adding'
<1>1. ~apply => OweFrom(1)' = OweFrom(1)
  BY OweSame
<1>2. Owed' = Owed
  BY DEF Owed
<1> QED
  BY <1>1, <1>2 DEF Adding

(* Candidates have slugs of their own.                                     *)
LEMMA SlugsApart ==
  ASSUME TypeOK, Counted, Slugs, Busy, NEW i \in (at + 1) .. Len(folder), Candidate(i)
  PROVE  Candidate(at) /\ folder[i].slug # File.slug /\ at \in 1 .. (i - 1)
<1>1. at \in 1 .. (i - 1)
  BY Standing
<1>2. Candidate(at)
  BY DEF Slugs, Candidate, File
<1> QED
  BY <1>1, <1>2 DEF Candidate, Importable, Alone, File

(* What a new manufacturer does to what is owed.                           *)
LEMMA ManufacturerAdds ==
  ASSUME TypeOK, Counted, Slugs, Recorded, Making, Manufacturer
  PROVE  Total' = Total
<1> USE DEF Run
<1>1. /\ folder' = folder /\ at' = at /\ listed' = listed /\ pc = "manufacturer"
      /\ pc' = "type" /\ File' = File
      /\ nb'.types = nb.types /\ nb'.templates = nb.templates
      /\ nb'.manufacturers = nb.manufacturers
           \/ nb'.manufacturers = nb.manufacturers \cup {File.manufacturer}
  BY DEF Manufacturer, WithManufacturer, Recorded, File
<1>2. at \in 1 .. Len(folder) /\ Len(folder) \in Nat /\ Candidate(at) /\ Busy
  BY <1>1, Standing DEF Busy, Slugs, Candidate, File
<1>3. notes'.changes = OweMaker(at)
  <2>1. NewManufacturer => (apply \/ File.manufacturer \notin planned <=> First(at))
    <3>1. \A i \in 1 .. (at - 1) : i \in 1 .. at /\ (Passed(i) <=> Candidate(i))
      BY <1>1, <1>2 DEF Passed
    <3>2. \A i \in 1 .. at : Passed(i) => i \in 1 .. (at - 1)
      BY <1>1, <1>2 DEF Passed
    <3>3. CASE apply
      BY <1>1, <3>1, <3>3 DEF Making, NewManufacturer, First, Maker, File
    <3>4. CASE ~apply
      <4>1. File.manufacturer \in planned <=>
              \E i \in 1 .. at : /\ Passed(i) /\ Maker(i) = File.manufacturer
                                 /\ File.manufacturer \notin nb.manufacturers
        BY <1>1, <3>4 DEF Making
      <4> QED
        BY <3>1, <3>2, <3>4, <4>1 DEF NewManufacturer, First, Maker, File
    <3> QED
      BY <3>3, <3>4
  <2>2. notes'.changes = IF NewManufacturer /\ (apply \/ File.manufacturer \notin planned)
                         THEN {<<at, File.manufacturer>>} ELSE {}
    BY DEF Manufacturer, Counted
  <2> QED
    BY <2>1, <2>2 DEF OweMaker, NewManufacturer, Maker, File
<1>4. Ids' = Ids
  BY <1>1 DEF Ids
<1>5. \A i : OweType(i)' = OweType(i)
  BY <1>1 DEF OweType
<1>6. \A i, ks : OweItems(i, ks)' = OweItems(i, ks)
  BY <1>1, <1>4, OweItemsSame
<1>7. ASSUME NEW i \in (at + 1) .. Len(folder), Candidate(i)
      PROVE  Owe(i)' = Owe(i)
  <2>1. First(i)' <=> First(i)
    BY <1>1 DEF First, Candidate, Alone, Importable, Loads, Maker
  <2>2. First(i) => Maker(i) # File.manufacturer
    <3>1. at \in 1 .. (i - 1)
      BY <1>2
    <3> QED
      BY <1>2, <3>1 DEF First, Maker, File
  <2>3. OweMaker(i)' = OweMaker(i)
    BY <1>1, <2>1, <2>2 DEF OweMaker, Maker
  <2> QED
    BY <1>1, <1>5, <1>6, <2>3 DEF Owe
<1>8. OweFrom(at + 1)' = OweFrom(at + 1)
  <2>1. at + 1 \in Nat
    BY <1>2
  <2>2. PICK n \in Nat : n = at + 1
    BY <2>1
  <2>3. OweFrom(n)' = OweFrom(n)
    BY <1>1, <1>7, <2>2, OweLater
  <2> QED
    BY <1>1, <2>2, <2>3
<1>9. OweFile = OweMaker(at) \cup OweType(at) \cup OweItems(at, DOMAIN File.items)
  BY <1>1 DEF OweFile, Owe, File
<1>10. OweFile' = notes'.changes \cup OweType(at) \cup OweItems(at, DOMAIN File.items)
  BY <1>1, <1>5, <1>6 DEF OweFile
<1>11. Total = listed \cup OweFile \cup OweFrom(at + 1)
  BY DEF Total
<1>12. Total' = listed' \cup OweFile' \cup OweFrom(at + 1)'
  BY <1>1 DEF Total
<1> QED
  BY <1>1, <1>3, <1>8, <1>9, <1>10, <1>11, <1>12

(* What a new device type does to what is owed.                            *)
LEMMA DeviceTypeAdds ==
  ASSUME TypeOK, Counted, Slugs, Recorded, DeviceType
  PROVE  Total' = Total
<1> USE DEF Run
<1>1. /\ folder' = folder /\ at' = at /\ listed' = listed /\ pc = "type"
      /\ pc' = "templates" /\ File' = File /\ todo' = DOMAIN File.items
      /\ nb'.manufacturers = nb.manufacturers /\ nb'.templates = nb.templates
      /\ nb'.types = nb.types \/ nb'.types = nb.types \cup {File.slug}
  BY DEF DeviceType, WithType, Recorded, File, Templates
<1>2. at \in 1 .. Len(folder) /\ Len(folder) \in Nat /\ Busy
  BY <1>1, Standing DEF Busy
<1>3. notes'.changes = notes.changes \cup OweType(at)
  BY DEF DeviceType, Counted, OweType, NewType, File
<1>4. Ids' = Ids
  BY <1>1 DEF Ids
<1>5. \A i : OweMaker(i)' = OweMaker(i)
  BY <1>1 DEF OweMaker, Maker, First, Candidate, Alone, Importable, Loads
<1>6. \A i, ks : OweItems(i, ks)' = OweItems(i, ks)
  BY <1>1, <1>4, OweItemsSame
<1>7. ASSUME NEW i \in (at + 1) .. Len(folder), Candidate(i)
      PROVE  Owe(i)' = Owe(i)
  <2>1. folder[i].slug # File.slug
    BY <1>2, <1>7, SlugsApart
  <2>2. OweType(i)' = OweType(i)
    BY <1>1, <2>1 DEF OweType
  <2> QED
    BY <1>1, <1>5, <1>6, <2>2 DEF Owe
<1>8. OweFrom(at + 1)' = OweFrom(at + 1)
  <2>1. PICK n \in Nat : n = at + 1
    BY <1>2
  <2>2. OweFrom(n)' = OweFrom(n)
    BY <1>1, <1>7, <2>1, OweLater
  <2> QED
    BY <1>1, <2>1, <2>2
<1>9. OweFile = notes.changes \cup OweType(at) \cup OweItems(at, DOMAIN File.items)
  BY <1>1 DEF OweFile
<1>10. OweFile' = notes'.changes \cup OweItems(at, DOMAIN File.items)
  BY <1>1, <1>6 DEF OweFile
<1>11. Total = listed \cup OweFile \cup OweFrom(at + 1)
  BY DEF Total
<1>12. Total' = listed' \cup OweFile' \cup OweFrom(at + 1)'
  BY <1>1 DEF Total
<1> QED
  BY <1>1, <1>3, <1>8, <1>9, <1>10, <1>11, <1>12

(* What a template does to what is owed.                                   *)
LEMMA TemplateAdds ==
  ASSUME TypeOK, Counted, Slugs, Ordered, Recorded, Names, RefsAreOwn, [Next]_vars,
         TemplateStep, ~TemplateFails, lost = {}, Distinct(folder[at])
  PROVE  Total' = Total
<1>1. /\ folder' = folder /\ at' = at /\ pc = "templates" /\ pc' = pc /\ File' = File
  BY AtATemplate
<1>2. /\ listed' = listed /\ nb'.manufacturers = nb.manufacturers /\ nb'.types = nb.types
  BY DEF TemplateStep, KeepTemplate, BlockTemplate, PlanTemplate, CreateTemplate, AtTemplate, Recorded
<1>3. at \in 1 .. Len(folder) /\ Len(folder) \in Nat /\ Busy
  BY <1>1, Standing DEF Busy
<1>4. \A i : OweMaker(i)' = OweMaker(i) /\ OweType(i)' = OweType(i)
  BY <1>1, <1>2 DEF OweMaker, OweType, Maker, First, Candidate, Alone, Importable, Loads
<1>5. ASSUME NEW i \in (at + 1) .. Len(folder), Candidate(i)
      PROVE  Owe(i)' = Owe(i)
  <2>1. folder[i].slug # File.slug
    BY <1>3, <1>5, SlugsApart
  <2>2. \A id : id[1] = folder[i].slug => (id \in Ids' <=> id \in Ids)
    <3>1. IdOf(File.slug, Item)[1] = File.slug
      BY DEF IdOf
    <3> QED
      BY <2>1, <3>1, NewIds
  <2>3. \A ks : OweItems(i, ks)' = OweItems(i, ks)
    BY <1>1, <2>2, OweItemsSame
  <2> QED
    BY <1>1, <1>4, <2>3 DEF Owe
<1>6. OweFrom(at + 1)' = OweFrom(at + 1)
  <2>1. PICK n \in Nat : n = at + 1
    BY <1>3
  <2>2. OweFrom(n)' = OweFrom(n)
    BY <1>1, <1>5, <2>1, OweLater
  <2> QED
    BY <1>1, <2>1, <2>2
<1>7. OweFile' = OweFile
  <2>1. OweFile = notes.changes \cup OweItems(at, todo)
    BY <1>1 DEF OweFile
  <2>2. OweFile' = notes'.changes \cup OweItems(at, todo)'
    BY <1>1 DEF OweFile
  <2> QED
    BY <2>1, <2>2, ItemAdds
<1> QED
  BY <1>1, <1>2, <1>6, <1>7 DEF Total

(* An apply that nothing disturbed leaves nothing owed.                    *)
LEMMA ApplyOwesNothing ==
  ASSUME TypeOK, Counted, Skipping, Kept, Undisturbed, apply, pc = "next", at = Len(folder)
  PROVE  OweFrom(1) = {}
<1> SUFFICES ASSUME NEW i \in 1 .. Len(folder), Candidate(i) PROVE Owe(i) = {}
  BY DEF OweFrom
<1>1. i \in Ran \ hit
  <2>1. i \in DOMAIN results
    BY Numbered DEF Counted
  <2> QED
    BY <2>1 DEF Undisturbed, Skipping, Ran, Candidate
<1>2. /\ folder[i].slug \in nb.types
      /\ \A k \in DOMAIN folder[i].items : Settled(folder[i].slug, folder[i].items[k])
  BY <1>1 DEF Kept
<1>3. OweMaker(i) = {}
  <2>1. i \in 1 .. at /\ Passed(i)
    BY Standing DEF Passed
  <2> QED
    BY <2>1 DEF Undisturbed, Making, OweMaker
<1>4. ASSUME NEW k \in DOMAIN folder[i].items, ItemId(i, k) \notin Ids, Sound(i, k)
      PROVE  FALSE
  <2>1. PICK item : item = folder[i].items[k]
    OBVIOUS
  <2>2. item.ref # "" /\ RefOf(folder[i].slug, item) \notin Ids
    BY <1>2, <1>4, <2>1 DEF Settled, ItemId, Undisturbed
  <2>3. PICK l \in DOMAIN folder[i].items : ItemId(i, l) = RefOf(folder[i].slug, item)
    BY <1>4, <2>1, <2>2 DEF Sound
  <2>4. folder[i].items[l].ref # ""
    BY <1>2, <2>2, <2>3 DEF Settled, ItemId, Undisturbed
  <2>5. folder[i].items[l].cat = RefCategory(item.cat)
    BY <2>2, <2>3 DEF ItemId, IdOf, RefOf
  <2>6. /\ item.cat \in {"power-outlets", "front-ports"}
        /\ folder[i].items[l].cat \in {"power-outlets", "front-ports"}
    BY <2>1, <2>2, <2>4, Files
  <2> QED
    BY <2>5, <2>6 DEF RefCategory
<1>5. OweItems(i, DOMAIN folder[i].items) = {}
  BY <1>4 DEF OweItems
<1> QED
  BY <1>2, <1>3, <1>5 DEF Owe, OweType

(* At the end of a run everything is listed.                               *)
LEMMA AllListed ==
  ASSUME Counted, pc = "next", at = Len(folder)
  PROVE  Total = listed
<1>1. OweFrom(at + 1) = {}
  BY OweNone
<1> QED
  BY <1>1 DEF Total, OweFile

(* The sum, step by step.                                                  *)
LEMMA NextAdding ==
  ASSUME TypeOK, Counted, Slugs, Skipping, Decoded, Recorded, RefsAreOwn, Names, Ordered,
         Kept, Undisturbed, Plain, [Next]_vars, ~(FileFails \/ TemplateFails \/ ReadFails)
  PROVE  Adding'
<1> USE DEF Run
<1>0. Adding /\ Making /\ lost = {}
  BY DEF Undisturbed
<1>1. CASE StartRun
  <2>1. /\ folder' = folder /\ nb' = nb /\ listed' = {} /\ at' = 0 /\ pc = "idle"
        /\ pc' = "next" /\ last' = last /\ run' = run + 1
    BY <1>1 DEF StartRun
  <2>2. OweFrom(1)' = OweFrom(1)
    BY <2>1, OweSame
  <2>3. Total' = OweFrom(1)'
    <3>1. (at + 1)' = 1
      BY <2>1
    <3>2. OweFrom(at + 1)' = OweFrom(1)'
      BY <3>1 DEF OweFrom
    <3> QED
      BY <2>1, <3>2 DEF Total, OweFile
  <2>4. run' > 1 => OweFrom(1) = Owed
    BY <1>0, <2>1 DEF Adding, Counted
  <2>5. Owed' = Owed
    BY <2>1 DEF Owed
  <2> QED
    BY <2>1, <2>2, <2>3, <2>4, <2>5 DEF Adding
<1>2. CASE NextFile
  <2>1. /\ folder' = folder /\ nb' = nb /\ listed' = listed /\ at' = at + 1 /\ pc = "next"
        /\ apply' = apply /\ last' = last /\ run' = run
        /\ at + 1 \in 1 .. Len(folder) /\ at \in Nat
    BY <1>2, Standing DEF NextFile
  <2>2. Candidate(at + 1) <=> pc' = "manufacturer"
    <3>1. (at + 1) - 1 = at
      BY <2>1
    <3> QED
      BY <1>2, <3>1 DEF NextFile, Claimed, Candidate, Importable, Alone
  <2>3. pc' # "manufacturer" => pc' = "next"
    BY <1>2 DEF NextFile
  <2>4. PICK n \in 1 .. Len(folder) : n = at + 1
    BY <2>1
  <2>5. OweFrom(n) = (IF Candidate(n) THEN Owe(n) ELSE {}) \cup OweFrom(n + 1)
    BY OweSplit
  <2>6. OweFile' = IF Candidate(n) THEN Owe(n) ELSE {}
    <3>1. Owe(n)' = Owe(n)
      BY <2>1, OweSame
    <3>2. CASE Candidate(n)
      BY <2>1, <2>2, <2>4, <3>1, <3>2 DEF OweFile
    <3>3. CASE ~Candidate(n)
      BY <2>2, <2>3, <2>4, <3>3 DEF OweFile
    <3> QED
      BY <3>2, <3>3
  <2>7. OweFrom(at + 1)' = OweFrom(n + 1)
    <3>1. OweFrom(n + 1)' = OweFrom(n + 1)
      BY <2>1, OweSame
    <3>2. (at + 1)' = n + 1
      BY <2>1, <2>4
    <3>3. OweFrom(at + 1)' = OweFrom(n + 1)'
      BY <3>2 DEF OweFrom
    <3> QED
      BY <3>1, <3>3
  <2>8. Total = listed \cup OweFrom(n)
    BY <2>1, <2>4 DEF Total, OweFile
  <2>9. Total' = listed \cup OweFile' \cup OweFrom(at + 1)'
    BY <2>1 DEF Total
  <2>10. Total' = Total
    BY <2>5, <2>6, <2>7, <2>8, <2>9
  <2> QED
    BY <1>0, <2>1, <2>2, <2>3, <2>10, AddingStays
<1>3. CASE Manufacturer
  <2>1. Total' = Total
    BY <1>0, <1>3, ManufacturerAdds
  <2>2. /\ run' = run /\ last' = last /\ apply' = apply /\ folder' = folder
        /\ pc # "idle" /\ pc' # "idle" /\ (~apply => nb' = nb)
    BY <1>3 DEF Manufacturer
  <2> QED
    BY <1>0, <2>1, <2>2, AddingStays
<1>4. CASE DeviceType
  <2>1. Total' = Total
    BY <1>4, DeviceTypeAdds
  <2>2. /\ run' = run /\ last' = last /\ apply' = apply /\ folder' = folder
        /\ pc # "idle" /\ pc' # "idle" /\ (~apply => nb' = nb)
    BY <1>4 DEF DeviceType
  <2> QED
    BY <1>0, <2>1, <2>2, AddingStays
<1>5. CASE TemplateStep
  <2>0. Distinct(folder[at])
    BY <1>5, AtATemplate, Standing DEF Plain, Busy
  <2>1. Total' = Total
    BY <1>0, <1>5, <2>0, TemplateAdds
  <2>2. /\ run' = run /\ last' = last /\ apply' = apply /\ folder' = folder
        /\ pc # "idle" /\ pc' # "idle"
    BY <1>5, AtATemplate
  <2>3. ~apply => nb' = nb
    BY <1>5 DEF TemplateStep, KeepTemplate, BlockTemplate, PlanTemplate, CreateTemplate, ToCreate
  <2> QED
    BY <1>0, <2>1, <2>2, <2>3, AddingStays
<1>6. CASE EndFile
  <2>1. /\ folder' = folder /\ nb' = nb /\ listed' = listed \cup notes.changes /\ at' = at
        /\ pc = "templates" /\ pc' = "next" /\ todo = {}
        /\ apply' = apply /\ last' = last /\ run' = run
    BY <1>6 DEF EndFile
  <2>2. OweFrom(at + 1)' = OweFrom(at + 1)
    <3>1. PICK n : n = at + 1
      OBVIOUS
    <3>2. OweFrom(n)' = OweFrom(n)
      BY <2>1, OweSame
    <3> QED
      BY <2>1, <3>1, <3>2
  <2>3. OweFile = notes.changes /\ OweFile' = {}
    BY <2>1 DEF OweFile, OweItems
  <2>4. Total' = Total
    BY <2>1, <2>2, <2>3 DEF Total
  <2> QED
    BY <1>0, <2>1, <2>4, AddingStays
<1>7. CASE EndRun
  <2>1. /\ folder' = folder /\ nb' = nb /\ pc = "next" /\ pc' = "idle" /\ at = Len(folder)
        /\ last'.apply = apply /\ last'.listed = listed /\ apply' = apply
    BY <1>7 DEF EndRun
  <2>2. OweFrom(1)' = OweFrom(1)
    BY <2>1, OweSame
  <2>3. Total = listed
    BY <2>1, AllListed
  <2>4. ~apply => OweFrom(1) = listed
    BY <1>0, <2>1, <2>3 DEF Adding
  <2>5. apply => OweFrom(1) = {}
    BY <2>1, ApplyOwesNothing
  <2>6. Owed' = IF apply THEN {} ELSE listed
    BY <2>1 DEF Owed
  <2> QED
    BY <2>1, <2>2, <2>4, <2>5, <2>6 DEF Adding
<1>8. CASE UNCHANGED vars
  <2>1. /\ folder' = folder /\ nb' = nb /\ pc' = pc /\ run' = run /\ last' = last
        /\ apply' = apply
    BY <1>8 DEF vars
  <2>2. pc = "idle" => Adding'
    BY <1>0, <2>1, OweSame DEF Adding, Owed
  <2>3. Total' = Total
    <3>1. OweFrom(at + 1)' = OweFrom(at + 1)
      <4>1. PICK n : n = at + 1
        OBVIOUS
      <4>2. OweFrom(n)' = OweFrom(n)
        BY <2>1, OweSame
      <4> QED
        BY <1>8, <4>1, <4>2 DEF vars
    <3>2. OweFile' = OweFile
      <4>1. /\ at' = at /\ todo' = todo /\ notes' = notes /\ listed' = listed /\ File' = File
        BY <1>8 DEF vars, File
      <4> QED
        BY <2>1, <4>1, OweSame DEF OweFile
    <3> QED
      BY <1>8, <3>1, <3>2 DEF vars, Total
  <2> QED
    BY <1>0, <2>1, <2>2, <2>3, AddingStays
<1>9. ~DecodeFails
  <2>1. at + 1 \in 1 .. Len(folder) \/ ~(at < Len(folder))
    BY Standing
  <2> QED
    BY <2>1 DEF DecodeFails, Plain
<1> QED
  BY <1>1, <1>2, <1>3, <1>4, <1>5, <1>6, <1>7, <1>8, <1>9 DEF Next, TemplateStep

(* Which manufacturers were planned or made, step by step.                 *)
LEMMA NextMaking ==
  ASSUME TypeOK, Counted, Slugs, Recorded, Ordered, Undisturbed, [Next]_vars,
         ~(FileFails \/ TemplateFails \/ ReadFails)
  PROVE  Making'
<1> USE DEF Run
<1>0. Making
  BY DEF Undisturbed
<1>1. CASE StartRun
  <2>1. planned' = {} /\ at' = 0 /\ 1 .. 0 = {}
    BY <1>1 DEF StartRun
  <2> QED
    BY <2>1 DEF Making
<1>2. CASE NextFile
  <2>1. /\ folder' = folder /\ nb' = nb /\ at' = at + 1 /\ pc = "next" /\ apply' = apply
        /\ planned' = planned /\ at \in Nat
    BY <1>2, Standing DEF NextFile
  <2>2. Candidate(at + 1) => pc' = "manufacturer"
    <3>1. (at + 1) - 1 = at
      BY <2>1
    <3> QED
      BY <1>2, <3>1 DEF NextFile, Claimed, Candidate, Importable, Alone
  <2>3. \A i : Candidate(i)' <=> Candidate(i)
    BY <2>1 DEF Candidate, Alone, Importable, Loads
  <2>4. \A i \in 1 .. at : Passed(i)' <=> Passed(i)
    BY <2>1, <2>3 DEF Passed
  <2>5. PICK n : n = at + 1
    OBVIOUS
  <2>6. \A i : i \in (1 .. at)' <=> (i \in 1 .. at \/ i = n)
    BY <2>1, <2>5
  <2>7. \A i : Maker(i)' = Maker(i)
    BY <2>1 DEF Maker
  <2>8. \A i : (i \in (1 .. at)' /\ Passed(i)') <=> (i \in 1 .. at /\ Passed(i))
    <3>1. ~Passed(n)'
      BY <2>1, <2>2, <2>3, <2>5 DEF Passed
    <3>2. ~(n \in 1 .. at)
      BY <2>1, <2>5
    <3> QED
      BY <2>4, <2>6, <3>1, <3>2
  <2>9. apply => (\A i \in 1 .. at : Passed(i) => Maker(i) \in nb.manufacturers)'
    <3>1. apply => \A i \in 1 .. at : Passed(i) => Maker(i) \in nb.manufacturers
      BY <1>0, <2>1 DEF Making
    <3> QED
      BY <2>1, <2>7, <2>8, <3>1
  <2>10. ~apply => (\A m : m \in planned <=>
             \E i \in 1 .. at : Passed(i) /\ Maker(i) = m /\ m \notin nb.manufacturers)'
    <3>1. ~apply => \A m : m \in planned <=>
             \E i \in 1 .. at : Passed(i) /\ Maker(i) = m /\ m \notin nb.manufacturers
      BY <1>0, <2>1 DEF Making
    <3> QED
      BY <2>1, <2>7, <2>8, <3>1
  <2> QED
    BY <2>1, <2>9, <2>10 DEF Making
<1>3. CASE Manufacturer
  <2>1. /\ folder' = folder /\ at' = at /\ pc = "manufacturer" /\ pc' = "type" /\ apply' = apply
        /\ planned' = (IF NewManufacturer THEN planned \cup {File.manufacturer} ELSE planned)
        /\ nb' = (IF apply THEN WithManufacturer ELSE nb)
    BY <1>3 DEF Manufacturer
  <2>2. at \in 1 .. Len(folder) /\ Len(folder) \in Nat /\ Candidate(at)
    BY <2>1, Standing DEF Busy, Slugs, Candidate, File
  <2>3. \A i \in 1 .. at : Passed(i)' <=> Passed(i) \/ i = at
    <3>1. \A i : Candidate(i)' <=> Candidate(i)
      BY <2>1 DEF Candidate, Alone, Importable, Loads
    <3> QED
      BY <2>1, <2>2, <3>1 DEF Passed
  <2>4. ~Passed(at) /\ at \in 1 .. at
    BY <2>1, <2>2 DEF Passed
  <2>5. \A i : Maker(i)' = Maker(i)
    BY <2>1 DEF Maker
  <2>6. Maker(at) = File.manufacturer
    BY DEF Maker, File
  <2>7. CASE apply
    <3>1. nb'.manufacturers = nb.manufacturers \cup {File.manufacturer}
      BY <2>1, <2>7 DEF WithManufacturer, Recorded
    <3> QED
      BY <1>0, <2>1, <2>3, <2>5, <2>6, <2>7, <3>1 DEF Making
  <2>8. CASE ~apply
    BY <1>0, <2>1, <2>3, <2>4, <2>5, <2>6, <2>8 DEF Making, NewManufacturer
  <2> QED
    BY <2>7, <2>8
<1>4. ASSUME folder' = folder, at' = at, apply' = apply, planned' = planned,
             nb'.manufacturers = nb.manufacturers, pc # "idle", pc # "manufacturer",
             pc' # "manufacturer"
      PROVE  Making'
  <2>1. \A i : Passed(i)' <=> Passed(i)
    BY <1>4 DEF Passed, Candidate, Alone, Importable, Loads
  <2> QED
    BY <1>0, <1>4, <2>1 DEF Making, Maker
<1>5. CASE DeviceType \/ EndFile
  BY <1>4, <1>5 DEF DeviceType, EndFile, WithType, Recorded
<1>6. CASE TemplateStep
  <2>1. nb'.manufacturers = nb.manufacturers
    BY <1>6 DEF TemplateStep, KeepTemplate, BlockTemplate, PlanTemplate, CreateTemplate, Recorded
  <2> QED
    BY <1>4, <1>6, <2>1, AtATemplate
<1>7. CASE EndRun \/ DecodeFails
  BY <1>7 DEF EndRun, DecodeFails, Making
<1>8. CASE UNCHANGED vars
  <2>1. \A i : (Passed(i)' <=> Passed(i)) /\ Maker(i)' = Maker(i)
    BY <1>8 DEF vars, Passed, Candidate, Alone, Importable, Loads, Maker
  <2> QED
    BY <1>0, <1>8, <2>1 DEF vars, Making
<1> QED
  BY <1>1, <1>2, <1>3, <1>5, <1>6, <1>7, <1>8 DEF Next, TemplateStep

(* As long as nothing goes wrong, every step leaves the sum.               *)
LEMMA NextUndisturbed == IInv /\ RInv /\ [Next]_vars => RInv'
<1> SUFFICES ASSUME IInv, RInv, [Next]_vars PROVE RInv'
  OBVIOUS
<1> USE DEF Run
<1>1. CASE FileFails \/ TemplateFails \/ ReadFails
  <2>1. mishaps' = mishaps + 1 /\ mishaps \in Nat
    BY <1>1 DEF FileFails, TemplateFails, ReadFails, RInv
  <2> QED
    BY <2>1 DEF RInv
<1>2. CASE ~(FileFails \/ TemplateFails \/ ReadFails)
  <2>1. mishaps' = mishaps
    BY <1>2 DEF Next, StartRun, NextFile, Manufacturer, DeviceType, KeepTemplate, BlockTemplate,
         PlanTemplate, CreateTemplate, EndFile, EndRun, DecodeFails, vars
  <2>2. /\ hit' = hit \/ hit' = {}
        /\ lost' = lost \/ lost' = {}
        /\ folder' = folder
    BY <1>2 DEF Next, StartRun, NextFile, Manufacturer, DeviceType, KeepTemplate, BlockTemplate,
         PlanTemplate, CreateTemplate, EndFile, EndRun, DecodeFails, AtTemplate, vars
  <2>3. ASSUME Undisturbed, Plain PROVE Undisturbed'
    <3>1. Adding' /\ Making'
      BY <1>2, <2>3, NextAdding, NextMaking DEF IInv
    <3> QED
      BY <2>2, <2>3, <3>1 DEF Undisturbed
  <2>4. Plain' <=> Plain
    BY <2>2 DEF Plain, Distinct
  <2> QED
    BY <2>1, <2>3, <2>4 DEF RInv
<1> QED
  BY <1>1, <1>2

(* Undisturbed, an apply makes what the plan before it listed, and nothing *)
(* after another apply, for any folder whose files name each component     *)
(* once, and whatever NetBox holds.                                        *)
THEOREM RunsAlike == Spec => RunsAgree
<1>1. Init => RInv
  BY DEF Init, RInv, Undisturbed, Adding, Making
<1>2. IInv /\ RInv /\ [Next]_vars => RInv'
  BY NextUndisturbed
<1>3. IInv /\ RInv /\ EndRun /\ run > 1 /\ mishaps = 0
      /\ (\A i \in DOMAIN folder : Distinct(folder[i]))
        => listed = IF last.apply THEN {} ELSE last.listed
  <2> SUFFICES ASSUME IInv, RInv, EndRun, run > 1, mishaps = 0,
                      \A i \in DOMAIN folder : Distinct(folder[i])
               PROVE  listed = Owed
    BY DEF Owed
  <2>0. Plain
    BY Folder DEF IInv, Decoded, EndRun, Plain
  <2>1. pc = "next" /\ at = Len(folder) /\ Adding
    BY <2>0 DEF EndRun, RInv, Undisturbed
  <2>2. Total = listed
    BY <2>1, AllListed DEF IInv
  <2> QED
    BY <2>1, <2>2 DEF Adding
<1> QED
  BY <1>1, <1>2, <1>3, Invariance, PTL DEF Spec, RunsAgree
=============================================================================
