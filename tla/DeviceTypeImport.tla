-------------------------- MODULE DeviceTypeImport --------------------------
(***************************************************************************)
(* `netbox import-device-type` (tools/netbox/import_device_type.py): the   *)
(* YAML files of a folder are imported one after the other, each as a      *)
(* manufacturer, a device type and its templates, with a NetBox that       *)
(* refuses requests, loses answers or cannot be read, and runs that take   *)
(* up what an earlier one left.  A single file is a folder of one.         *)
(*                                                                         *)
(* A file is a record [text, yaml, slug, manufacturer, items], text saying *)
(* that it decodes and yaml that it is a mapping; an item of it is         *)
(* [cat, name, ref], where "" is none.  Names are without their case, as   *)
(* the code compares them, and a manufacturer is its slug, NoSlug when     *)
(* there is nothing in its name to make one of.  A template in NetBox is   *)
(* known by its id <<slug, cat, name>>, and refers to the id of another or *)
(* to NoRef.                                                               *)
(***************************************************************************)
EXTENDS Naturals, Sequences, SequencesExt

CONSTANTS
    Folders,        \* the folders that may be imported: sequences of files
    Contents,       \* what NetBox may hold at first
    MaxMishaps,     \* bound: requests that fail or lose their answer
    MaxRuns         \* bound: runs one after the other

\* The order in which the templates are created, and what each refers to.
Categories ==
    << "console-ports", "console-server-ports", "power-ports", "power-outlets",
       "rear-ports", "front-ports", "device-bays", "module-bays", "interfaces" >>
RefCategory(cat) == IF cat = "power-outlets" THEN "power-ports" ELSE "rear-ports"
Rank(cat) == CHOOSE c \in DOMAIN Categories : Categories[c] = cat

NoSlug == "-"
Loads(file) ==
    /\ file.text /\ file.yaml /\ file.manufacturer # "" /\ file.slug # ""
    /\ \A item \in Range(file.items) : item.name # ""
Importable(file) == Loads(file) /\ file.manufacturer # NoSlug

NoRef == << >>
IdOf(slug, item) == <<slug, item.cat, item.name>>
RefOf(slug, item) ==
    IF item.ref = "" THEN NoRef ELSE <<slug, RefCategory(item.cat), item.ref>>

\* Nothing else is read of a file, and only two categories refer to another.
ASSUME FoldersAssumption ==
    \A files \in Folders :
        /\ files \in Seq(Range(files))
        /\ \A file \in Range(files) :
              /\ file.items \in Seq(Range(file.items))
              /\ \A item \in Range(file.items) :
                    /\ item.cat \in Range(Categories)
                    /\ item.ref # "" => item.cat \in {"power-outlets", "front-ports"}
\* NetBox: a template refers to one of its own device type.
ASSUME ContentsAssumption ==
    \A content \in Contents :
        /\ DOMAIN content = {"manufacturers", "types", "templates"}
        /\ \A t \in content.templates :
              /\ t.id = <<t.id[1], t.id[2], t.id[3]>>
              /\ t.ref # NoRef => /\ \E u \in content.templates : u.id = t.ref
                                  /\ t.ref[1] = t.id[1]

-----------------------------------------------------------------------------
VARIABLES
    folder,     \* the files, sorted by name
    nb,         \* NetBox: manufacturers, types (slugs) and templates
    pc, apply,
    at,         \* the number of the file being imported
    todo,       \* the numbers of its items still to look at
    names,      \* name_maps: the ids of the templates known of its type
    notes,      \* its changes, blocked and failures
    planned,    \* planned_manufacturers
    results,    \* the status of each file: results, failed and skipped
    listed,     \* the changes of all files
    hit,        \* the files given up in this run: their maker or type failed
    lost,       \* the templates whose request failed in this run
    unread,     \* the file at which a read failed in this run, or 0
    last,       \* what the run before listed and how it ended
    mishaps, run

vars == <<folder, nb, pc, apply, at, todo, names, notes, planned, results,
          listed, hit, lost, unread, last, mishaps, run>>
Run == <<folder, apply, unread, last, run>>

NoNotes == [changes |-> {}, blocked |-> {}, failures |-> {}]
File == folder[at]

Init ==
    /\ folder \in Folders /\ nb \in Contents
    /\ pc = "idle" /\ apply = FALSE /\ at = 0 /\ todo = {} /\ names = {}
    /\ notes = NoNotes /\ planned = {} /\ results = << >> /\ listed = {}
    /\ hit = {} /\ lost = {} /\ unread = 0 /\ mishaps = 0 /\ run = 0
    /\ last = [apply |-> FALSE, listed |-> {}, status |-> "none"]

StartRun ==
    /\ pc = "idle" /\ run < MaxRuns
    /\ apply' \in BOOLEAN
    /\ pc' = "next" /\ at' = 0 /\ run' = run + 1
    /\ planned' = {} /\ results' = << >> /\ listed' = {}
    /\ hit' = {} /\ lost' = {} /\ unread' = 0
    /\ UNCHANGED <<folder, nb, todo, names, notes, last, mishaps>>

\* An earlier file has the slug: one that loads, whatever became of it.
Claimed(i) == \E j \in 1 .. (i - 1) : Loads(folder[j]) /\ folder[j].slug = folder[i].slug

\* A file that cannot be loaded is an error, and so is a manufacturer
\* that no slug can be made of.
NextFile ==
    /\ pc = "next" /\ at < Len(folder) /\ folder[at + 1].text
    /\ at' = at + 1
    /\ LET file == folder[at + 1]
       IN  IF Importable(file) /\ ~Claimed(at + 1)
           THEN pc' = "manufacturer" /\ notes' = NoNotes /\ UNCHANGED results
           ELSE /\ results' = Append(results, IF Loads(file) /\ Claimed(at + 1)
                                             THEN "skipped" ELSE "error")
                /\ UNCHANGED <<pc, notes>>
    /\ UNCHANGED <<nb, todo, names, planned, listed, hit, lost, mishaps>> /\ UNCHANGED Run

\* A file that does not decode raises no ToolError: it ends the folder.
DecodeFails ==
    /\ pc = "next" /\ at < Len(folder) /\ ~folder[at + 1].text
    /\ last' = [apply |-> apply, listed |-> {}, status |-> "error"]
    /\ pc' = "idle"
    /\ UNCHANGED <<folder, nb, apply, at, todo, names, notes, planned, results,
                   listed, hit, lost, unread, mishaps, run>>

-----------------------------------------------------------------------------
(* The objects of one file.                                                *)

NewManufacturer == File.manufacturer \notin nb.manufacturers
WithManufacturer == [nb EXCEPT !.manufacturers = @ \cup {File.manufacturer}]

\* Mutant of Manufacturer: each file of a plan lists its manufacturer.
ManufacturerEachFile ==
    /\ pc = "manufacturer"
    /\ notes' = [notes EXCEPT !.changes =
                    IF NewManufacturer THEN {<<at, File.manufacturer>>} ELSE {}]
    /\ planned' = IF NewManufacturer THEN planned \cup {File.manufacturer} ELSE planned
    /\ nb' = IF apply THEN WithManufacturer ELSE nb
    /\ pc' = "type"
    /\ UNCHANGED <<at, todo, names, results, listed, hit, lost, mishaps>> /\ UNCHANGED Run

\* A plan lists a new manufacturer once.
Manufacturer ==
    /\ pc = "manufacturer"
    /\ notes' = [notes EXCEPT !.changes =
                    IF NewManufacturer /\ (apply \/ File.manufacturer \notin planned)
                    THEN {<<at, File.manufacturer>>} ELSE {}]
    /\ planned' = IF NewManufacturer THEN planned \cup {File.manufacturer} ELSE planned
    /\ nb' = IF apply THEN WithManufacturer ELSE nb
    /\ pc' = "type"
    /\ UNCHANGED <<at, todo, names, results, listed, hit, lost, mishaps>> /\ UNCHANGED Run

NewType == File.slug \notin nb.types
WithType == [nb EXCEPT !.types = @ \cup {File.slug}]

\* The templates to go through, a type that was there included.
Templates == DOMAIN File.items

\* Mutant of Existing: the names of the file before stay known.
ExistingAndEarlier == names \cup {t.id : t \in {u \in nb.templates : u.id[1] = File.slug}}

\* The templates NetBox has of the type; a new type is not asked for any.
Existing == {t.id : t \in {u \in nb.templates : u.id[1] = File.slug}}

DeviceType ==
    /\ pc = "type"
    /\ notes' = [notes EXCEPT !.changes =
                    @ \cup (IF NewType THEN {<<at, File.slug>>} ELSE {})]
    /\ nb' = IF apply THEN WithType ELSE nb
    /\ todo' = Templates
    /\ names' = Existing
    /\ pc' = "templates"
    /\ UNCHANGED <<at, planned, results, listed, hit, lost, mishaps>> /\ UNCHANGED Run

\* Mutant of FileFails: the error is not caught.
FileFailsUncaught ==
    /\ apply /\ mishaps < MaxMishaps /\ pc = "manufacturer" /\ NewManufacturer
    /\ last' = [apply |-> apply, listed |-> {}, status |-> "error"]
    /\ hit' = hit \cup {at}
    /\ mishaps' = mishaps + 1
    /\ pc' = "idle"
    /\ UNCHANGED <<folder, nb, apply, at, todo, names, notes, planned, results,
                   listed, lost, unread, run>>

\* ToolError: the file is given up, whatever NetBox did with the request.
FileFails ==
    /\ apply /\ mishaps < MaxMishaps
    /\ \/ pc = "manufacturer" /\ NewManufacturer /\ nb' \in {nb, WithManufacturer}
       \/ pc = "type" /\ NewType /\ nb' \in {nb, WithType}
    /\ planned' = IF pc = "manufacturer" THEN planned \cup {File.manufacturer} ELSE planned
    /\ results' = Append(results, "error")
    /\ hit' = hit \cup {at}
    /\ mishaps' = mishaps + 1
    /\ pc' = "next"
    /\ UNCHANGED <<at, todo, names, notes, listed, lost>> /\ UNCHANGED Run

-----------------------------------------------------------------------------
(* The templates, one by one.                                              *)

\* Category by category, and in the order of the file.
Sooner(i, j) ==
    LET Of(k) == Rank(File.items[k].cat)
    IN  Of(i) < Of(j) \/ (Of(i) = Of(j) /\ i < j)
NextItem == CHOOSE i \in todo : \A j \in todo \ {i} : Sooner(i, j)
Item == File.items[NextItem]
Named(cat, name) == {id \in names : id[2] = cat /\ id[3] = name}
Known(item) == Named(item.cat, item.name) # {}
RefKnown(item) ==
    \/ item.ref = ""
    \/ Named(RefCategory(item.cat), item.ref) # {}
    \/ \E i \in DOMAIN File.items : /\ File.items[i].cat = RefCategory(item.cat)
                                    /\ File.items[i].name = item.ref
RefMade(item) == item.ref = "" \/ Named(RefCategory(item.cat), item.ref) # {}
Template(item) ==
    [ id  |-> IdOf(File.slug, item),
      ref |-> IF item.ref = "" THEN NoRef
              ELSE CHOOSE id \in Named(RefCategory(item.cat), item.ref) : TRUE ]

\* A line of a report; a component named twice in a file has two.
Entry(i, k) ==
    LET item == folder[i].items[k] IN <<folder[i].slug, item.cat, item.name, k>>
Noted(kinds) ==
    [ k \in DOMAIN notes |->
        IF k \in kinds THEN notes[k] \cup {Entry(at, NextItem)} ELSE notes[k] ]

AtTemplate ==
    /\ pc = "templates" /\ todo # {}
    /\ todo' = todo \ {NextItem}
    /\ UNCHANGED <<pc, at, planned, results, listed>> /\ UNCHANGED Run

KeepTemplate ==
    /\ AtTemplate /\ Known(Item)
    /\ UNCHANGED <<nb, names, notes, hit, lost, mishaps>>

\* A reference is unknown, or it is known and could not be created before.
BlockTemplate ==
    /\ AtTemplate /\ ~Known(Item)
    /\ \/ ~RefKnown(Item) /\ notes' = Noted({"blocked"})
       \/ /\ RefKnown(Item) /\ apply /\ ~RefMade(Item)
          /\ notes' = Noted({"changes", "blocked"})
    /\ UNCHANGED <<nb, names, hit, lost, mishaps>>

PlanTemplate ==
    /\ AtTemplate /\ ~Known(Item) /\ RefKnown(Item) /\ ~apply
    /\ notes' = Noted({"changes"})
    /\ UNCHANGED <<nb, names, hit, lost, mishaps>>

ToCreate == ~Known(Item) /\ RefKnown(Item) /\ RefMade(Item) /\ apply

CreateTemplate ==
    /\ AtTemplate /\ ToCreate
    /\ nb' = [nb EXCEPT !.templates = @ \cup {Template(Item)}]
    /\ names' = names \cup {IdOf(File.slug, Item)}
    /\ notes' = Noted({"changes"})
    /\ UNCHANGED <<hit, lost, mishaps>>

\* Refused, or carried out and the answer lost; the next one is tried.
TemplateFails ==
    /\ AtTemplate /\ ToCreate /\ mishaps < MaxMishaps
    /\ nb' \in {nb, [nb EXCEPT !.templates = @ \cup {Template(Item)}]}
    /\ notes' = Noted({"changes", "failures"})
    /\ lost' = lost \cup {IdOf(File.slug, Item)}
    /\ mishaps' = mishaps + 1
    /\ UNCHANGED <<names, hit>>

-----------------------------------------------------------------------------
(* Results.                                                                *)

\* Mutant of FileStatus: what is blocked is only noted.
FileStatusOfFailures ==
    CASE notes.failures # {} /\ notes.changes # {} -> "partial"
      [] notes.failures # {} /\ notes.changes = {} -> "error"
      [] notes.changes # {} /\ notes.failures = {} /\ apply -> "changed"
      [] notes.changes # {} /\ notes.failures = {} /\ ~apply -> "drift"
      [] OTHER -> "ok"

FileStatus ==
    LET wrong == notes.failures \cup notes.blocked IN
    CASE wrong # {} /\ notes.changes # {} -> "partial"
      [] wrong # {} /\ notes.changes = {} -> "error"
      [] wrong = {} /\ notes.changes # {} /\ apply -> "changed"
      [] wrong = {} /\ notes.changes # {} /\ ~apply -> "drift"
      [] OTHER -> "ok"

EndFile ==
    /\ pc = "templates" /\ todo = {}
    /\ results' = Append(results, FileStatus)
    /\ listed' = listed \cup notes.changes
    /\ pc' = "next"
    /\ UNCHANGED <<nb, at, todo, names, notes, planned, hit, lost, mishaps>>
    /\ UNCHANGED Run

With(status) == {i \in DOMAIN results : results[i] = status}

FolderStatus ==
    CASE With("error") # {} /\ DOMAIN results = With("error") \cup With("skipped")
            -> "error"
      [] With("error") \cup With("partial") # {}
         /\ DOMAIN results # With("error") \cup With("skipped") -> "partial"
      [] With("error") \cup With("partial") = {} /\ With("changed") # {} -> "changed"
      [] With("error") \cup With("partial") \cup With("changed") = {}
         /\ With("drift") # {} -> "drift"
      [] OTHER -> "ok"

EndRun ==
    /\ pc = "next" /\ at = Len(folder)
    /\ last' = [apply |-> apply, listed |-> listed, status |-> FolderStatus]
    /\ pc' = "idle"
    /\ UNCHANGED <<folder, nb, apply, at, todo, names, notes, planned, results,
                   listed, hit, lost, unread, mishaps, run>>

\* A read that fails is no ToolError: it ends the whole folder.
ReadFails ==
    /\ pc \in {"manufacturer", "type"} /\ mishaps < MaxMishaps
    /\ last' = [apply |-> apply, listed |-> {}, status |-> "error"]
    /\ hit' = hit \cup {at} /\ unread' = at
    /\ mishaps' = mishaps + 1
    /\ pc' = "idle"
    /\ UNCHANGED <<folder, nb, apply, at, todo, names, notes, planned, results,
                   listed, lost, run>>

Next ==
    \/ StartRun \/ NextFile \/ DecodeFails
    \/ Manufacturer \/ DeviceType \/ FileFails \/ KeepTemplate \/ BlockTemplate
    \/ PlanTemplate \/ CreateTemplate \/ TemplateFails \/ EndFile \/ EndRun \/ ReadFails

Spec == Init /\ [][Next]_vars

-----------------------------------------------------------------------------
TypeOK ==
    /\ pc \in {"idle", "next", "manufacturer", "type", "templates"}
    /\ at \in 0 .. Len(folder) /\ unread \in 0 .. Len(folder)
    /\ hit \subseteq 1 .. Len(folder)
    /\ \A r \in Range(results) :
          r \in {"ok", "drift", "changed", "partial", "error", "skipped"}

Ids == {t.id : t \in nb.templates}
Imported(file) ==
    /\ file.manufacturer \in nb.manufacturers /\ file.slug \in nb.types
    /\ \A item \in Range(file.items) : IdOf(file.slug, item) \in Ids
Ran == {i \in DOMAIN results : Importable(folder[i]) /\ results[i] # "skipped"}

(* A run that ends green leaves nothing of its files out: an apply that    *)
(* ends OK or CHANGED, or a plan that ends OK, has every manufacturer,     *)
(* device type and template of every file it did not skip in NetBox.       *)
GreenMeansImported ==
    (/\ pc = "idle" /\ run > 0
     /\ last.status \in (IF last.apply THEN {"ok", "changed"} ELSE {"ok"}))
    => \A i \in 1 .. Len(folder) :
          results[i] = "skipped" \/ (i \in Ran /\ Imported(folder[i]))

(* One bad file or request does not stop the rest, and a run takes up what *)
(* one before it left half done.  Up to a file that does not decode or at  *)
(* which NetBox could not be read, every file is dealt with, whatever the  *)
(* others came to; and an apply has each that can be imported, that shares *)
(* its slug with none before it, and that was not given up, in NetBox,     *)
(* short of the templates whose own request failed, and of those that      *)
(* refer to one of these or to one nobody has.                             *)
Reached(i) == \A j \in 1 .. i : folder[j].text /\ j # unread
Settled(slug, item) ==
    \/ IdOf(slug, item) \in Ids \cup lost
    \/ item.ref # "" /\ (RefOf(slug, item) \notin Ids \/ RefOf(slug, item) \in lost)
FailureStaysInItsFile ==
    (pc = "idle" /\ run > 0)
    => \A i \in 1 .. Len(folder) :
          Reached(i) =>
            /\ i \in DOMAIN results
            /\ apply /\ Importable(folder[i]) /\ ~Claimed(i) /\ i \notin hit =>
                 /\ folder[i].manufacturer \in nb.manufacturers
                 /\ folder[i].slug \in nb.types
                 /\ \A item \in Range(folder[i].items) : Settled(folder[i].slug, item)

(* "One file that can't be read or created is reported and the rest still  *)
(* run" (import_device_type.py:35-36), were it so: while NetBox can be     *)
(* read, a run has a result for every file.  A file that does not decode   *)
(* ends the folder (MCDeviceTypeImportText.cfg).                           *)
BadFileStopsNothing ==
    (pc = "idle" /\ run > 0 /\ unread = 0) => DOMAIN results = 1 .. Len(folder)

(* A power outlet or front port refers to a power or rear port of its own  *)
(* device type, one that exists, although the files of a folder use the    *)
(* same names.                                                             *)
RefsAreOwn ==
    \A t \in nb.templates : t.ref # NoRef => t.ref \in Ids /\ t.ref[1] = t.id[1]

(* Undisturbed, an apply makes what the plan before it listed, file by     *)
(* file and each object once, and nothing after another apply.  No file    *)
(* may name a component twice: a plan lists it twice, an apply makes one.  *)
Distinct(file) ==
    \A k, l \in DOMAIN file.items :
       file.items[k].cat = file.items[l].cat /\ file.items[k].name = file.items[l].name
       => k = l
RunsAgree ==
    [][ (EndRun /\ run > 1 /\ mishaps = 0 /\ \A i \in DOMAIN folder : Distinct(folder[i]))
        => listed = IF last.apply THEN {} ELSE last.listed ]_vars
=============================================================================
