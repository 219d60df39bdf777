---------------------------- MODULE ZipappProofs ----------------------------
(* For every set of builds, programs, revisions and versions, and every      *)
(* number of edits: Zipapp keeps its types; whatever lies under the          *)
(* artifact's name, or is read by a program that opened it, is whole; and    *)
(* builds of the same inputs write the same archive.                         *)
EXTENDS Zipapp, TLAPS, FiniteSetTheorems

\* What is staged and not yet written, together with what is written, is all
\* of the archive; a build that is done, and so any inode a name or a program
\* can hold, is whole and executable.  Builds keep to an inode of their own.
Progress ==
    /\ \A b \in Builders :
          /\ builder[b].at \in {"staged", "made", "writing", "executable"} =>
                \A n \in Names : builder[b].staged[n] # Missing
          /\ builder[b].at \in {"writing", "executable"} =>
                NamesIn(heap[b]) \cup builder[b].left = Names
          /\ builder[b].at = "executable" =>
                builder[b].left = {} /\ mode[b] = "rwxr-xr-x"
          /\ builder[b].at = "done" => Whole(heap[b]) /\ mode[b] = "rwxr-xr-x"
          /\ builder[b].at = "source" => builder[b].staged["mfviz"] # Missing
          /\ builder[b].at = "dependency" =>
                builder[b].staged["mfviz"] # Missing /\ builder[b].staged["pymysql"] # Missing
          /\ builder[b].at \in {"checked", "source", "dependency"} =>
                builder[b].version # Missing
    /\ heap[Committed] = Shipped /\ mode[Committed] = "rwxr-xr-x"

Held(f) == f = Committed \/ (f \in Builders /\ builder[f].at = "done")

HoldsWholes ==
    /\ artifact # NoFile => Held(artifact)
    /\ \A r \in Readers :
          /\ reader[r].file # NoFile => Held(reader[r].file)
          /\ reader[r].read => Whole(reader[r].got)

BuildRecord ==
    [at : Steps, version : Versions \cup {Missing},
     staged : [Names -> Contents \cup {Missing}], left : SUBSET Names,
     began : Inputs, steady : BOOLEAN]

Inv == ZipTypeOK /\ Progress /\ HoldsWholes

\* One entry more in the archive.
LEMMA AppendedName ==
    ASSUME NEW h \in Seq(Entries), NEW n \in Names, NEW v \in Contents
    PROVE  /\ Append(h, <<n, v>>) \in Seq(Entries)
           /\ NamesIn(Append(h, <<n, v>>)) = NamesIn(h) \cup {n}
<1> DEFINE e == <<n, v>>
           a == Append(h, e)
<1>1. e \in Entries /\ e[1] = n  BY DEF Entries
<1>2. a \in Seq(Entries) /\ Len(a) = Len(h) + 1 /\ DOMAIN a = 1..(Len(h) + 1)
      /\ a[Len(h) + 1] = e /\ Len(h) \in Nat /\ DOMAIN h = 1..Len(h)
  BY <1>1
<1>3. \A i \in DOMAIN h : a[i] = h[i]  BY <1>1, <1>2
<1>4. NamesIn(a) \subseteq NamesIn(h) \cup {n}
  <2> SUFFICES ASSUME NEW i \in DOMAIN a PROVE a[i][1] \in NamesIn(h) \cup {n}
    BY DEF NamesIn
  <2>1. CASE i \in DOMAIN h  BY <2>1, <1>3 DEF NamesIn
  <2>2. CASE i = Len(h) + 1  BY <2>2, <1>1, <1>2
  <2> QED  BY <2>1, <2>2, <1>2
<1>5. NamesIn(h) \cup {n} \subseteq NamesIn(a)
  <2>1. n \in NamesIn(a)
    <3>1. Len(h) + 1 \in DOMAIN a  BY <1>2
    <3> QED  BY <3>1, <1>1, <1>2 DEF NamesIn
  <2>2. ASSUME NEW i \in DOMAIN h PROVE h[i][1] \in NamesIn(a)
    <3>1. i \in DOMAIN a  BY <1>2
    <3> QED  BY <3>1, <1>3 DEF NamesIn
  <2> QED  BY <2>1, <2>2 DEF NamesIn
<1> QED  BY <1>2, <1>4, <1>5

\* What a reader of the invariant needs: a held inode is whole.
LEMMA HeldIsWhole ==
    ASSUME Inv, NEW f, Held(f)
    PROVE  Whole(heap[f]) /\ mode[f] = "rwxr-xr-x" /\ f \in Files
  BY ZipappAssumption DEF Inv, Progress, Held, Files

LEMMA InvImplies == Inv => ZipTypeOK /\ ArtifactIsWhole
  BY HeldIsWhole DEF Inv, HoldsWholes, ArtifactIsWhole

LEMMA InitInv == Init => Inv
<1> SUFFICES ASSUME Init PROVE Inv  OBVIOUS
<1> USE ZipappAssumption DEF Init, Files
<1>1. ZipTypeOK
  <2>1. inputs \in Inputs  BY DEF Inputs
  <2>2. builder \in [Builders -> BuildRecord]
    BY <2>1 DEF Steps, Nothing, BuildRecord
  <2>3. heap \in [Files -> Seq(Entries)]  OBVIOUS
  <2> QED  BY <2>1, <2>2, <2>3 DEF ZipTypeOK, BuildRecord
<1>2. Progress  BY DEF Progress
<1>3. HoldsWholes  BY DEF HoldsWholes, Held
<1> QED  BY <1>1, <1>2, <1>3 DEF Inv

-----------------------------------------------------------------------------
(* The contents: what a build has staged follows from the inputs it began    *)
(* with, when they did not change under it, and each entry it has written    *)
(* lies where the sorted order puts it.                                      *)

\* The position of an entry in a complete archive.
Place(n) == Cardinality({m \in Names : Rank[m] < Rank[n]}) + 1

\* An archive of these entries, in sorted order, as staged.
SortedArchive(archive, written, staged) ==
    /\ Len(archive) = Cardinality(written)
    /\ \A n \in written :
          Place(n) \in DOMAIN archive /\ archive[Place(n)] = <<n, staged[n]>>
    /\ \A i \in DOMAIN archive : \E n \in written : i = Place(n)

\* Each entry that is left comes after every entry that is written.
InOrder(left) ==
    \A m \in Names \ left, n \in left : Rank[m] < Rank[n]

Late == {"staged", "made", "writing", "executable", "done"}

\* A build, its archive and the inputs.
StagedAsBegun(r) ==
    /\ r.at \in Late \cup {"checked", "source", "dependency"} =>
          r.version = r.began.version
    /\ r.at \in Late \cup {"source", "dependency"} /\ r.steady =>
          r.staged["mfviz"] = r.began.src
    /\ r.at \in Late \cup {"dependency"} => r.staged["pymysql"] = "driver"
    /\ r.at \in Late =>
          /\ r.staged["pymysql.dist-info"] = "licence"
          /\ r.staged["microflows_viz.dist-info"] = r.version
          /\ r.staged["__main__.py"] = "entry"

BeganWith(r, i) == r.at \in Running /\ r.steady => r.began = i

WrittenInOrder(r, archive) ==
    /\ r.at \in {"writing", "executable", "done"} =>
          InOrder(r.left) /\ SortedArchive(archive, Names \ r.left, r.staged)
    /\ r.at \in {"executable", "done"} => r.left = {}

Reproducible ==
    \A b \in Builders :
        /\ StagedAsBegun(builder[b])
        /\ BeganWith(builder[b], inputs)
        /\ WrittenInOrder(builder[b], heap[b])

-----------------------------------------------------------------------------
(* The steps.                                                                *)

\* A step of one build that leaves the files alone and moves it on within the
\* steps before the archive, or stops it.
LEMMA QuietStep ==
    ASSUME Inv, NEW b \in Builders, UntouchedFiles,
           NEW r \in BuildRecord,
           builder' = [builder EXCEPT ![b] = r],
           builder[b].at # "done",
           r.at \notin {"made", "writing", "executable", "done"},
           r.at = "staged" => \A n \in Names : r.staged[n] # Missing,
           r.at = "source" => r.staged["mfviz"] # Missing,
           r.at = "dependency" => r.staged["mfviz"] # Missing /\ r.staged["pymysql"] # Missing,
           r.at \in {"checked", "source", "dependency"} => r.version # Missing
    PROVE  Inv'
<1> USE DEF Inv, UntouchedFiles
<1>1. ZipTypeOK'  BY DEF ZipTypeOK, BuildRecord
<1>2. \A c \in Builders : builder'[c] = IF c = b THEN r ELSE builder[c]
  BY DEF ZipTypeOK
<1>3. Progress'  BY <1>2 DEF Progress, BuildRecord
<1>4. \A f : Held(f) => Held(f)'  BY <1>2 DEF Held
<1>5. HoldsWholes'  BY <1>4 DEF HoldsWholes
<1> QED  BY <1>1, <1>3, <1>5

LEMMA RejectInv ==
    ASSUME Inv, NEW b \in Builders, builder[b].at # "done", Reject(b)
    PROVE  Inv'
<1> DEFINE r == [builder[b] EXCEPT !.at = "failed"]
<1>1. r \in BuildRecord /\ r.at = "failed"
  BY DEF Inv, ZipTypeOK, Steps, BuildRecord
<1>2. builder' = [builder EXCEPT ![b] = r] /\ UntouchedFiles
  BY DEF Reject, Reach, Inv, ZipTypeOK
<1> HIDE DEF r
<1> QED  BY <1>1, <1>2, QuietStep

LEMMA KillInv ==
    ASSUME Inv, NEW b \in Builders, Kill(b)
    PROVE  Inv'
<1> DEFINE r == [builder[b] EXCEPT !.at = "killed"]
<1>1. r \in BuildRecord /\ r.at = "killed"
  BY DEF Inv, ZipTypeOK, Steps, BuildRecord
<1>2. builder' = [builder EXCEPT ![b] = r] /\ UntouchedFiles /\ builder[b].at # "done"
  BY DEF Kill, Reach, Running, Inv, ZipTypeOK
<1> HIDE DEF r
<1> QED  BY <1>1, <1>2, QuietStep

LEMMA BeginInv ==
    ASSUME Inv, NEW b \in Builders, Begin(b)
    PROVE  Inv'
<1>1. CASE ~Found(inputs)  BY <1>1, RejectInv DEF Begin
<1>2. CASE Found(inputs)
  <2> DEFINE r == [builder[b] EXCEPT !.at = "checked", !.began = inputs,
                                     !.version = inputs.version]
  <2>0. builder[b] \in BuildRecord
    BY DEF Inv, ZipTypeOK, BuildRecord
  <2>3. inputs \in Inputs /\ inputs.version \in Versions \cup {Missing}
        /\ inputs.version # Missing /\ "checked" \in Steps
    BY <1>2 DEF Inv, ZipTypeOK, Steps, Inputs, Found
  <2>1. r \in BuildRecord /\ r.at = "checked" /\ r.version # Missing
    BY <2>0, <2>3 DEF BuildRecord
  <2>2. builder' = [builder EXCEPT ![b] = r] /\ UntouchedFiles /\ builder[b].at # "done"
    BY <1>2 DEF Begin, Inv, ZipTypeOK
  <2> HIDE DEF r
  <2> QED  BY <2>1, <2>2, QuietStep
<1> QED  BY <1>1, <1>2

\* What a staging step adds.
LEMMA StageInv ==
    ASSUME Inv, NEW b \in Builders, builder[b].at # "done",
           NEW step \in {"source", "dependency", "staged"},
           NEW values, DOMAIN values \subseteq Names,
           \A n \in DOMAIN values : values[n] \in Contents,
           Stage(b, step, values),
           builder[b].version # Missing,
           "mfviz" \in DOMAIN values \/ builder[b].staged["mfviz"] # Missing,
           step = "dependency" => "pymysql" \in DOMAIN values,
           step = "staged" =>
              \A n \in Names \ DOMAIN values : builder[b].staged[n] # Missing
    PROVE  Inv'
<1> DEFINE filled == [n \in Names |->
                        IF n \in DOMAIN values THEN values[n] ELSE builder[b].staged[n]]
           r == [builder[b] EXCEPT !.at = step, !.staged = filled]
<1>1. filled \in [Names -> Contents \cup {Missing}]
  BY DEF Inv, ZipTypeOK
<1>2. \A n \in Names :
        n \in DOMAIN values \/ builder[b].staged[n] # Missing => filled[n] # Missing
  BY ZipappAssumption
<1>3. "mfviz" \in Names /\ "pymysql" \in Names  BY DEF Names
<1>4. builder' = [builder EXCEPT ![b] = r] /\ UntouchedFiles
  BY DEF Stage, Inv, ZipTypeOK
<1> HIDE DEF filled
<1>0. builder[b] \in BuildRecord /\ step \in Steps
  BY DEF Inv, ZipTypeOK, Steps, BuildRecord
<1>5. r \in BuildRecord
  BY <1>0, <1>1 DEF BuildRecord
<1>6. r.at = step /\ r.staged = filled /\ r.version = builder[b].version
  BY DEF Inv, ZipTypeOK
<1> HIDE DEF r
<1>7. r.at = "staged" => \A n \in Names : r.staged[n] # Missing
  BY <1>2, <1>6
<1>8. r.staged["mfviz"] # Missing  BY <1>2, <1>3, <1>6
<1>9. r.at = "dependency" => r.staged["pymysql"] # Missing  BY <1>2, <1>3, <1>6
<1> QED  BY <1>4, <1>5, <1>6, <1>7, <1>8, <1>9, QuietStep

LEMMA StagingInv ==
    ASSUME Inv, NEW b \in Builders,
           StageSource(b) \/ StageDependency(b) \/ StageLicence(b)
    PROVE  Inv'
<1>0. "mfviz" \in Names /\ "pymysql" \in Names  BY DEF Names
<1>1. CASE StageSource(b)
  <2>1. CASE inputs.src = Missing  BY <1>1, <2>1, RejectInv DEF StageSource
  <2>2. CASE inputs.src # Missing
    <3> DEFINE values == [n \in {"mfviz"} |-> inputs.src]
    <3>1. inputs.src \in Contents /\ builder[b].version # Missing /\ builder[b].at = "checked"
      BY <1>1, <2>2 DEF StageSource, Inv, ZipTypeOK, Inputs, Contents, Progress
    <3>2. Stage(b, "source", values)  BY <1>1, <2>2 DEF StageSource
    <3> QED  BY <3>1, <3>2, <1>0, StageInv
  <2> QED  BY <2>1, <2>2
<1>2. CASE StageDependency(b)
  <2>1. CASE inputs.venv \in {"absent", "bare"}
    BY <1>2, <2>1, RejectInv DEF StageDependency
  <2>2. CASE inputs.venv \notin {"absent", "bare"}
    <3> DEFINE values == [n \in {"pymysql"} |-> "driver"]
    <3>1. "driver" \in Contents /\ builder[b].version # Missing
          /\ builder[b].staged["mfviz"] # Missing /\ builder[b].at = "source"
      BY <1>2 DEF StageDependency, Inv, Contents, Progress
    <3>2. Stage(b, "dependency", values)  BY <1>2, <2>2 DEF StageDependency
    <3> QED  BY <3>1, <3>2, <1>0, StageInv
  <2> QED  BY <2>1, <2>2
<1>3. CASE StageLicence(b)
  <2>1. CASE inputs.venv # "ok"  BY <1>3, <2>1, RejectInv DEF StageLicence
  <2>2. CASE inputs.venv = "ok"
    <3> DEFINE values ==
          [n \in {"pymysql.dist-info", "microflows_viz.dist-info", "__main__.py"} |->
              CASE n = "pymysql.dist-info" -> "licence"
                [] n = "microflows_viz.dist-info" -> builder[b].version
                [] OTHER -> "entry"]
    <3>1. builder[b].version \in Contents /\ builder[b].version # Missing
          /\ builder[b].staged["mfviz"] # Missing /\ builder[b].at = "dependency"
          /\ builder[b].staged["pymysql"] # Missing
      BY <1>3 DEF StageLicence, Inv, ZipTypeOK, Contents, Progress
    <3>2. Stage(b, "staged", values)  BY <1>3, <2>2 DEF StageLicence
    <3>3. \A n \in DOMAIN values : values[n] \in Contents  BY <3>1 DEF Contents
    <3>4. \A n \in Names \ DOMAIN values : builder[b].staged[n] # Missing
      BY <3>1 DEF Names
    <3>5. DOMAIN values \subseteq Names  BY DEF Names
    <3> HIDE DEF values
    <3> QED  BY <3>1, <3>2, <3>3, <3>4, <3>5, StageInv
  <2> QED  BY <2>1, <2>2
<1> QED  BY <1>1, <1>2, <1>3

\* Who holds a whole file before a step that undoes no finished build holds
\* one after it.
LEMMA HoldersStay ==
    ASSUME Inv, artifact' = artifact, reader' = reader,
           \A c \in Builders : builder[c].at = "done" => builder'[c].at = "done"
    PROVE  HoldsWholes'
  BY DEF Inv, HoldsWholes, Held

\* Moving a build on keeps the type of the builds.
LEMMA Moved ==
    ASSUME ZipTypeOK, NEW b \in Builders, NEW step \in Steps, Reach(b, step)
    PROVE  builder' \in [Builders -> BuildRecord]
  BY DEF ZipTypeOK, BuildRecord, Reach

\* The type invariant is the types of its variables.
LEMMA TypesNext ==
    ASSUME ZipTypeOK, builder' \in [Builders -> BuildRecord],
           inputs' \in Inputs, edits' \in 0..MaxEdits,
           heap' \in [Files -> Seq(Entries)],
           mode' \in [Files -> {"rw-------", "rwxr-xr-x"}],
           artifact' \in Files \cup {NoFile}, pending' \subseteq Builders,
           reader' = reader
    PROVE  ZipTypeOK'
  BY DEF ZipTypeOK, BuildRecord

LEMMA MakePendingInv ==
    ASSUME Inv, NEW b \in Builders, MakePending(b)
    PROVE  Inv'
<1> USE DEF Inv, MakePending, Reach
<1>1. \A c \in Builders : builder'[c] = IF c = b THEN [builder[b] EXCEPT !.at = "made"]
                                       ELSE builder[c]
  BY DEF ZipTypeOK
<1>2. ZipTypeOK'
  <2>1. builder' \in [Builders -> BuildRecord]
    <3>1. "made" \in Steps /\ Reach(b, "made")  BY DEF Steps
    <3> QED  BY <3>1, Moved
  <2> QED  BY <2>1, TypesNext DEF ZipTypeOK
<1>3. Progress'  BY <1>1 DEF Progress, ZipTypeOK
<1>4. HoldsWholes'  BY <1>1, HoldersStay
<1> QED  BY <1>2, <1>3, <1>4

LEMMA OpenArchiveInv ==
    ASSUME Inv, NEW b \in Builders, OpenArchive(b)
    PROVE  Inv'
<1> USE DEF Inv, OpenArchive, Destination
<1>1. \A c \in Builders : builder'[c] =
        IF c = b THEN [builder[b] EXCEPT !.at = "writing", !.left = Names] ELSE builder[c]
  BY DEF ZipTypeOK
<1>2. heap' \in [Files -> Seq(Entries)] /\ heap'[b] = <<>>
      /\ \A f \in Files \ {b} : heap'[f] = heap[f]
  BY DEF ZipTypeOK, Files
<1>3. ZipTypeOK'
  <2>1. builder' \in [Builders -> BuildRecord]
    <3> DEFINE r == [builder[b] EXCEPT !.at = "writing", !.left = Names]
    <3>1. \A c \in Builders : builder[c] \in BuildRecord
      BY DEF ZipTypeOK, BuildRecord
    <3>2. "writing" \in Steps /\ Names \in SUBSET Names  BY DEF Steps
    <3>3. r \in BuildRecord  BY <3>1, <3>2 DEF BuildRecord
    <3>4. builder' = [c \in Builders |-> IF c = b THEN r ELSE builder[c]]
      BY DEF ZipTypeOK
    <3> HIDE DEF r
    <3> QED  BY <3>1, <3>3, <3>4
  <2> QED  BY <2>1, <1>2, TypesNext DEF ZipTypeOK
<1>4. Progress'
  BY <1>1, <1>2, ZipappAssumption DEF Progress, ZipTypeOK, NamesIn, Files
<1>5. HoldsWholes'  BY <1>1, HoldersStay
<1> QED  BY <1>3, <1>4, <1>5

LEMMA WriteEntryInv ==
    ASSUME Inv, NEW b \in Builders, WriteEntry(b)
    PROVE  Inv'
<1> USE DEF Inv
<1>1. PICK n \in builder[b].left :
        /\ builder' = [builder EXCEPT ![b].left = @ \ {n}]
        /\ heap' = [heap EXCEPT ![b] = Append(@, <<n, builder[b].staged[n]>>)]
  BY DEF WriteEntry, Earliest, Destination
<1>2. builder[b].at = "writing" /\ n \in Names /\ b \in Files
  BY <1>1 DEF WriteEntry, ZipTypeOK, Files
<1>3. builder[b].staged[n] \in Contents /\ heap[b] \in Seq(Entries)
  BY <1>2 DEF Progress, ZipTypeOK
<1>4. \A c \in Builders : builder'[c] =
        IF c = b THEN [builder[b] EXCEPT !.left = @ \ {n}] ELSE builder[c]
  BY <1>1 DEF ZipTypeOK
<1>5. /\ heap'[b] \in Seq(Entries)
      /\ NamesIn(heap'[b]) = NamesIn(heap[b]) \cup {n}
  <2>1. heap'[b] = Append(heap[b], <<n, builder[b].staged[n]>>)
    BY <1>1, <1>2 DEF ZipTypeOK
  <2> QED  BY <2>1, <1>2, <1>3, AppendedName
<1>6. \A f \in Files \ {b} : heap'[f] = heap[f]  BY <1>1 DEF ZipTypeOK
<1>7. heap' \in [Files -> Seq(Entries)]
  <2>1. heap' = [f \in Files |-> heap'[f]]  BY <1>1 DEF ZipTypeOK
  <2> QED  BY <2>1, <1>5, <1>6 DEF ZipTypeOK
<1>8. ZipTypeOK'
  <2>1. builder' \in [Builders -> BuildRecord]
    BY <1>1 DEF ZipTypeOK, BuildRecord
  <2> QED  BY <2>1, <1>7 DEF ZipTypeOK, WriteEntry, BuildRecord
<1>9. Progress'
  <2>1. NamesIn(heap'[b]) \cup builder'[b].left = Names /\ builder'[b].at = "writing"
        /\ builder'[b].staged = builder[b].staged
    BY <1>2, <1>4, <1>5 DEF Progress, ZipTypeOK
  <2>2. heap'[Committed] = heap[Committed] /\ mode' = mode
    BY <1>6, ZipappAssumption DEF Files, WriteEntry
  <2>3. \A c \in Builders \ {b} : builder'[c] = builder[c] /\ heap'[c] = heap[c]
    BY <1>4, <1>6 DEF Files
  <2> QED  BY <2>1, <2>2, <2>3, <1>2 DEF Progress
<1>10. HoldsWholes'
  <2>1. \A c \in Builders : builder[c].at = "done" => builder'[c].at = "done"
    BY <1>2, <1>4
  <2> QED  BY <2>1, HoldersStay DEF WriteEntry
<1> QED  BY <1>8, <1>9, <1>10

LEMMA MakeExecutableInv ==
    ASSUME Inv, NEW b \in Builders, MakeExecutable(b)
    PROVE  Inv'
<1> USE DEF Inv, MakeExecutable, Reach, Destination
<1>1. \A c \in Builders : builder'[c] =
        IF c = b THEN [builder[b] EXCEPT !.at = "executable"] ELSE builder[c]
  BY DEF ZipTypeOK
<1>2. mode' \in [Files -> {"rw-------", "rwxr-xr-x"}] /\ mode'[b] = "rwxr-xr-x"
      /\ \A f \in Files \ {b} : mode'[f] = mode[f]
  BY DEF ZipTypeOK, Files
<1>3. ZipTypeOK'
  <2>1. builder' \in [Builders -> BuildRecord]
    <3>1. "executable" \in Steps /\ Reach(b, "executable")  BY DEF Steps
    <3> QED  BY <3>1, Moved
  <2> QED  BY <2>1, <1>2, TypesNext DEF ZipTypeOK
<1>4. Progress'  BY <1>1, <1>2, ZipappAssumption DEF Progress, ZipTypeOK, Files
<1>5. HoldsWholes'  BY <1>1, HoldersStay
<1> QED  BY <1>3, <1>4, <1>5

LEMMA ReplaceInv ==
    ASSUME Inv, NEW b \in Builders, Replace(b)
    PROVE  Inv'
<1> USE DEF Inv, Replace, Reach
<1>1. \A c \in Builders : builder'[c] =
        IF c = b THEN [builder[b] EXCEPT !.at = "done"] ELSE builder[c]
  BY DEF ZipTypeOK
<1>2. ZipTypeOK'
  <2>1. builder' \in [Builders -> BuildRecord]
    <3>1. "done" \in Steps /\ Reach(b, "done")  BY DEF Steps
    <3> QED  BY <3>1, Moved
  <2> QED  BY <2>1, TypesNext DEF ZipTypeOK, Files
<1>3. Progress'
  <2>1. Whole(heap[b]) /\ mode[b] = "rwxr-xr-x"  BY DEF Progress, Whole
  <2> QED  BY <2>1, <1>1 DEF Progress, ZipTypeOK
<1>4. HoldsWholes'
  <2>1. \A f : Held(f) => Held(f)'  BY <1>1 DEF Held, ZipTypeOK
  <2>2. Held(b)'  BY <1>1 DEF Held, ZipTypeOK
  <2> QED  BY <2>1, <2>2 DEF HoldsWholes
<1> QED  BY <1>2, <1>3, <1>4

LEMMA RaiseInv ==
    ASSUME Inv, NEW b \in Builders, Raise(b)
    PROVE  Inv'
<1> USE DEF Inv, Raise, Reach
<1>1. \A c \in Builders : builder'[c] =
        IF c = b THEN [builder[b] EXCEPT !.at = "failed"] ELSE builder[c]
  BY DEF ZipTypeOK
<1>2. pending' \subseteq Builders  BY DEF Unlinked, ZipTypeOK
<1>3. ZipTypeOK'
  <2>1. builder' \in [Builders -> BuildRecord]
    <3>1. "failed" \in Steps /\ Reach(b, "failed")  BY DEF Steps
    <3> QED  BY <3>1, Moved
  <2> QED  BY <2>1, <1>2, TypesNext DEF ZipTypeOK
<1>4. Progress'  BY <1>1 DEF Progress, ZipTypeOK
<1>5. HoldsWholes'  BY <1>1, HoldersStay DEF Running
<1> QED  BY <1>3, <1>4, <1>5

LEMMA EditInv ==
    ASSUME Inv, Edit
    PROVE  Inv'
<1> USE DEF Inv, Edit
<1>1. \A c \in Builders :
        builder'[c] = [builder[c] EXCEPT !.steady = @ /\ builder[c].at \notin Running]
  BY DEF ZipTypeOK
<1>2. builder' \in [Builders -> BuildRecord]
  <2> DEFINE calm(c) == builder[c].steady /\ builder[c].at \notin Running
             r(c) == [builder[c] EXCEPT !.steady = calm(c)]
  <2>1. \A c \in Builders : builder[c] \in BuildRecord
    BY DEF ZipTypeOK, BuildRecord
  <2>2. \A c \in Builders : calm(c) \in BOOLEAN  OBVIOUS
  <2>3. builder' = [c \in Builders |-> r(c)]  OBVIOUS
  <2> HIDE DEF calm
  <2>4. \A c \in Builders : r(c) \in BuildRecord  BY <2>1, <2>2 DEF BuildRecord
  <2> HIDE DEF r
  <2> QED  BY <2>3, <2>4
<1>3. ZipTypeOK'
  <2>1. inputs' \in Inputs  OBVIOUS
  <2>2. edits' \in 0..MaxEdits  BY ZipappAssumption DEF ZipTypeOK
  <2> QED  BY <2>1, <2>2, <1>2, TypesNext DEF ZipTypeOK
<1>4. \A c \in Builders :
        /\ builder'[c].at = builder[c].at /\ builder'[c].staged = builder[c].staged
        /\ builder'[c].left = builder[c].left /\ builder'[c].version = builder[c].version
  BY <1>1 DEF ZipTypeOK
<1>5. Progress'  BY <1>4 DEF Progress
<1>6. HoldsWholes'  BY <1>4, HoldersStay
<1> QED  BY <1>3, <1>5, <1>6

LEMMA ReaderInv ==
    ASSUME Inv, NEW r \in Readers, Open(r) \/ Read(r)
    PROVE  Inv'
<1> USE DEF Inv
<1>1. CASE Open(r)
  <2> DEFINE Held1 == [file : Files \cup {NoFile}, got : Seq(Entries), read : BOOLEAN]
             p == [reader[r] EXCEPT !.file = artifact, !.read = FALSE, !.got = <<>>]
  <2>a. reader \in [Readers -> Held1] /\ artifact \in Files \cup {NoFile}
    BY DEF ZipTypeOK
  <2>b. p \in Held1
    <3>1. <<>> \in Seq(Entries) /\ FALSE \in BOOLEAN  OBVIOUS
    <3> QED  BY <2>a, <3>1
  <2>c. reader' = [c \in Readers |-> IF c = r THEN p ELSE reader[c]]
    BY <1>1, <2>a DEF Open
  <2>d. reader' \in [Readers -> Held1]
    <3> HIDE DEF p, Held1
    <3> QED  BY <2>a, <2>b, <2>c
  <2>1. ZipTypeOK'  BY <1>1, <2>d DEF Open, ZipTypeOK
  <2>2. Progress'  BY <1>1 DEF Open, Progress
  <2>3. HoldsWholes'  BY <1>1 DEF Open, HoldsWholes, Held, ZipTypeOK
  <2> QED  BY <2>1, <2>2, <2>3
<1>2. CASE Read(r)
  <2>1. Held(reader[r].file)  BY <1>2 DEF Read, HoldsWholes
  <2>2. Whole(heap[reader[r].file]) /\ reader[r].file \in Files  BY <2>1, HeldIsWhole
  <2>3. ZipTypeOK'  BY <1>2, <2>2 DEF Read, ZipTypeOK
  <2>4. Progress'  BY <1>2 DEF Read, Progress
  <2>5. HoldsWholes'  BY <1>2, <2>2 DEF Read, HoldsWholes, Held, ZipTypeOK
  <2> QED  BY <2>3, <2>4, <2>5
<1> QED  BY <1>1, <1>2

LEMMA NextInv == Inv /\ [Next]_vars => Inv'
<1> SUFFICES ASSUME Inv, [Next]_vars PROVE Inv'  OBVIOUS
<1>1. CASE Edit  BY <1>1, EditInv
<1>2. ASSUME NEW b \in Builders, Build(b) PROVE Inv'
  BY <1>2, BeginInv, StagingInv, MakePendingInv, OpenArchiveInv, WriteEntryInv,
     MakeExecutableInv, ReplaceInv DEF Build
<1>3. ASSUME NEW b \in Builders, Raise(b) \/ Kill(b) PROVE Inv'
  BY <1>3, RaiseInv, KillInv
<1>4. ASSUME NEW r \in Readers, Open(r) \/ Read(r) PROVE Inv'
  BY <1>4, ReaderInv
<1>5. CASE UNCHANGED vars
  BY <1>5 DEF vars, Inv, ZipTypeOK, Progress, HoldsWholes, Held
<1> QED  BY <1>1, <1>2, <1>3, <1>4, <1>5 DEF Next

-----------------------------------------------------------------------------
(* The contents of the archive.                                              *)

LEMMA InitReproducible == Init => Reproducible
  BY DEF Init, Reproducible, StagedAsBegun, BeganWith, WrittenInOrder, Running, Late

LEMMA BuildersAreRecords ==
    ASSUME Inv, NEW b \in Builders
    PROVE  /\ builder[b] \in BuildRecord
           /\ heap[b] \in Seq(Entries)
           /\ builder \in [Builders -> BuildRecord]
           /\ heap \in [Files -> Seq(Entries)] /\ b \in Files
  BY DEF Inv, ZipTypeOK, BuildRecord, Files

\* A step of one build, which keeps to its own inode.
LEMMA OneBuilds ==
    ASSUME Inv, Reproducible, NEW b \in Builders, inputs' = inputs,
           NEW r, builder' = [builder EXCEPT ![b] = r],
           \A c \in Builders \ {b} : heap'[c] = heap[c],
           StagedAsBegun(r), BeganWith(r, inputs), WrittenInOrder(r, heap'[b])
    PROVE  Reproducible'
<1>1. \A c \in Builders : builder'[c] = IF c = b THEN r ELSE builder[c]
  BY BuildersAreRecords
<1> SUFFICES ASSUME NEW c \in Builders
             PROVE  /\ StagedAsBegun(builder'[c]) /\ BeganWith(builder'[c], inputs')
                    /\ WrittenInOrder(builder'[c], heap'[c])
  BY DEF Reproducible
<1>2. CASE c = b  BY <1>1, <1>2
<1>3. CASE c # b  BY <1>1, <1>3 DEF Reproducible
<1> QED  BY <1>2, <1>3

\* A build that stops says nothing more.
LEMMA StopsReproducible ==
    ASSUME Inv, Reproducible, NEW b \in Builders, NEW step \in {"failed", "killed"},
           Reach(b, step), heap' = heap, inputs' = inputs
    PROVE  Reproducible'
<1> DEFINE r == [builder[b] EXCEPT !.at = step]
<1>1. r.at = step  BY BuildersAreRecords DEF BuildRecord
<1>2. builder' = [builder EXCEPT ![b] = r]  BY DEF Reach
<1> HIDE DEF r
<1>3. StagedAsBegun(r) /\ BeganWith(r, inputs) /\ WrittenInOrder(r, heap'[b])
  BY <1>1 DEF StagedAsBegun, BeganWith, WrittenInOrder, Late, Running
<1> QED  BY <1>2, <1>3, OneBuilds

LEMMA RejectReproducible ==
    ASSUME Inv, Reproducible, NEW b \in Builders, Reject(b)
    PROVE  Reproducible'
  BY StopsReproducible DEF Reject, UntouchedFiles

LEMMA BeginReproducible ==
    ASSUME Inv, Reproducible, NEW b \in Builders, Begin(b)
    PROVE  Reproducible'
<1>1. CASE ~Found(inputs)  BY <1>1, RejectReproducible DEF Begin
<1>2. CASE Found(inputs)
  <2> DEFINE r == [builder[b] EXCEPT !.at = "checked", !.began = inputs,
                                     !.version = inputs.version]
  <2>1. r.at = "checked" /\ r.began = inputs /\ r.version = inputs.version
    BY BuildersAreRecords DEF BuildRecord
  <2>2. builder' = [builder EXCEPT ![b] = r] /\ UntouchedFiles
    BY <1>2 DEF Begin
  <2> HIDE DEF r
  <2>3. StagedAsBegun(r) /\ BeganWith(r, inputs) /\ WrittenInOrder(r, heap'[b])
    BY <2>1 DEF StagedAsBegun, BeganWith, WrittenInOrder, Late
  <2> QED  BY <2>2, <2>3, OneBuilds DEF UntouchedFiles
<1> QED  BY <1>1, <1>2

\* What a staging step leaves of the record.
LEMMA StagedRecord ==
    ASSUME Inv, NEW b \in Builders, NEW step, NEW values, Stage(b, step, values)
    PROVE  \E r :
              /\ builder' = [builder EXCEPT ![b] = r]
              /\ r.at = step /\ r.version = builder[b].version
              /\ r.began = builder[b].began /\ r.steady = builder[b].steady
              /\ r.left = builder[b].left
              /\ \A n \in Names : r.staged[n] =
                    IF n \in DOMAIN values THEN values[n] ELSE builder[b].staged[n]
<1> DEFINE filled == [n \in Names |->
                        IF n \in DOMAIN values THEN values[n] ELSE builder[b].staged[n]]
           r == [builder[b] EXCEPT !.at = step, !.staged = filled]
<1>1. builder' = [builder EXCEPT ![b] = r]
  BY BuildersAreRecords DEF Stage
<1>2. \A n \in Names : filled[n] =
                    IF n \in DOMAIN values THEN values[n] ELSE builder[b].staged[n]
  OBVIOUS
<1> HIDE DEF filled
<1>3. /\ r.at = step /\ r.version = builder[b].version
      /\ r.began = builder[b].began /\ r.steady = builder[b].steady
      /\ r.left = builder[b].left /\ r.staged = filled
  BY BuildersAreRecords DEF BuildRecord
<1> HIDE DEF r
<1> QED  BY <1>1, <1>2, <1>3

LEMMA StagingReproducible ==
    ASSUME Inv, Reproducible, NEW b \in Builders,
           StageSource(b) \/ StageDependency(b) \/ StageLicence(b)
    PROVE  Reproducible'
<1>0. /\ "mfviz" \in Names /\ "pymysql" \in Names /\ "__main__.py" \in Names
      /\ "pymysql.dist-info" \in Names /\ "microflows_viz.dist-info" \in Names
  BY DEF Names
<1>1. StagedAsBegun(builder[b]) /\ BeganWith(builder[b], inputs)
  BY DEF Reproducible
<1>2. ASSUME NEW step \in {"source", "dependency", "staged"},
             NEW values, Stage(b, step, values),
             \A r : /\ r.at = step /\ r.version = builder[b].version
                    /\ r.began = builder[b].began /\ r.steady = builder[b].steady
                    /\ \A n \in Names : r.staged[n] =
                          IF n \in DOMAIN values THEN values[n] ELSE builder[b].staged[n]
                    => StagedAsBegun(r),
             builder[b].at \in Running
      PROVE  Reproducible'
  <2>1. PICK r :
              /\ builder' = [builder EXCEPT ![b] = r]
              /\ r.at = step /\ r.version = builder[b].version
              /\ r.began = builder[b].began /\ r.steady = builder[b].steady
              /\ r.left = builder[b].left
              /\ \A n \in Names : r.staged[n] =
                    IF n \in DOMAIN values THEN values[n] ELSE builder[b].staged[n]
    BY <1>2, StagedRecord
  <2>2. StagedAsBegun(r)  BY <2>1, <1>2
  <2>3. BeganWith(r, inputs)  BY <2>1, <1>1, <1>2 DEF BeganWith
  <2>4. WrittenInOrder(r, heap'[b])  BY <2>1 DEF WrittenInOrder
  <2> QED  BY <2>1, <2>2, <2>3, <2>4, <1>2, OneBuilds DEF Stage, UntouchedFiles
<1>3. CASE StageSource(b)
  <2>1. CASE inputs.src = Missing  BY <1>3, <2>1, RejectReproducible DEF StageSource
  <2>2. CASE inputs.src # Missing
    <3> DEFINE values == [n \in {"mfviz"} |-> inputs.src]
    <3>1. builder[b].at = "checked" /\ Stage(b, "source", values)
      BY <1>3, <2>2 DEF StageSource
    <3>2. builder[b].at \in Running  BY <3>1 DEF Running, Steps
    <3>3. values["mfviz"] = inputs.src /\ "mfviz" \in DOMAIN values  OBVIOUS
    <3>4. builder[b].steady => builder[b].began = inputs
      BY <3>2, <1>1 DEF BeganWith
    <3>5. builder[b].version = builder[b].began.version
      BY <3>1, <1>1 DEF StagedAsBegun
    <3> HIDE DEF values
    <3>6. ASSUME NEW r, r.at = "source", r.version = builder[b].version,
                 r.began = builder[b].began, r.steady = builder[b].steady,
                 \A n \in Names : r.staged[n] =
                    IF n \in DOMAIN values THEN values[n] ELSE builder[b].staged[n]
          PROVE  StagedAsBegun(r)
      <4>1. r.staged["mfviz"] = inputs.src  BY <3>6, <3>3, <1>0
      <4> QED  BY <4>1, <3>4, <3>5, <3>6 DEF StagedAsBegun, Late
    <3> QED  BY <3>1, <3>2, <3>6, <1>2
  <2> QED  BY <2>1, <2>2
<1>4. CASE StageDependency(b)
  <2>1. CASE inputs.venv \in {"absent", "bare"}
    BY <1>4, <2>1, RejectReproducible DEF StageDependency
  <2>2. CASE inputs.venv \notin {"absent", "bare"}
    <3> DEFINE values == [n \in {"pymysql"} |-> "driver"]
    <3>1. builder[b].at = "source" /\ Stage(b, "dependency", values)
      BY <1>4, <2>2 DEF StageDependency
    <3>2. builder[b].at \in Running  BY <3>1 DEF Running, Steps
    <3>3. values["pymysql"] = "driver" /\ DOMAIN values = {"pymysql"}  OBVIOUS
    <3> HIDE DEF values
    <3>6. ASSUME NEW r, r.at = "dependency", r.version = builder[b].version,
                 r.began = builder[b].began, r.steady = builder[b].steady,
                 \A n \in Names : r.staged[n] =
                    IF n \in DOMAIN values THEN values[n] ELSE builder[b].staged[n]
          PROVE  StagedAsBegun(r)
      <4>1. r.staged["mfviz"] = builder[b].staged["mfviz"] /\ r.staged["pymysql"] = "driver"
        BY <3>6, <3>3, <1>0
      <4> QED  BY <4>1, <3>1, <3>6, <1>1 DEF StagedAsBegun, Late
    <3> QED  BY <3>1, <3>2, <3>6, <1>2
  <2> QED  BY <2>1, <2>2
<1>5. CASE StageLicence(b)
  <2>1. CASE inputs.venv # "ok"  BY <1>5, <2>1, RejectReproducible DEF StageLicence
  <2>2. CASE inputs.venv = "ok"
    <3> DEFINE values ==
          [n \in {"pymysql.dist-info", "microflows_viz.dist-info", "__main__.py"} |->
              CASE n = "pymysql.dist-info" -> "licence"
                [] n = "microflows_viz.dist-info" -> builder[b].version
                [] OTHER -> "entry"]
    <3>1. builder[b].at = "dependency" /\ Stage(b, "staged", values)
      BY <1>5, <2>2 DEF StageLicence
    <3>2. builder[b].at \in Running  BY <3>1 DEF Running, Steps
    <3>3. /\ DOMAIN values = {"pymysql.dist-info", "microflows_viz.dist-info", "__main__.py"}
          /\ values["pymysql.dist-info"] = "licence"
          /\ values["microflows_viz.dist-info"] = builder[b].version
          /\ values["__main__.py"] = "entry"
      OBVIOUS
    <3> HIDE DEF values
    <3>6. ASSUME NEW r, r.at = "staged", r.version = builder[b].version,
                 r.began = builder[b].began, r.steady = builder[b].steady,
                 \A n \in Names : r.staged[n] =
                    IF n \in DOMAIN values THEN values[n] ELSE builder[b].staged[n]
          PROVE  StagedAsBegun(r)
      <4>1. /\ r.staged["mfviz"] = builder[b].staged["mfviz"]
            /\ r.staged["pymysql"] = builder[b].staged["pymysql"]
            /\ r.staged["pymysql.dist-info"] = "licence"
            /\ r.staged["microflows_viz.dist-info"] = builder[b].version
            /\ r.staged["__main__.py"] = "entry"
        BY <3>6, <3>3, <1>0
      <4> QED  BY <4>1, <3>1, <3>6, <1>1 DEF StagedAsBegun, Late
    <3> QED  BY <3>1, <3>2, <3>6, <1>2
  <2> QED  BY <2>1, <2>2
<1> QED  BY <1>3, <1>4, <1>5

\* Moving on within the later steps changes nothing that has been staged.
LEMMA LaterSteps ==
    ASSUME Inv, NEW r, NEW b \in Builders, NEW i,
           r.version = builder[b].version, r.began = builder[b].began,
           r.steady = builder[b].steady, r.staged = builder[b].staged,
           r.at \in Late, builder[b].at \in Late \ {"done"},
           StagedAsBegun(builder[b]), BeganWith(builder[b], i)
    PROVE  StagedAsBegun(r) /\ BeganWith(r, i)
  BY DEF StagedAsBegun, BeganWith, Late, Running, Steps

\* An empty archive is in order, and so is one that has grown by the first of
\* the entries left.
LEMMA EmptyInOrder ==
    ASSUME NEW staged
    PROVE  InOrder(Names) /\ SortedArchive(<<>>, Names \ Names, staged)
<1>1. Cardinality(Names \ Names) = 0  BY FS_EmptySet
<1> QED  BY <1>1 DEF InOrder, SortedArchive

LEMMA FiniteNames == IsFiniteSet(Names) /\ \A S \in SUBSET Names : IsFiniteSet(S)
<1>1. Names = {"__main__.py"} \cup ({"mfviz"} \cup ({"microflows_viz.dist-info"} \cup
              ({"pymysql"} \cup {"pymysql.dist-info"})))
  BY DEF Names
<1>2. IsFiniteSet(Names)  BY <1>1, FS_Singleton, FS_Union
<1> QED  BY <1>2, FS_Subset

LEMMA OneMoreInOrder ==
    ASSUME NEW left \in SUBSET Names, NEW n \in left, NEW staged,
           \A m \in left : Rank[n] <= Rank[m],
           NEW archive \in Seq(Entries), <<n, staged[n]>> \in Entries,
           InOrder(left), SortedArchive(archive, Names \ left, staged)
    PROVE  /\ InOrder(left \ {n})
           /\ SortedArchive(Append(archive, <<n, staged[n]>>), Names \ (left \ {n}), staged)
<1> DEFINE written == Names \ left
           e == <<n, staged[n]>>
           longer == Append(archive, e)
<1>1. \A m \in left \ {n} : Rank[n] < Rank[m]
  BY ZipappAssumption
<1>2. InOrder(left \ {n})  BY <1>1 DEF InOrder
<1>3. {m \in Names : Rank[m] < Rank[n]} = written
  BY ZipappAssumption DEF InOrder
<1>4. Names \ (left \ {n}) = written \cup {n} /\ n \notin written  OBVIOUS
<1>5. IsFiniteSet(written) /\ Cardinality(written) \in Nat
  BY FiniteNames, FS_CardinalityType
<1>6. Place(n) = Cardinality(written) + 1  BY <1>3 DEF Place
<1>7. Cardinality(written \cup {n}) = Cardinality(written) + 1
  BY <1>4, <1>5, FS_AddElement
<1> HIDE DEF written
<1>8. /\ longer \in Seq(Entries) /\ Len(longer) = Len(archive) + 1
      /\ DOMAIN longer = 1..(Len(archive) + 1) /\ DOMAIN archive = 1..Len(archive)
      /\ longer[Len(archive) + 1] = e /\ Len(archive) \in Nat
  <2> HIDE DEF e
  <2> QED  BY DEF e
<1>9. \A i \in DOMAIN archive : i \in DOMAIN longer /\ longer[i] = archive[i]
  <2> HIDE DEF e
  <2> QED  BY <1>8 DEF e
<1>10. Len(archive) = Cardinality(written)
       /\ (\A m \in written :
              Place(m) \in DOMAIN archive /\ archive[Place(m)] = <<m, staged[m]>>)
       /\ \A i \in DOMAIN archive : \E m \in written : i = Place(m)
  BY DEF SortedArchive, written
<1> HIDE DEF longer
<1>11. ASSUME NEW m \in written \cup {n}
       PROVE  Place(m) \in DOMAIN longer /\ longer[Place(m)] = <<m, staged[m]>>
  <2>1. CASE m = n  BY <2>1, <1>6, <1>8, <1>10
  <2>2. CASE m \in written  BY <2>2, <1>9, <1>10
  <2> QED  BY <2>1, <2>2
<1>12. ASSUME NEW i \in DOMAIN longer PROVE \E m \in written \cup {n} : i = Place(m)
  <2>1. CASE i = Len(archive) + 1  BY <2>1, <1>6, <1>10
  <2>2. CASE i \in DOMAIN archive  BY <2>2, <1>10
  <2> QED  BY <2>1, <2>2, <1>8
<1>13. SortedArchive(longer, written \cup {n}, staged)
  BY <1>7, <1>8, <1>10, <1>11, <1>12 DEF SortedArchive
<1> QED  BY <1>2, <1>4, <1>13 DEF longer

LEMMA ArchiveReproducible ==
    ASSUME Inv, Reproducible, NEW b \in Builders,
           \/ MakePending(b) \/ OpenArchive(b) \/ WriteEntry(b)
           \/ MakeExecutable(b) \/ Replace(b)
    PROVE  Reproducible'
<1>0. /\ StagedAsBegun(builder[b]) /\ BeganWith(builder[b], inputs)
      /\ WrittenInOrder(builder[b], heap[b])
  BY DEF Reproducible
<1>a. /\ builder[b] \in BuildRecord /\ builder \in [Builders -> BuildRecord]
      /\ heap \in [Files -> Seq(Entries)] /\ b \in Files /\ heap[b] \in Seq(Entries)
  BY BuildersAreRecords
<1>b. \A c \in Builders : c \in Files  BY DEF Files
<1>1. ASSUME NEW step \in {"made", "executable", "done"}, Reach(b, step),
             builder[b].at \in Late \ {"done"},
             heap' = heap, inputs' = inputs,
             step # "made" =>
                builder[b].left = {} /\ builder[b].at \in {"writing", "executable"}
      PROVE  Reproducible'
  <2> DEFINE r == [builder[b] EXCEPT !.at = step]
  <2>1. builder' = [builder EXCEPT ![b] = r]  BY <1>1 DEF Reach
  <2>2. /\ r.at = step /\ r.version = builder[b].version
        /\ r.began = builder[b].began /\ r.steady = builder[b].steady
        /\ r.staged = builder[b].staged /\ r.left = builder[b].left
    BY <1>a DEF BuildRecord
  <2> HIDE DEF r
  <2>3. r.at \in Late  BY <2>2 DEF Late
  <2>4. StagedAsBegun(r) /\ BeganWith(r, inputs)
    BY <1>0, <1>1, <2>2, <2>3, LaterSteps
  <2>5. WrittenInOrder(r, heap'[b])  BY <1>0, <1>1, <2>2 DEF WrittenInOrder
  <2> QED  BY <1>1, <2>1, <2>4, <2>5, OneBuilds
<1>2. CASE MakePending(b)  BY <1>1, <1>2 DEF MakePending, Late
<1>3. CASE OpenArchive(b)
  <2> DEFINE r == [builder[b] EXCEPT !.at = "writing", !.left = Names]
  <2>1. builder' = [builder EXCEPT ![b] = r] /\ inputs' = inputs
        /\ builder[b].at = "made"
    BY <1>3 DEF OpenArchive
  <2>2. /\ r.at = "writing" /\ r.version = builder[b].version
        /\ r.began = builder[b].began /\ r.steady = builder[b].steady
        /\ r.staged = builder[b].staged /\ r.left = Names
    BY <1>a DEF BuildRecord
  <2> HIDE DEF r
  <2>3. StagedAsBegun(r) /\ BeganWith(r, inputs)
    BY <1>0, <2>1, <2>2, LaterSteps DEF Late
  <2>4. heap'[b] = <<>> /\ \A c \in Builders \ {b} : heap'[c] = heap[c]
    BY <1>3, <1>a, <1>b DEF OpenArchive, Destination
  <2>5. WrittenInOrder(r, heap'[b])
    BY <2>2, <2>4, EmptyInOrder DEF WrittenInOrder
  <2> QED  BY <2>1, <2>3, <2>4, <2>5, OneBuilds
<1>4. CASE WriteEntry(b)
  <2>1. PICK n \in Earliest(b) :
          /\ builder' = [builder EXCEPT ![b].left = @ \ {n}]
          /\ heap' = [heap EXCEPT ![b] = Append(@, <<n, builder[b].staged[n]>>)]
    BY <1>4 DEF WriteEntry, Destination
  <2> DEFINE r == [builder[b] EXCEPT !.left = @ \ {n}]
  <2>2. builder' = [builder EXCEPT ![b] = r] /\ inputs' = inputs
        /\ builder[b].at = "writing"
    BY <1>4, <2>1 DEF WriteEntry
  <2>3. /\ r.at = "writing" /\ r.version = builder[b].version
        /\ r.began = builder[b].began /\ r.steady = builder[b].steady
        /\ r.staged = builder[b].staged /\ r.left = builder[b].left \ {n}
    BY <1>a, <2>2 DEF BuildRecord
  <2> HIDE DEF r
  <2>4. StagedAsBegun(r) /\ BeganWith(r, inputs)
    BY <1>0, <2>2, <2>3, LaterSteps DEF Late
  <2>5. heap'[b] = Append(heap[b], <<n, builder[b].staged[n]>>)
        /\ \A c \in Builders \ {b} : heap'[c] = heap[c]
    BY <2>1, <1>a, <1>b
  <2>6. /\ n \in builder[b].left /\ builder[b].left \in SUBSET Names
        /\ \A m \in builder[b].left : Rank[n] <= Rank[m]
    BY <1>a DEF Earliest, BuildRecord
  <2>7. <<n, builder[b].staged[n]>> \in Entries
    <3>1. builder[b].staged[n] \in Contents /\ n \in Names
      BY <1>a, <2>2, <2>6 DEF Inv, Progress, BuildRecord
    <3> QED  BY <3>1 DEF Entries
  <2>8. InOrder(builder[b].left)
        /\ SortedArchive(heap[b], Names \ builder[b].left, builder[b].staged)
    BY <1>0, <2>2 DEF WrittenInOrder
  <2>9. InOrder(r.left) /\ SortedArchive(heap'[b], Names \ r.left, r.staged)
    <3> DEFINE left == builder[b].left
               staged == builder[b].staged
    <3>1. /\ left \in SUBSET Names /\ n \in left /\ \A m \in left : Rank[n] <= Rank[m]
          /\ heap[b] \in Seq(Entries) /\ <<n, staged[n]>> \in Entries
          /\ InOrder(left) /\ SortedArchive(heap[b], Names \ left, staged)
      BY <1>a, <2>6, <2>7, <2>8
    <3> HIDE DEF left, staged
    <3>2. /\ InOrder(left \ {n})
          /\ SortedArchive(Append(heap[b], <<n, staged[n]>>), Names \ (left \ {n}), staged)
      BY <3>1, OneMoreInOrder
    <3> QED  BY <3>2, <2>3, <2>5 DEF left, staged
  <2>10. WrittenInOrder(r, heap'[b])  BY <2>3, <2>9 DEF WrittenInOrder
  <2> QED  BY <2>2, <2>4, <2>5, <2>10, OneBuilds
<1>5. CASE MakeExecutable(b)  BY <1>1, <1>5 DEF MakeExecutable, Late
<1>6. CASE Replace(b)
  <2>1. builder[b].at = "executable" /\ builder[b].left = {}
    BY <1>6 DEF Replace, Inv, Progress
  <2> QED  BY <1>1, <1>6, <2>1 DEF Replace, Late
<1> QED  BY <1>2, <1>3, <1>4, <1>5, <1>6

\* An edit ends what is said of the builds under way.
LEMMA EditReproducible ==
    ASSUME Inv, Reproducible, Edit
    PROVE  Reproducible'
<1> SUFFICES ASSUME NEW c \in Builders
             PROVE  /\ StagedAsBegun(builder'[c]) /\ BeganWith(builder'[c], inputs')
                    /\ WrittenInOrder(builder'[c], heap'[c])
  BY DEF Reproducible
<1>0. /\ StagedAsBegun(builder[c]) /\ BeganWith(builder[c], inputs)
      /\ WrittenInOrder(builder[c], heap[c])
  BY DEF Reproducible
<1> DEFINE calm == builder[c].steady /\ builder[c].at \notin Running
           r == [builder[c] EXCEPT !.steady = calm]
<1>1. builder'[c] = r /\ heap' = heap  BY DEF Edit
<1> HIDE DEF calm
<1>2. /\ r.at = builder[c].at /\ r.version = builder[c].version
      /\ r.began = builder[c].began /\ r.steady = calm
      /\ r.staged = builder[c].staged /\ r.left = builder[c].left
  BY BuildersAreRecords DEF BuildRecord
<1> HIDE DEF r
<1>3. calm => builder[c].steady /\ builder[c].at \notin Running  BY DEF calm
<1>4. StagedAsBegun(r)  BY <1>0, <1>2, <1>3 DEF StagedAsBegun
<1>5. BeganWith(r, inputs')  BY <1>2, <1>3 DEF BeganWith
<1>6. WrittenInOrder(r, heap[c])  BY <1>0, <1>2 DEF WrittenInOrder
<1> QED  BY <1>1, <1>4, <1>5, <1>6

LEMMA NextReproducible == Inv /\ Reproducible /\ [Next]_vars => Reproducible'
<1> SUFFICES ASSUME Inv, Reproducible, [Next]_vars PROVE Reproducible'  OBVIOUS
<1>1. CASE Edit  BY <1>1, EditReproducible
<1>2. ASSUME NEW b \in Builders, Build(b) PROVE Reproducible'
  BY <1>2, BeginReproducible, StagingReproducible, ArchiveReproducible DEF Build
<1>3. ASSUME NEW b \in Builders, Raise(b) \/ Kill(b) PROVE Reproducible'
  BY <1>3, StopsReproducible DEF Raise, Kill, UntouchedFiles
<1>4. ASSUME NEW r \in Readers, Open(r) \/ Read(r) PROVE Reproducible'
  BY <1>4 DEF Open, Read, Reproducible
<1>5. CASE UNCHANGED vars  BY <1>5 DEF vars, Reproducible
<1> QED  BY <1>1, <1>2, <1>3, <1>4, <1>5 DEF Next

\* Two complete archives of the same entries, each where the order puts it.
LEMMA SameOrderSameArchive ==
    ASSUME NEW h \in Seq(Entries), NEW k \in Seq(Entries), NEW staged,
           SortedArchive(h, Names, staged), SortedArchive(k, Names, staged)
    PROVE  h = k
<1>1. Len(h) = Len(k) /\ DOMAIN h = DOMAIN k  BY DEF SortedArchive
<1>2. ASSUME NEW i \in DOMAIN h PROVE h[i] = k[i]
  <2>1. PICK n \in Names : i = Place(n)  BY DEF SortedArchive
  <2> QED  BY <2>1 DEF SortedArchive
<1> QED  BY <1>1, <1>2

LEMMA ReproducibleImplies == Inv /\ Reproducible => SameInputsSameArchive
<1> SUFFICES ASSUME Inv, Reproducible, NEW b \in Builders, NEW c \in Builders,
                    builder[b].at \in {"executable", "done"}, builder[b].steady,
                    builder[c].at \in {"executable", "done"}, builder[c].steady,
                    builder[b].began = builder[c].began
             PROVE  heap[b] = heap[c]
  BY DEF SameInputsSameArchive
<1>1. /\ StagedAsBegun(builder[b]) /\ WrittenInOrder(builder[b], heap[b])
      /\ StagedAsBegun(builder[c]) /\ WrittenInOrder(builder[c], heap[c])
  BY DEF Reproducible
<1>2. /\ builder[b].staged \in [Names -> Contents \cup {Missing}]
      /\ builder[c].staged \in [Names -> Contents \cup {Missing}]
      /\ heap[b] \in Seq(Entries) /\ heap[c] \in Seq(Entries)
  BY BuildersAreRecords DEF BuildRecord
<1>3. \A n \in Names : builder[b].staged[n] = builder[c].staged[n]
  BY <1>1 DEF StagedAsBegun, Late, Names
<1>4. builder[b].staged = builder[c].staged  BY <1>2, <1>3
<1>5. /\ SortedArchive(heap[b], Names \ {}, builder[b].staged)
      /\ SortedArchive(heap[c], Names \ {}, builder[c].staged)
  BY <1>1 DEF WrittenInOrder
<1>6. Names \ {} = Names  OBVIOUS
<1> QED  BY <1>2, <1>4, <1>5, <1>6, SameOrderSameArchive

\* The builder of the executable keeps its types in every behaviour.
THEOREM ZipappTypeCorrect == Spec => []ZipTypeOK
<1>1. Inv => ZipTypeOK  BY InvImplies
<1> QED  BY <1>1, InitInv, NextInv, PTL DEF Spec

\* However many builds race, fail or are killed, and however the inputs change,
\* what lies under the artifact's name is a complete, licensed, executable
\* archive, and a program that opened it reads a complete one.
THEOREM ArtifactAlwaysWhole == Spec => []ArtifactIsWhole
<1>1. Inv => ArtifactIsWhole  BY InvImplies
<1> QED  BY <1>1, InitInv, NextInv, PTL DEF Spec

\* Whatever the order in which builds and edits interleave, two builds of the
\* same inputs, undisturbed, write the same archive.
THEOREM BuildsAreReproducible == Spec => []SameInputsSameArchive
<1> DEFINE I == Inv /\ Reproducible
<1>1. Init => I  BY InitInv, InitReproducible
<1>2. I /\ [Next]_vars => I'  BY NextInv, NextReproducible
<1>3. I => SameInputsSameArchive  BY ReproducibleImplies
<1> QED  BY <1>1, <1>2, <1>3, PTL DEF Spec

=============================================================================
