------------------------------- MODULE Zipapp -------------------------------
(* microflows-viz/tools/build_zipapp.py: builds of the one-file executable,  *)
(* run at the same time, on sources and a virtual environment that may       *)
(* change under them, interrupted or killed at any point; and programs that  *)
(* open the executable meanwhile.                                            *)
(*                                                                           *)
(* A file is an inode with a name: each build has one inode of its own, from *)
(* mkstemp in the target's directory, and os.replace moves the target's name *)
(* to it.  An entry of the archive is a name with what was staged under it.  *)
EXTENDS Naturals, Sequences, FiniteSets

CONSTANTS
    Builders,       \* invocations of the script
    Readers,        \* programs that open the artifact
    Revisions,      \* states the package source may be in
    Versions,       \* versions pyproject.toml may declare
    Rank,           \* the position of each entry in sorted order
    Committed,      \* the inode of the executable in the repository
    Shipped,        \* its entries
    NoFile, Missing,
    MaxEdits        \* bound: changes of the inputs

\* The entry point, the package, its synthetic metadata, and the driver with
\* its licence and metadata.
Names == {"__main__.py", "mfviz", "microflows_viz.dist-info", "pymysql",
          "pymysql.dist-info"}

Files == Builders \cup {Committed}

Contents == Revisions \cup Versions \cup {"entry", "driver", "licence"}

Entries == Names \X Contents

NamesIn(archive) == {archive[i][1] : i \in DOMAIN archive}

\* Every entry is there, the licence among them.
Whole(archive) == NamesIn(archive) = Names

ASSUME ZipappAssumption ==
    /\ Committed \notin Builders /\ NoFile \notin Files
    /\ Missing \notin Contents
    /\ Rank \in [Names -> Nat]
    /\ \A m, n \in Names : Rank[m] = Rank[n] => m = n
    /\ Shipped \in Seq(Entries) /\ Whole(Shipped)
    /\ MaxEdits \in Nat

VARIABLES
    inputs,     \* the source tree, pyproject.toml and .venv
    edits,      \* how often they have changed
    builder,    \* each build: how far, what is staged, what is left to write
    heap,       \* the entries in each inode
    mode,       \* its permissions
    artifact,   \* the inode under the target's name
    pending,    \* the temporary names that exist, by build
    reader      \* each program: the inode it holds and what it has read

vars == <<inputs, edits, builder, heap, mode, artifact, pending, reader>>

Inputs == [src : Revisions \cup {Missing}, version : Versions \cup {Missing},
           venv : {"absent", "bare", "unlicensed", "ok"}]

Steps == {"idle", "checked", "source", "dependency", "staged", "made", "writing",
          "executable", "done", "failed", "killed"}

Running == Steps \ {"idle", "done", "failed", "killed"}

Nothing == [n \in Names |-> Missing]

-----------------------------------------------------------------------------
Init ==
    /\ inputs \in [src : Revisions, version : Versions,
                   venv : {"absent", "bare", "unlicensed", "ok"}]
    /\ edits = 0
    /\ builder = [b \in Builders |->
                     [at |-> "idle", version |-> Missing, staged |-> Nothing,
                      left |-> {}, began |-> inputs, steady |-> TRUE]]
    /\ heap = [f \in Files |-> IF f = Committed THEN Shipped ELSE <<>>]
    /\ mode = [f \in Files |-> IF f = Committed THEN "rwxr-xr-x" ELSE "rw-------"]
    /\ artifact \in {Committed, NoFile}
    /\ pending = {}
    /\ reader = [r \in Readers |-> [file |-> NoFile, got |-> <<>>, read |-> FALSE]]

\* An edit of the sources, a version bump, `just setup`, a removed .venv.
Edit ==
    /\ edits < MaxEdits
    /\ edits' = edits + 1
    /\ inputs' \in Inputs \ {inputs}
    /\ builder' = [b \in Builders |->
                      [builder[b] EXCEPT !.steady = @ /\ builder[b].at \notin Running]]
    /\ UNCHANGED <<heap, mode, artifact, pending, reader>>

Reach(b, step) == builder' = [builder EXCEPT ![b].at = step]

UntouchedFiles == UNCHANGED <<inputs, edits, heap, mode, artifact, pending, reader>>

Reject(b) == Reach(b, "failed") /\ UntouchedFiles

\* The package source, the version and PyMySQL must be found first.
Found(i) == i.src # Missing /\ i.version # Missing /\ i.venv \in {"unlicensed", "ok"}

Begin(b) ==
    /\ builder[b].at = "idle"
    /\ IF Found(inputs)
       THEN /\ builder' = [builder EXCEPT ![b].at = "checked", ![b].began = inputs,
                                          ![b].version = inputs.version]
            /\ UntouchedFiles
       ELSE Reject(b)

Stage(b, step, values) ==
    /\ builder' = [builder EXCEPT ![b].at = step,
                     ![b].staged = [n \in Names |->
                         IF n \in DOMAIN values THEN values[n] ELSE @[n]]]
    /\ UntouchedFiles

\* Deviation: a missing source tree is staged as an empty entry.
StageWhatIsThere(b) ==
    /\ builder[b].at = "checked"
    /\ Stage(b, "source", [n \in {"mfviz"} |-> inputs.src])

StageSource(b) ==
    /\ builder[b].at = "checked"
    /\ IF inputs.src = Missing THEN Reject(b)
       ELSE Stage(b, "source", [n \in {"mfviz"} |-> inputs.src])

StageDependency(b) ==
    /\ builder[b].at = "source"
    /\ IF inputs.venv \in {"absent", "bare"} THEN Reject(b)
       ELSE Stage(b, "dependency", [n \in {"pymysql"} |-> "driver"])

\* Without the driver's licence there is no build.
StageLicence(b) ==
    /\ builder[b].at = "dependency"
    /\ IF inputs.venv # "ok" THEN Reject(b)
       ELSE Stage(b, "staged",
                  [n \in {"pymysql.dist-info", "microflows_viz.dist-info", "__main__.py"} |->
                      CASE n = "pymysql.dist-info" -> "licence"
                        [] n = "microflows_viz.dist-info" -> builder[b].version
                        [] OTHER -> "entry"])

\* mkstemp, before the `try`.
MakePending(b) ==
    /\ builder[b].at = "staged"
    /\ pending' = pending \cup {b}
    /\ Reach(b, "made")
    /\ UNCHANGED <<inputs, edits, heap, mode, artifact, reader>>

\* Deviation: the archive is written over the artifact.
InPlace(b) == IF artifact = NoFile THEN b ELSE artifact

\* The file the archive is written to.
Destination(b) == b

OpenArchive(b) ==
    /\ builder[b].at = "made"
    /\ builder' = [builder EXCEPT ![b].at = "writing", ![b].left = Names]
    /\ heap' = [heap EXCEPT ![Destination(b)] = <<>>]
    /\ UNCHANGED <<inputs, edits, mode, artifact, pending, reader>>

\* Deviation: the entries come as the directory lists them, up or down.
AsListed(b) ==
    {n \in builder[b].left :
        \/ \A m \in builder[b].left : Rank[n] <= Rank[m]
        \/ builder[b].left = Names /\ \A m \in Names : Rank[n] >= Rank[m]}

\* The entries are written in sorted order.
Earliest(b) ==
    {n \in builder[b].left : \A m \in builder[b].left : Rank[n] <= Rank[m]}

WriteEntry(b) ==
    /\ builder[b].at = "writing"
    /\ \E n \in Earliest(b) :
          /\ builder' = [builder EXCEPT ![b].left = @ \ {n}]
          /\ heap' = [heap EXCEPT ![Destination(b)] =
                                      Append(@, <<n, builder[b].staged[n]>>)]
    /\ UNCHANGED <<inputs, edits, mode, artifact, pending, reader>>

MakeExecutable(b) ==
    /\ builder[b].at = "writing" /\ builder[b].left = {}
    /\ mode' = [mode EXCEPT ![Destination(b)] = "rwxr-xr-x"]
    /\ Reach(b, "executable")
    /\ UNCHANGED <<inputs, edits, heap, artifact, pending, reader>>

Replace(b) ==
    /\ builder[b].at = "executable"
    /\ artifact' = b
    /\ pending' = pending \ {b}
    /\ Reach(b, "done")
    /\ UNCHANGED <<inputs, edits, heap, mode, reader>>

\* What an exception leaves of the temporary names: inside the `try` the
\* build's own is unlinked, between mkstemp and the `try` it is not.
Unlinked(b) ==
    IF builder[b].at = "made" THEN {pending, pending \ {b}} ELSE {pending \ {b}}

\* A full disk, an unreadable file, an interrupt.
Raise(b) ==
    /\ builder[b].at \in Running
    /\ pending' \in Unlinked(b)
    /\ Reach(b, "failed")
    /\ UNCHANGED <<inputs, edits, heap, mode, artifact, reader>>

Kill(b) ==
    /\ builder[b].at \in Running
    /\ Reach(b, "killed")
    /\ UntouchedFiles

\* A program opens the executable, and reads it later through its inode.
Open(r) ==
    /\ artifact # NoFile
    /\ reader' = [reader EXCEPT ![r].file = artifact, ![r].read = FALSE, ![r].got = <<>>]
    /\ UNCHANGED <<inputs, edits, builder, heap, mode, artifact, pending>>

Read(r) ==
    /\ reader[r].file # NoFile /\ ~reader[r].read
    /\ reader' = [reader EXCEPT ![r].got = heap[reader[r].file], ![r].read = TRUE]
    /\ UNCHANGED <<inputs, edits, builder, heap, mode, artifact, pending>>

Build(b) ==
    \/ Begin(b) \/ StageSource(b) \/ StageDependency(b) \/ StageLicence(b)
    \/ MakePending(b) \/ OpenArchive(b) \/ WriteEntry(b) \/ MakeExecutable(b)
    \/ Replace(b)

Next ==
    \/ Edit
    \/ \E b \in Builders : Build(b) \/ Raise(b) \/ Kill(b)
    \/ \E r \in Readers : Open(r) \/ Read(r)

Spec == Init /\ [][Next]_vars

-----------------------------------------------------------------------------
(* Properties.                                                               *)

\* Every variable keeps its type; a temporary name exists only for a build
\* that has got to mkstemp.
ZipTypeOK ==
    /\ inputs \in Inputs
    /\ edits \in 0..MaxEdits
    /\ builder \in [Builders ->
          [at : Steps, version : Versions \cup {Missing},
           staged : [Names -> Contents \cup {Missing}], left : SUBSET Names,
           began : Inputs, steady : BOOLEAN]]
    /\ heap \in [Files -> Seq(Entries)]
    /\ mode \in [Files -> {"rw-------", "rwxr-xr-x"}]
    /\ artifact \in Files \cup {NoFile}
    /\ pending \subseteq Builders
    /\ reader \in [Readers -> [file : Files \cup {NoFile}, got : Seq(Entries),
                               read : BOOLEAN]]

\* Whatever lies under the artifact's name is a complete, licensed, executable
\* archive, and so is whatever a program that has opened it reads, at any later
\* moment: a build that fails, is killed or races another never leaves a
\* half-written file ("a concurrent reader never sees a half-written file").
ArtifactIsWhole ==
    /\ artifact # NoFile =>
          Whole(heap[artifact]) /\ mode[artifact] = "rwxr-xr-x"
    /\ \A r \in Readers : reader[r].read => Whole(reader[r].got)

\* Two builds of the same inputs, undisturbed, write the same bytes: the
\* committed executable can be verified against a fresh build.
SameInputsSameArchive ==
    \A b, c \in Builders :
        /\ builder[b].at \in {"executable", "done"} /\ builder[b].steady
        /\ builder[c].at \in {"executable", "done"} /\ builder[c].steady
        /\ builder[b].began = builder[c].began
        => heap[b] = heap[c]

=============================================================================
