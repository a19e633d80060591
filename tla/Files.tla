------------------------------- MODULE Files --------------------------------
(* What the agents have read and what they may replace: Reads of           *)
(* src/src/tool/write.rs and the reading half of src/src/tool/find.rs.     *)
(*                                                                         *)
(* A file is its content; the signature of a content is the content, so    *)
(* collisions of the hash are left out.  find reads a file and leaves the  *)
(* evidence later, without a lock between; write and edit hold the lock of *)
(* the evidence from their look at the file to its replacement.  Somebody  *)
(* outside the process takes no lock.                                      *)
EXTENDS FiniteSets

CONSTANTS
    Reader,    \* a turn and request: whose evidence it is
    Path,
    Content,
    Text,      \* the contents that can be read as text, within the limit
    Missing    \* no such file, no such evidence, nobody

VARIABLES
    disk,      \* the content of each file
    seen,      \* Reads.seen: what each reader has evidence of
    finding,   \* the marks of a find that are not left yet
    editor,    \* the write or edit that holds the lock
    known,     \* history: the contents a reader was shown
    meddled,   \* history: somebody outside changed a file under the lock
    last       \* history: the last replacement: what it said it replaces, and did replace

filesVars == <<disk, seen, finding, editor, known, meddled, last>>

Nothing == [path \in Path |-> Missing]
Edited == [reader : Reader, path : Path, kind : {"write", "edit"},
           old : Content \cup {Missing}, new : Text]

ASSUME FilesAssumption ==
    /\ Missing \notin Content
    /\ Text \subseteq Content

FilesInit ==
    /\ disk \in [Path -> Text \cup {Missing}]
    /\ seen = [r \in Reader |-> Nothing]
    /\ finding = [r \in Reader |-> Nothing]
    /\ editor = {}
    /\ known = [r \in Reader |-> {}]
    /\ meddled = FALSE
    /\ last = {}

\* A read of one file, or a search: the files with a hit on the page are marked.
Finds(r) ==
    /\ finding[r] = Nothing
    /\ \E found \in SUBSET {p \in Path : disk[p] \in Text} \ {{}} :
        finding' = [finding EXCEPT ![r] = [p \in Path |-> IF p \in found THEN disk[p] ELSE Missing]]
    /\ UNCHANGED <<disk, seen, editor, known, meddled, last>>

\* Reads::mark, then the result is shown.
Marks(r) ==
    /\ finding[r] # Nothing
    /\ editor = {}
    /\ seen' = [seen EXCEPT ![r] =
                   [p \in Path |-> IF finding[r][p] = Missing THEN @[p] ELSE finding[r][p]]]
    /\ known' = [known EXCEPT ![r] = @ \cup {<<p, finding[r][p]>> :
                   p \in {q \in Path : finding[r][q] # Missing}}]
    /\ finding' = [finding EXCEPT ![r] = Nothing]
    /\ UNCHANGED <<disk, editor, meddled, last>>

\* Reads::write up to the diff: the old content is read, evidence is not asked for.
WriteBegins(r) ==
    /\ editor = {}
    /\ \E p \in Path, new \in Text :
        /\ disk[p] \in Text \cup {Missing}
        /\ editor' = {[reader |-> r, path |-> p, kind |-> "write", old |-> disk[p], new |-> new]}
    /\ last' = {}
    /\ UNCHANGED <<disk, seen, finding, known, meddled>>

\* Mutant: any evidence will do.
EditBeginsUnread(r) ==
    /\ editor = {}
    /\ \E p \in Path, new \in Text :
        /\ seen[r][p] # Missing
        /\ disk[p] \in Text
        /\ editor' = {[reader |-> r, path |-> p, kind |-> "edit", old |-> disk[p], new |-> new]}
    /\ last' = {}
    /\ UNCHANGED <<disk, seen, finding, known, meddled>>

\* Reads::edit up to the diff: this reader has evidence, and it is what is there.
EditBegins(r) ==
    /\ editor = {}
    /\ \E p \in Path, new \in Text :
        /\ seen[r][p] # Missing
        /\ disk[p] = seen[r][p]
        /\ editor' = {[reader |-> r, path |-> p, kind |-> "edit", old |-> disk[p], new |-> new]}
    /\ last' = {}
    /\ UNCHANGED <<disk, seen, finding, known, meddled>>

\* The rename: the mode of a file that was there is copied before, so that one that
\* has gone since is an error.
Replaces(op) ==
    /\ op.old # Missing => disk[op.path] # Missing
    /\ disk' = [disk EXCEPT ![op.path] = op.new]
    /\ last' = {<<op, disk[op.path], meddled>>}

\* A write drops the evidence of everybody, an edit renews its own.
Succeeds ==
    /\ \E op \in editor :
        /\ Replaces(op)
        /\ seen' = IF op.kind = "write"
                   THEN [r \in Reader |-> [seen[r] EXCEPT ![op.path] = Missing]]
                   ELSE [seen EXCEPT ![op.reader][op.path] = op.new]
        /\ known' = IF op.kind = "write" THEN known
                    ELSE [known EXCEPT ![op.reader] = @ \cup {<<op.path, op.new>>}]
    /\ editor' = {} /\ meddled' = FALSE
    /\ UNCHANGED finding

\* An error after the rename (the directory cannot be synchronised) leaves the new
\* file and the old evidence; one before it leaves everything.
Fails ==
    /\ \E op \in editor :
        Replaces(op) \/ UNCHANGED <<disk, last>>
    /\ editor' = {} /\ meddled' = FALSE
    /\ UNCHANGED <<seen, finding, known>>

Outsider ==
    /\ \E p \in Path, c \in Content \cup {Missing} :
        /\ c # disk[p]
        /\ disk' = [disk EXCEPT ![p] = c]
    /\ meddled' = (editor # {})
    /\ UNCHANGED <<seen, finding, editor, known, last>>

FilesNext ==
    \/ \E r \in Reader : Finds(r) \/ Marks(r) \/ WriteBegins(r) \/ EditBegins(r)
    \/ Succeeds \/ Fails \/ Outsider

FilesSpec == FilesInit /\ [][FilesNext]_filesVars

FilesTypeOK ==
    /\ disk \in [Path -> Content \cup {Missing}]
    /\ seen \in [Reader -> [Path -> Content \cup {Missing}]]
    /\ finding \in [Reader -> [Path -> Content \cup {Missing}]]
    /\ editor \subseteq Edited
    /\ known \in [Reader -> SUBSET (Path \X Content)]
    /\ meddled \in BOOLEAN
    /\ last \subseteq Edited \X (Content \cup {Missing}) \X BOOLEAN

\* No agent destroys what it has not been shown: what an edit replaced is what its
\* diff says and a content that this reader was shown, although others wrote the
\* file between its reading and its evidence, or after; what a write replaced is
\* what its diff says.  The exception is somebody outside who came in between.
ReplacesWhatItSaw ==
    \A change \in last :
        LET op == change[1] IN
        change[3] \/ /\ change[2] = op.old
                     /\ op.kind = "edit" => <<op.path, op.old>> \in known[op.reader]
=============================================================================
