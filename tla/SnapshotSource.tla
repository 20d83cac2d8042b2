--------------------------- MODULE SnapshotSource ---------------------------
(***************************************************************************)
(* Where the database of an offline migration comes from: a url, whose     *)
(* archive is downloaded, checked against its .SHA256 file and extracted   *)
(* (src/utils/download.ts, src/utils/fs.ts), a tarball of the operator's,  *)
(* or a directory of his (src/utils/path.ts).  LiskMigrator has all of it  *)
(* as FetchSnapshot and OpenSnapshot.                                      *)
(*                                                                         *)
(* The server may publish another archive at any time, between the two     *)
(* downloads too; what a killed run leaves is met by the next one; and tar *)
(* writes files on its own, while its input is read and after that.        *)
(***************************************************************************)
EXTENDS Integers

CONSTANTS
    Parts,      \* the files of a database
    MaxRuns,    \* bound: how often the operator runs the command
    MaxVersion  \* bound: how many archives the server publishes

ASSUME BoundsAssumption == MaxRuns \in Nat /\ MaxVersion \in Nat \ {0}

\* What a part of a database may come from, the server's archives apart.
Nothing   == 0
Tarball   == MaxVersion + 1
Directory == MaxVersion + 2

Versions == 1..MaxVersion
Origins  == Nothing..Directory
Sources  == {"url", "tarball", "directory"}
Files    == {"archive", "sums"}

VARIABLES
    published,  \* the server's current archive
    \* The files that outlive the process: those of the output directory, the
    \* operator's tarball, and the directory archives are extracted to: whether it
    \* has an entry (an archive holds one directory), and the parts below that.
    files, tarball, dataDir,
    \* The process.
    pc, run,
    source,     \* --snapshot-url, or --snapshot-path to a tarball or directory
    file,       \* the file being downloaded
    arriving,   \* the archive its response is about
    unwritten,  \* parts that tar has read and not written
    database,   \* what the database held when it was opened
    since       \* history: the server's archive when this run began

disk    == <<files, tarball, dataDir>>
process == <<pc, run, source, file, arriving, unwritten, database, since>>
vars    == <<published, disk, process>>

Content == [origin : Origins, whole : BOOLEAN]
Empty   == [origin |-> Nothing, whole |-> FALSE]
Cleared == [p \in Parts |-> Nothing]
Fresh   == [entry |-> FALSE, parts |-> Cleared]

Waits == {"download", "request", "stream", "verify", "extract", "unpack", "open"}
\* An exception the outer catch handles; one nobody listens to; and a process
\* whose promise never settles, with nothing left to do.
Ended == {"off", "caught", "died", "silent"}

TypeOK ==
    /\ published \in Versions
    /\ files \in [Files -> Content] /\ tarball \in Content
    /\ dataDir \in [entry : BOOLEAN, parts : [Parts -> Origins]]
    /\ pc \in Waits \cup Ended \cup {"opened"}
    /\ run \in 0..MaxRuns
    /\ source \in Sources /\ file \in Files
    /\ arriving \in Versions /\ since \in Versions
    /\ unwritten \subseteq Parts
    /\ database \in [Parts -> Origins]
    /\ pc = "opened" /\ source # "directory" => dataDir.entry

Init ==
    /\ published = 1 /\ since = 1 /\ arriving = 1
    /\ files = [f \in Files |-> Empty]
    /\ tarball \in [origin : {Tarball}, whole : BOOLEAN]
    /\ dataDir = Fresh /\ database = Cleared
    /\ pc = "off" /\ run = 0 /\ source \in Sources /\ file = "archive"
    /\ unwritten = {}

Goto(l) == pc' = l /\ UNCHANGED <<run, source, since>>

(***************************************************************************)
(* The download                                                            *)
(***************************************************************************)
Begin(s) ==
    /\ pc \in Ended \cup {"opened"}
    /\ run < MaxRuns
    /\ run' = run + 1 /\ source' = s /\ since' = published
    /\ pc' = CASE s = "url"       -> "download"
               [] s = "tarball"   -> "extract"
               [] s = "directory" -> "open"
    /\ file' = "archive" /\ unwritten' = {} /\ database' = Cleared
    /\ UNCHANGED <<published, disk, arriving>>

\* download, up to its await: the file of an earlier run is unlinked, and an
\* empty one created.
StartDownload ==
    /\ pc = "download"
    /\ \/ files' = [files EXCEPT ![file] = Empty] /\ Goto("request")
       \/ UNCHANGED files /\ Goto("caught")
    /\ UNCHANGED <<published, tarball, dataDir, file, arriving, unwritten, database>>

\* The write stream is open already, and has no listener before the response
\* is there: a file that cannot be created ends the process.
GetResponse ==
    /\ pc = "request"
    /\ \/ arriving' = published /\ Goto("stream")
       \/ (Goto("caught") \/ Goto("died")) /\ UNCHANGED arriving
    /\ UNCHANGED <<published, disk, file, unwritten, database>>

Received(isWhole) ==
    files' = [files EXCEPT ![file] = [origin |-> arriving, whole |-> isWhole]]

\* The file is written, perhaps less than the server has; or writing fails.
EndDownload ==
    /\ pc = "stream"
    /\ \E isWhole \in BOOLEAN : Received(isWhole)
    /\ \/ file = "archive" /\ file' = "sums" /\ Goto("download")
       \/ file = "sums" /\ UNCHANGED file /\ Goto("verify")
       \/ UNCHANGED file /\ Goto("caught")
    /\ UNCHANGED <<published, tarball, dataDir, arriving, unwritten, database>>

\* The connection breaks: the promise listens to the write stream alone, which
\* gets neither 'finish' nor 'error'; the event loop runs empty.
LoseResponse ==
    /\ pc = "stream"
    /\ Received(FALSE)
    /\ Goto("silent")
    /\ UNCHANGED <<published, tarball, dataDir, file, arriving, unwritten, database>>

\* Mutant: the digest is computed and not compared.
ChecksumMatches_NotCompared == files["sums"].whole

\* getChecksum and verifyChecksum: the .SHA256 file is that of the archive.
ChecksumMatches ==
    /\ files["archive"].whole /\ files["sums"].whole
    /\ files["archive"].origin = files["sums"].origin

VerifyChecksum ==
    /\ pc = "verify"
    /\ \/ ChecksumMatches /\ Goto("extract")
       \/ Goto("caught")
    /\ UNCHANGED <<published, disk, file, arriving, unwritten, database>>

(***************************************************************************)
(* The extraction                                                          *)
(***************************************************************************)
Archive == IF source = "url" THEN files["archive"] ELSE tarball

\* Mutant: the directory is created only if there is none.
DirectoryMade_Kept == dataDir

\* rmdirSync and mkdirSync.
DirectoryMade == Fresh

StartExtraction ==
    /\ pc = "extract"
    /\ \/ dataDir' = DirectoryMade /\ unwritten' = Parts /\ Goto("unpack")
       \/ UNCHANGED <<dataDir, unwritten>> /\ Goto("caught")
    /\ UNCHANGED <<published, files, tarball, file, arriving, database>>

\* While the process runs, tar creates the directory that the archive holds,
\* before any file in it.
MakeEntry ==
    /\ pc \in {"unpack", "open", "opened"}
    /\ source # "directory" /\ ~dataDir.entry
    /\ dataDir' = [dataDir EXCEPT !.entry = TRUE]
    /\ UNCHANGED <<published, files, tarball, process>>

\* tar writes a part, as long as the process runs.
WritePart(p) ==
    /\ pc \in {"unpack", "open", "opened"}
    /\ dataDir.entry /\ p \in unwritten
    /\ Archive.whole \/ unwritten # {p}
    /\ unwritten' = unwritten \ {p}
    /\ dataDir' = [dataDir EXCEPT !.parts[p] = Archive.origin]
    /\ UNCHANGED <<published, files, tarball, pc, run, source, since, file, arriving,
                   database>>

\* The archive is read to its end, 100ms pass, and the promise resolves; what
\* tar still has to write plays no part in it.
EndReading ==
    /\ pc = "unpack"
    /\ Goto("open") \/ Goto("caught")
    /\ UNCHANGED <<published, disk, file, arriving, unwritten, database>>

\* A damaged archive is an 'error' of the tar stream, which nobody listens to.
TarFails ==
    /\ pc \in {"unpack", "open"}
    /\ source # "directory" /\ ~Archive.whole
    /\ Goto("died")
    /\ UNCHANGED <<published, disk, file, arriving, unwritten, database>>

(***************************************************************************)
(* Opening the database                                                    *)
(***************************************************************************)
\* resolveSnapshotPath: the operator's directory, or the first entry of the
\* directory of the extraction.
SnapshotFound ==
    IF source = "directory" THEN [p \in Parts |-> Directory] ELSE dataDir.parts

\* Mutant: with no entry the directory itself is taken.
EntryFound_Always == TRUE

\* Without an entry path.join throws; an entry is all it asks for.
EntryFound == source = "directory" \/ dataDir.entry

\* Nothing need be there of the database yet, which may refuse to open, too.
OpenDatabase ==
    /\ pc = "open"
    /\ \/ /\ EntryFound
          /\ database' = SnapshotFound
          /\ Goto("opened")
       \/ UNCHANGED database /\ Goto("caught")
    /\ UNCHANGED <<published, disk, file, arriving, unwritten>>

(***************************************************************************)
(* The server, and the process as a whole                                  *)
(***************************************************************************)
Publish ==
    /\ published < MaxVersion
    /\ published' = published + 1
    /\ UNCHANGED <<disk, process>>

Crash ==
    /\ pc \in Waits
    /\ Goto("off")
    /\ UNCHANGED <<published, disk, file, arriving, unwritten, database>>

Proceed ==
    \/ StartDownload \/ GetResponse \/ EndDownload \/ LoseResponse
    \/ VerifyChecksum \/ StartExtraction \/ EndReading \/ TarFails \/ OpenDatabase

Next ==
    \/ \E s \in Sources : Begin(s)
    \/ Proceed
    \/ MakeEntry \/ \E p \in Parts : WritePart(p)
    \/ Publish \/ Crash

Spec == Init /\ [][Next]_vars

(***************************************************************************)
(* Properties                                                              *)
(***************************************************************************)
\* What an extracted database holds comes from the archive of this run: what an
\* earlier run extracted, or began to, is not mixed into it (fs.ts:23).
OneArchive ==
    pc = "opened" /\ source # "directory" =>
        \A p \in Parts : database[p] \in {Nothing, Archive.origin}

\* A downloaded database is the one its .SHA256 file names, published no earlier
\* than this run began, although archive and checksum are fetched one after the
\* other and files of earlier runs lie in their place (download.ts:93).
OpenedIsPublished ==
    pc = "opened" /\ source = "url" =>
        \A p \in Parts : \/ database[p] = Nothing
                         \/ /\ database[p] = files["sums"].origin
                            /\ database[p] >= since

\* fs.ts:29: the "delay of 100ms since the promise resolves earlier than
\* expected" is there for a snapshot that is "Successfully extracted"
\* (index.ts:209) when it is opened.
OpenedWhole ==
    pc = "opened" /\ source = "url" => \A p \in Parts : database[p] # Nothing
=============================================================================
