------------------------ MODULE SnapshotSourceProofs ------------------------
(***************************************************************************)
(* What an offline migration opens, for any number of parts, runs and      *)
(* published archives: parts of one archive, and of a published one that   *)
(* its checksum names.                                                     *)
(***************************************************************************)
EXTENDS SnapshotSource, TLAPS

(***************************************************************************)
(* The inductive invariant                                                 *)
(***************************************************************************)
Downloading == {"download", "request", "stream", "verify"}
Extracting  == {"unpack", "open", "opened"}

\* The server's archive only gets newer, and so does what arrives.
Newer ==
    /\ since <= published
    /\ pc = "stream" => arriving >= since

\* Only a url is downloaded; the archive is there when its checksum is fetched.
ArchiveFetched ==
    pc \in Downloading =>
        /\ source = "url"
        /\ file = "sums" \/ pc = "verify" => files["archive"].origin >= since

\* A downloaded archive is extracted only behind the comparison.
Verified ==
    pc \in {"extract"} \cup Extracting /\ source = "url" =>
        ChecksumMatches /\ files["archive"].origin >= since

\* The directory of the extraction holds parts of this archive alone.
OneExtraction ==
    pc \in Extracting /\ source # "directory" =>
        \A p \in Parts : dataDir.parts[p] \in {Nothing, Archive.origin}

Inv == TypeOK /\ Newer /\ ArchiveFetched /\ Verified /\ OneExtraction /\ OneArchive

\* The invariant holds before the first run.
LEMMA InitInv == Init => Inv
  BY BoundsAssumption
  DEF Init, Inv, TypeOK, Newer, ArchiveFetched, Verified, OneExtraction, OneArchive,
      Downloading, Extracting, Versions, Origins, Sources, Files, Content, Empty,
      Cleared, Fresh, Nothing, Tarball, Directory, Waits, Ended

\* The steps of the download.
LEMMA DownloadInv ==
    ASSUME Inv,
           StartDownload \/ GetResponse \/ EndDownload \/ LoseResponse \/ VerifyChecksum
    PROVE  Inv'
<1> USE BoundsAssumption
        DEF Inv, TypeOK, Newer, ArchiveFetched, Verified, OneExtraction, OneArchive,
            Downloading, Extracting, Versions, Origins, Sources, Files, Content,
            Nothing, Tarball, Directory, Waits, Ended, Goto, disk
<1>1. CASE StartDownload
  <2>1. Empty \in Content
    BY DEF Empty
  <2>2. files' \in [Files -> Content]
    BY <1>1, <2>1 DEF StartDownload
  <2>3. file = "sums" => files'["archive"] = files["archive"]
    BY <1>1 DEF StartDownload
  <2>4. pc' \in {"request", "caught"} /\ UNCHANGED <<run, source, since>>
    BY <1>1 DEF StartDownload
  <2> QED
    BY <1>1, <2>2, <2>3, <2>4 DEF StartDownload
<1>2. CASE GetResponse
  BY <1>2 DEF GetResponse
<1>3. CASE EndDownload
  BY <1>3 DEF EndDownload, Received
<1>4. CASE LoseResponse
  BY <1>4 DEF LoseResponse, Received
<1>5. CASE VerifyChecksum
  BY <1>5 DEF VerifyChecksum, ChecksumMatches
<1> QED
  BY <1>1, <1>2, <1>3, <1>4, <1>5

\* The steps of the extraction, and opening the database.
LEMMA ExtractionInv ==
    ASSUME Inv,
           \/ StartExtraction \/ EndReading \/ TarFails \/ OpenDatabase
           \/ MakeEntry \/ \E p \in Parts : WritePart(p)
    PROVE  Inv'
<1> USE BoundsAssumption
        DEF Inv, TypeOK, Newer, ArchiveFetched, Verified, OneExtraction, OneArchive,
            Downloading, Extracting, Versions, Origins, Sources, Files, Content,
            Nothing, Tarball, Directory, Waits, Ended, Goto, disk, Archive,
            ChecksumMatches
<1>1. CASE StartExtraction
  <2>1. Fresh \in [entry : BOOLEAN, parts : [Parts -> Origins]]
        /\ \A p \in Parts : Fresh.parts[p] = Nothing
    <3>1. Nothing \in Origins
      OBVIOUS
    <3> HIDE DEF Nothing, Origins
    <3>2. Cleared \in [Parts -> Origins] /\ \A p \in Parts : Cleared[p] = Nothing
      BY <3>1 DEF Cleared
    <3> QED
      BY <3>2 DEF Fresh
  <2>2. /\ pc = "extract" /\ pc' \in {"unpack", "caught"}
        /\ (dataDir' = Fresh \/ (pc' = "caught" /\ dataDir' = dataDir))
        /\ unwritten' \subseteq Parts
        /\ UNCHANGED <<published, files, tarball, run, source, since, file, arriving,
                       database>>
    BY <1>1 DEF StartExtraction, DirectoryMade
  <2>3. dataDir' \in [entry : BOOLEAN, parts : [Parts -> Origins]]
    BY <2>1, <2>2
  <2>4. TypeOK' /\ Newer' /\ ArchiveFetched' /\ Verified' /\ OneArchive'
    BY <2>2, <2>3
  <2>5. OneExtraction'
    BY <2>1, <2>2
  <2> QED
    BY <2>4, <2>5
<1>2. CASE EndReading
  BY <1>2 DEF EndReading
<1>3. CASE TarFails
  BY <1>3 DEF TarFails
<1>4. CASE OpenDatabase
  BY <1>4 DEF OpenDatabase, EntryFound, SnapshotFound
<1>5. ASSUME NEW p \in Parts, WritePart(p) PROVE Inv'
  <2>1. /\ pc \in {"unpack", "open", "opened"}
        /\ unwritten' \subseteq unwritten
        /\ dataDir' = [dataDir EXCEPT !.parts[p] = Archive.origin]
        /\ UNCHANGED <<published, files, tarball, pc, run, source, since, file, arriving,
                       database>>
    BY <1>5 DEF WritePart
  <2>2. Archive.origin \in Origins /\ Archive' = Archive
    BY <2>1
  <2>3. /\ dataDir'.entry = dataDir.entry
        /\ dataDir'.parts = [dataDir.parts EXCEPT ![p] = Archive.origin]
        /\ dataDir' \in [entry : BOOLEAN, parts : [Parts -> Origins]]
    BY <2>1, <2>2
  <2>4. TypeOK' /\ Newer' /\ ArchiveFetched' /\ Verified'
    BY <2>1, <2>3
  <2>5. OneExtraction' /\ OneArchive'
    BY <2>1, <2>2, <2>3
  <2> QED
    BY <2>4, <2>5
<1>6. CASE MakeEntry
  BY <1>6 DEF MakeEntry, process
<1> QED
  BY <1>1, <1>2, <1>3, <1>4, <1>5, <1>6

\* A new run, the server, and a crash.
LEMMA OtherInv ==
    ASSUME Inv, Publish \/ Crash \/ \E s \in Sources : Begin(s) PROVE Inv'
<1> USE BoundsAssumption
        DEF Inv, TypeOK, Newer, ArchiveFetched, Verified, OneExtraction, OneArchive,
            Downloading, Extracting, Versions, Origins, Sources, Files, Content,
            Nothing, Tarball, Directory, Waits, Ended, disk, Archive, ChecksumMatches
<1>1. CASE Publish
  BY <1>1 DEF Publish, process
<1>2. CASE Crash
  BY <1>2 DEF Crash, Goto
<1>3. CASE \E s \in Sources : Begin(s)
  BY <1>3 DEF Begin, Cleared
<1> QED
  BY <1>1, <1>2, <1>3

(***************************************************************************)
(* The theorems                                                            *)
(***************************************************************************)
\* The invariant is inductive.
THEOREM Invariance == Spec => []Inv
<1>1. Inv /\ [Next]_vars => Inv'
  <2> SUFFICES ASSUME Inv, [Next]_vars PROVE Inv'
    OBVIOUS
  <2>1. CASE Next
    BY <2>1, DownloadInv, ExtractionInv, OtherInv DEF Next, Proceed
  <2>2. CASE UNCHANGED vars
    BY <2>2
    DEF vars, disk, process, Inv, TypeOK, Newer, ArchiveFetched, Verified,
        OneExtraction, OneArchive, Archive, ChecksumMatches
  <2> QED
    BY <2>1, <2>2
<1> QED
  BY <1>1, InitInv, PTL DEF Spec

\* Every variable keeps its type, and no extraction is opened before tar has
\* created the directory of the archive; nothing may be in it yet.
THEOREM TypeCorrect == Spec => []TypeOK
  BY Invariance, PTL DEF Inv

\* Extracted parts are never of two archives, whatever runs were killed before.
THEOREM NeverMixed == Spec => []OneArchive
  BY Invariance, PTL DEF Inv

\* What a download opens is what its checksum names, published since the run
\* began, however often the server publishes while the two files are fetched.
THEOREM PublishedWhenOpened == Spec => []OpenedIsPublished
<1>1. Inv => OpenedIsPublished
  BY DEF Inv, Verified, Extracting, OneArchive, Archive, ChecksumMatches,
     OpenedIsPublished
<1> QED
  BY <1>1, Invariance, PTL
=============================================================================
