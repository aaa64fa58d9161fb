----------------------------- MODULE FileSystem -----------------------------
(***************************************************************************)
(* The file system on the simulated disk (filesys/): FileSystem,           *)
(* Directory, FileHeader and OpenFile, and BitMap (userprog/bitmap.cc) for *)
(* the free sectors, used by one thread at a time, as the comment of       *)
(* Create asks.  An operation reads what it needs and then writes sectors, *)
(* one by one; Nachos may stop between two writes and be started again on  *)
(* what the disk holds.                                                    *)
(*                                                                         *)
(* A sector holds bytes, a file header, the free map, or a part of the     *)
(* directory.  The directory takes two sectors and an entry lies across    *)
(* their border, with its name in the second, as it does in the code.      *)
(***************************************************************************)
EXTENDS Integers, Sequences, FiniteSets, Functions, FiniteSetsExt

CONSTANTS
    Names,              \* the names files are given
    Key,                \* of a name, the characters strncmp compares
    NumSectors, SectorSize,
    NumDirect,          \* the data sectors a header has room for
    NumDirEntries, Split, \* the directory's entries; the one across the border
    Sizes,              \* the sizes files are created with
    Texts,              \* what is written, a set of sequences of bytes
    TransferSize, Contents, FileName, \* of fstest.cc
    MaxOps, MaxCrashes

VARIABLES
    disk,
    pending,            \* the sector writes the operation has still to do
    formatted,          \* the disk has been formatted
    opened,             \* the OpenFiles
    script,             \* the Copy or PerformanceTest that is running
    files,              \* what the files should be, by key: [id, bytes]
    ops, crashes,       \* how many of each there have been
    quiet,              \* no operation has begun since the crash
    torn,               \* a crash interrupted Create or Remove
    stray,              \* a file was written after it was removed
    fault               \* "none", or what went wrong

vars == <<disk, pending, formatted, opened, script, files, ops, crashes, quiet, torn, stray, fault>>

Sectors == 0..(NumSectors - 1)
Offsets == 0..(SectorSize - 1)
Entries == 0..(NumDirEntries - 1)
FreeMapSector == 0
DirectorySector == 1
KeyOf(n) == IF n \in Names THEN Key[n] ELSE n

Junk == -1              \* a byte nobody has written
Blank == [k |-> "data", bytes |-> [o \in Offsets |-> Junk]]
NoEntry == [inUse |-> FALSE, sector |-> -1, name |-> "?"]
NoScript == [step |-> "none"]

Init ==
    /\ disk = [s \in Sectors |-> Blank]
    /\ pending = <<>> /\ formatted = FALSE
    /\ opened = {} /\ script = NoScript /\ files = [x \in {} |-> {}]
    /\ ops = 0 /\ crashes = 0 /\ quiet = FALSE /\ torn = FALSE /\ stray = FALSE
    /\ fault = "none"

-----------------------------------------------------------------------------
(* BitMap and FileHeader.                                                  *)

(* BitMap::Find on a map with a clear bit, which is then marked.           *)
Find(map) == Min(Sectors \ map)

Header(size, sectors) == [k |-> "hdr", numBytes |-> size, dataSectors |-> sectors]
ClearSectors(map, n) ==
    [i \in 1..n |-> CHOOSE s \in Sectors \ map : Cardinality({r \in Sectors \ map : r < s}) = i - 1]

(* FileHeader::Allocate: the first clear sectors, which are then marked.   *)
Allocate(map, size) ==
    LET n == (size + SectorSize - 1) \div SectorSize
    IN  IF Cardinality(Sectors \ map) < n THEN [ok |-> FALSE]
        ELSE [ok |-> TRUE, map |-> map \cup Range(ClearSectors(map, n)),
              hdr |-> Header(size, ClearSectors(map, n))]

-----------------------------------------------------------------------------
(* Directory.                                                              *)

(* What the two sectors of the directory hold of a table.                  *)
DirA(table) ==
    [k |-> "dirA",
     table |-> [e \in 0..Split |-> IF e < Split THEN table[e] ELSE [table[e] EXCEPT !.name = "?"]]]
DirB(table) ==
    [k |-> "dirB", name |-> table[Split].name,
     table |-> [e \in (Split + 1)..(NumDirEntries - 1) |-> table[e]]]

FreeMapFile == disk[FreeMapSector].dataSectors
DirectoryFile == disk[DirectorySector].dataSectors
FreeMap == disk[FreeMapFile[1]].map

(* Directory::FetchFrom.                                                   *)
Directory ==
    LET a == disk[DirectoryFile[1]]
        b == disk[DirectoryFile[2]]
    IN  [e \in Entries |-> CASE e < Split -> a.table[e]
                             [] e = Split -> [a.table[e] EXCEPT !.name = b.name]
                             [] OTHER -> b.table[e]]

(* Directory::WriteBack and BitMap::WriteBack: the sectors they write.     *)
WriteDirectory(table) == << <<DirectoryFile[1], DirA(table)>>, <<DirectoryFile[2], DirB(table)>> >>
WriteMap(map) == << <<FreeMapFile[1], [k |-> "map", map |-> map]>> >>

FindIndex(table, n) ==
    LET found == {e \in Entries : table[e].inUse /\ KeyOf(table[e].name) = KeyOf(n)}
    IN  IF found = {} THEN -1 ELSE Min(found)

(* Directory::Add, to a table with a free entry and without the name.      *)
FreeEntries(table) == {e \in Entries : ~table[e].inUse}
Add(table, n, sector) ==
    [table EXCEPT ![Min(FreeEntries(table))] = [inUse |-> TRUE, sector |-> sector, name |-> n]]

(* Directory::Remove.                                                      *)
RemoveEntry(table, e) == [table EXCEPT ![e].inUse = FALSE]

-----------------------------------------------------------------------------
(* OpenFile.                                                               *)

Byte(s, o) == IF disk[s].k = "data" THEN disk[s].bytes[o] ELSE Junk

(* OpenFile::ReadAt: n bytes from position p on, fewer at the end.         *)
ReadAt(hdr, p, n) ==
    IF n <= 0 \/ p >= hdr.numBytes THEN <<>>
    ELSE [i \in 1..Min({n, hdr.numBytes - p}) |->
            LET at == p + i - 1
            IN  Byte(hdr.dataSectors[(at \div SectorSize) + 1], at % SectorSize)]

(* WriteAt's buffer when only the first sector is read before it is        *)
(* changed.                                                                *)
BufferFirstOnly(hdr, p, text) ==
    LET first == p \div SectorSize
        last == (p + Len(text) - 1) \div SectorSize
        old == ReadAt(hdr, first * SectorSize, SectorSize)
    IN  [i \in 0..((last - first + 1) * SectorSize - 1) |->
            LET at == first * SectorSize + i IN
            IF p <= at /\ at < p + Len(text) THEN text[at - p + 1]
            ELSE IF p # first * SectorSize /\ i < Len(old) THEN old[i + 1] ELSE Junk]

(* WriteAt's buffer: the first and the last sector are read when they are  *)
(* partly changed, and the text is laid over them.                         *)
Buffer(hdr, p, text) ==
    LET first == p \div SectorSize
        last == (p + Len(text) - 1) \div SectorSize
        firstAligned == p = first * SectorSize
        lastAligned == p + Len(text) = (last + 1) * SectorSize
        readFirst == ~firstAligned
        readLast == ~lastAligned /\ (first # last \/ firstAligned)
        Old(s) == ReadAt(hdr, s * SectorSize, SectorSize)
    IN  [i \in 0..((last - first + 1) * SectorSize - 1) |->
            LET at == first * SectorSize + i
                s == at \div SectorSize
                o == (at % SectorSize) + 1
            IN  CASE p <= at /\ at < p + Len(text) -> text[at - p + 1]
                  [] ~(p <= at /\ at < p + Len(text))
                     /\ ((s = first /\ readFirst) \/ (s = last /\ readLast))
                     /\ o <= Len(Old(s)) -> Old(s)[o]
                  [] OTHER -> Junk]

(* OpenFile::WriteAt: the bytes that fit, and the sectors that are written.*)
Fitting(hdr, p, text) ==
    IF p >= hdr.numBytes THEN <<>> ELSE SubSeq(text, 1, Min({Len(text), hdr.numBytes - p}))

WriteAt(hdr, p, text) ==
    LET fit == Fitting(hdr, p, text)
        first == p \div SectorSize
        last == (p + Len(fit) - 1) \div SectorSize
        buf == Buffer(hdr, p, fit)
    IN  IF fit = <<>> THEN <<>>
        ELSE [j \in 1..(last - first + 1) |->
                <<hdr.dataSectors[first + j],
                  [k |-> "data", bytes |-> [o \in Offsets |-> buf[(j - 1) * SectorSize + o]]]>>]

(* OpenFile::Read and Write that forget to move the position.              *)
AdvancedNot(h, n) == h
(* OpenFile::Read and Write move the position.                             *)
Advanced(h, n) == [h EXCEPT !.seek = @ + n]

-----------------------------------------------------------------------------
(* FileSystem: what the operations do.                                     *)

Idle == pending = <<>> /\ fault = "none" /\ formatted

(* The order in which Create writes, and the directory before the header.  *)
CreateOrderNameFirst(sector, hdr, table, map) ==
    WriteDirectory(table) \o << <<sector, hdr>> >> \o WriteMap(map)
CreateOrder(sector, hdr, table, map) ==
    << <<sector, hdr>> >> \o WriteDirectory(table) \o WriteMap(map)

(* FileSystem::Create: the reasons to fail, and the rest of it; a header   *)
(* that is too small for the file is not one of the reasons.               *)
CreateFails(n, size) ==
    \/ FindIndex(Directory, n) # -1
    \/ FreeMap = Sectors
    \/ FreeEntries(Directory) = {}
    \/ ~Allocate(FreeMap \cup {Find(FreeMap)}, size).ok

Creates(n, size) ==
    LET sector == Find(FreeMap)
        a == Allocate(FreeMap \cup {sector}, size)
        new == [id |-> ops', bytes |-> [i \in 1..size |-> Junk]]
    IN  IF Len(a.hdr.dataSectors) > NumDirect
        THEN fault' = "header overflow" /\ UNCHANGED <<pending, files>>
        ELSE /\ pending' = CreateOrder(sector, a.hdr, Add(Directory, n, sector), a.map)
             /\ files' = [x \in DOMAIN files \cup {KeyOf(n)} |-> IF x = KeyOf(n) THEN new ELSE files[x]]
             /\ UNCHANGED fault

(* FileHeader::Deallocate of the file, and BitMap::Clear of its header.    *)
Cleared(map, sector) == map \ (Range(disk[sector].dataSectors) \cup {sector})

(* FileSystem::Remove of a name that is there: Deallocate asserts that the *)
(* file's sectors are marked.                                              *)
Removes(n) ==
    LET e == FindIndex(Directory, n)
        sector == Directory[e].sector
    IN  CASE disk[sector].k # "hdr" -> fault' = "no header" /\ UNCHANGED <<pending, files>>
          [] disk[sector].k = "hdr" /\ ~(Range(disk[sector].dataSectors) \subseteq FreeMap) ->
                fault' = "assertion" /\ UNCHANGED <<pending, files>>
          [] OTHER ->
                /\ pending' = WriteMap(Cleared(FreeMap, sector)) \o WriteDirectory(RemoveEntry(Directory, e))
                /\ files' = [x \in DOMAIN files \ {KeyOf(n)} |-> files[x]]
                /\ UNCHANGED fault

(* FileSystem::Open and OpenFile::OpenFile: the header stays in memory.    *)
HeaderOf(n) == disk[Directory[FindIndex(Directory, n)].sector]
OpenFile(n) ==
    [key |-> KeyOf(n), hdr |-> HeaderOf(n), seek |-> 0,
     id |-> IF KeyOf(n) \in DOMAIN files THEN files[KeyOf(n)].id ELSE 0]

(* OpenFile::Write through h, at its position.                             *)
Overlaid(bytes, p, text) ==
    [i \in DOMAIN bytes |-> IF p < i /\ i <= p + Len(text) THEN text[i - p] ELSE bytes[i]]
Current(h) == h.key \in DOMAIN files /\ files[h.key].id = h.id
Writes(h, text) ==
    /\ pending' = WriteAt(h.hdr, h.seek, text)
    /\ files' = IF Current(h) THEN [files EXCEPT ![h.key].bytes = Overlaid(@, h.seek, text)] ELSE files
    /\ stray' = (stray \/ (~Current(h) /\ pending' # <<>>))

-----------------------------------------------------------------------------
(* Nachos starts on a disk that must be formatted (-f), the operations of  *)
(* a client, the disk, and a crash.                                        *)

(* FileSystem::FileSystem with format.                                     *)
Format ==
    LET m == Allocate({FreeMapSector, DirectorySector}, SectorSize)
        d == Allocate(m.map, SectorSize + 1)
        table == [e \in Entries |-> NoEntry]
    IN  /\ ~formatted /\ pending = <<>>
        /\ pending' = << <<FreeMapSector, m.hdr>>, <<DirectorySector, d.hdr>>,
                         <<m.hdr.dataSectors[1], [k |-> "map", map |-> d.map]>>,
                         <<d.hdr.dataSectors[1], DirA(table)>>,
                         <<d.hdr.dataSectors[2], DirB(table)>> >>
        /\ UNCHANGED <<disk, formatted, opened, script, files, ops, crashes, quiet, torn, stray, fault>>

Begins == Idle /\ script = NoScript /\ ops < MaxOps /\ ops' = ops + 1 /\ quiet' = FALSE

Create(n, size) ==
    /\ Begins
    /\ ~CreateFails(n, size)
    /\ Creates(n, size)
    /\ UNCHANGED <<disk, formatted, opened, script, crashes, torn, stray>>

Remove(n) ==
    /\ Begins
    /\ FindIndex(Directory, n) # -1
    /\ Removes(n)
    /\ UNCHANGED <<disk, formatted, opened, script, crashes, torn, stray>>

Open(n) ==
    /\ Begins
    /\ opened = {}
    /\ FindIndex(Directory, n) # -1
    /\ IF HeaderOf(n).k = "hdr" THEN opened' = {OpenFile(n)} /\ UNCHANGED fault
       ELSE fault' = "no header" /\ UNCHANGED opened
    /\ UNCHANGED <<disk, pending, formatted, script, files, crashes, torn, stray>>

Write(h, text) ==
    /\ Begins
    /\ Writes(h, text)
    /\ opened' = (opened \ {h}) \cup {Advanced(h, Len(Fitting(h.hdr, h.seek, text)))}
    /\ UNCHANGED <<disk, formatted, script, crashes, torn, fault>>

Read(h, n) ==
    /\ Begins
    /\ opened' = (opened \ {h}) \cup {Advanced(h, Len(ReadAt(h.hdr, h.seek, n)))}
    /\ UNCHANGED <<disk, pending, formatted, script, files, crashes, torn, stray, fault>>

Seek(h, p) ==
    /\ Begins
    /\ h.seek # p
    /\ opened' = (opened \ {h}) \cup {[h EXCEPT !.seek = p]}
    /\ UNCHANGED <<disk, pending, formatted, script, files, crashes, torn, stray, fault>>

(* OpenFile::~OpenFile.                                                    *)
Close(h) ==
    /\ Begins
    /\ opened' = opened \ {h}
    /\ UNCHANGED <<disk, pending, formatted, script, files, crashes, torn, stray, fault>>

(* SynchDisk::WriteSector.                                                 *)
WriteSector ==
    /\ pending # <<>>
    /\ disk' = [disk EXCEPT ![Head(pending)[1]] = Head(pending)[2]]
    /\ pending' = Tail(pending)
    /\ formatted' = (formatted \/ Len(pending) = 1)
    /\ UNCHANGED <<opened, script, files, ops, crashes, quiet, torn, stray, fault>>

(* Nachos stops; started again, it opens the free map and the directory    *)
(* (FileSystem::FileSystem without format).  Bytes on their way to the     *)
(* disk may have reached it or not.                                        *)
Crash ==
    LET interrupted == {pending[i][1] : i \in DOMAIN pending}
        names == formatted /\ \E i \in DOMAIN pending : pending[i][2].k # "data"
        Unsure(x) ==
            LET e == CHOOSE e \in Entries : Directory[e].inUse /\ KeyOf(Directory[e].name) = x
                hdr == disk[Directory[e].sector]
            IN  [files[x] EXCEPT !.bytes = [i \in DOMAIN @ |->
                    IF hdr.dataSectors[((i - 1) \div SectorSize) + 1] \in interrupted THEN Junk ELSE @[i]]]
    IN  /\ crashes < MaxCrashes
        /\ crashes' = crashes + 1
        /\ pending' = <<>> /\ opened' = {} /\ script' = NoScript
        /\ quiet' = TRUE
        /\ torn' = (torn \/ names)
        /\ files' = IF torn' \/ stray \/ ~formatted \/ interrupted = {} THEN files
                    ELSE [x \in DOMAIN files |-> Unsure(x)]
        /\ UNCHANGED <<disk, formatted, ops, stray, fault>>

-----------------------------------------------------------------------------
(* fstest.cc.                                                              *)

(* Copy of a host file with the given text to the file n.                  *)
Copy(n, text) ==
    /\ Begins
    /\ ~CreateFails(n, Len(text))
    /\ Creates(n, Len(text))
    /\ script' = [step |-> "copy open", name |-> n, text |-> text]
    /\ UNCHANGED <<disk, formatted, opened, crashes, torn, stray>>

CopyOpen ==
    /\ script.step = "copy open" /\ Idle
    /\ script' = [step |-> "copy", name |-> script.name, text |-> script.text,
                  left |-> script.text, h |-> OpenFile(script.name)]
    /\ UNCHANGED <<disk, pending, formatted, opened, files, ops, crashes, quiet, torn, stray, fault>>

(* One turn of Copy's loop: the result of Write is not looked at.          *)
CopyWrite ==
    LET n == Min({TransferSize, Len(script.left)})
        chunk == SubSeq(script.left, 1, n)
    IN  /\ script.step = "copy" /\ Idle /\ script.left # <<>>
        /\ Writes(script.h, chunk)
        /\ script' = [script EXCEPT !.left = SubSeq(@, n + 1, Len(@)),
                        !.h = Advanced(@, Len(Fitting(@.hdr, @.seek, chunk)))]
        /\ UNCHANGED <<disk, formatted, opened, ops, crashes, quiet, torn, fault>>

CopyEnds ==
    /\ script.step = "copy" /\ Idle /\ script.left = <<>>
    /\ script' = NoScript
    /\ UNCHANGED <<disk, pending, formatted, opened, files, ops, crashes, quiet, torn, stray, fault>>

(* Print: the file's text, read TransferSize bytes at a time.              *)
PrintText(h) ==
    LET From[p \in 0..h.hdr.numBytes] ==
            LET chunk == ReadAt(h.hdr, p, TransferSize)
            IN  IF chunk = <<>> THEN <<>> ELSE chunk \o From[p + Len(chunk)]
    IN  From[0]

(* PerformanceTest: FileWrite creates an empty file and writes to it.      *)
PerformanceTest ==
    /\ Begins
    /\ IF CreateFails(FileName, 0)
       THEN /\ script' = [step |-> "read", name |-> FileName]
            /\ UNCHANGED <<pending, files, fault>>
       ELSE /\ Creates(FileName, 0)
            /\ script' = [step |-> "write", name |-> FileName]
    /\ UNCHANGED <<disk, formatted, opened, crashes, torn, stray>>

(* FileWrite gives up at the first Write that does not write everything.   *)
FileWrite ==
    /\ script.step = "write" /\ Idle
    /\ Writes(OpenFile(FileName), Contents)
    /\ Len(Fitting(OpenFile(FileName).hdr, 0, Contents)) < Len(Contents)
    /\ script' = [script EXCEPT !.step = "read"]
    /\ UNCHANGED <<disk, formatted, opened, ops, crashes, quiet, torn, fault>>

(* FileRead only reads, and Remove follows whatever FileWrite did.         *)
FileReadAndRemove ==
    /\ script.step = "read" /\ Idle
    /\ IF FindIndex(Directory, FileName) = -1 THEN UNCHANGED <<pending, files, fault>>
       ELSE Removes(FileName)
    /\ script' = NoScript
    /\ UNCHANGED <<disk, formatted, opened, ops, crashes, quiet, torn, stray>>

-----------------------------------------------------------------------------
Next ==
    \/ Format \/ WriteSector \/ Crash
    \/ \E n \in Names : Remove(n) \/ Open(n) \/ \E size \in Sizes : Create(n, size)
    \/ \E h \in opened : Close(h) \/ \E text \in Texts :
            Write(h, text) \/ Read(h, Len(text)) \/ Seek(h, Len(text))
    \/ \E n \in Names, text \in Texts : Copy(n, text)
    \/ CopyOpen \/ CopyWrite \/ CopyEnds
    \/ PerformanceTest \/ FileWrite \/ FileReadAndRemove

Spec == Init /\ [][Next]_vars
-----------------------------------------------------------------------------
(* The variables hold what their declarations say, and the free map and    *)
(* the directory stay where the format put them.                           *)
TypeOK ==
    /\ DOMAIN disk = Sectors
    /\ \A s \in Sectors : disk[s].k = "data" => disk[s].bytes \in [Offsets -> Int]
    /\ \A i \in DOMAIN pending : pending[i][1] \in Sectors
    /\ formatted => /\ disk[FreeMapSector].k = "hdr" /\ disk[FreeMapFile[1]].k = "map"
                    /\ disk[DirectorySector].k = "hdr"
                    /\ disk[DirectoryFile[1]].k = "dirA" /\ disk[DirectoryFile[2]].k = "dirB"
                    /\ FreeMap \subseteq Sectors
    /\ \A h \in opened : h.hdr.k = "hdr" /\ h.seek \in Nat
    /\ fault \in {"none", "header overflow", "no header", "assertion"}

Settled == formatted /\ pending = <<>>
Sound == Settled /\ ~torn /\ ~stray

Listed == {e \in Entries : Directory[e].inUse}
SectorsOf(e) ==
    LET sector == Directory[e].sector IN {sector} \cup Range(disk[sector].dataSectors)
SystemSectors ==
    {FreeMapSector, DirectorySector} \cup Range(FreeMapFile) \cup Range(DirectoryFile)

(* Between operations the free map marks exactly the sectors of the files  *)
(* the directory lists and of the file system itself, through creations,   *)
(* removals, failed creations, crashes in a write and PerformanceTest: no  *)
(* sector is lost and none is given out twice.                             *)
MapIsExact ==
    Sound => FreeMap = SystemSectors \cup UNION {SectorsOf(e) : e \in Listed}

(* After a crash at any sector write, before anything else is done, every  *)
(* file the directory lists has its header on the disk and no two files,   *)
(* nor a file and the file system, share a sector: what Create and Remove  *)
(* write first is enough to rebuild the free map from.                     *)
CrashLeavesFilesApart ==
    (Settled /\ quiet /\ ~stray) =>
        \A e \in Listed :
            /\ disk[Directory[e].sector].k = "hdr"
            /\ SectorsOf(e) \cap SystemSectors = {}
            /\ \A f \in Listed \ {e} : SectorsOf(e) \cap SectorsOf(f) = {}

(* The directory lists exactly the files that were created and not         *)
(* removed, and no two names that strncmp takes for the same.              *)
NamesAreUnique ==
    Sound => /\ {KeyOf(Directory[e].name) : e \in Listed} = DOMAIN files
             /\ Cardinality(Listed) = Cardinality(DOMAIN files)

(* A file holds the bytes that were last written to each place of it,      *)
(* whatever was done to the other files, and whichever sectors it got from *)
(* them: WriteAt changes no byte beside the ones it was given.             *)
FilesAsWritten ==
    Sound => \A e \in Listed :
        LET hdr == disk[Directory[e].sector]
            text == files[KeyOf(Directory[e].name)].bytes
            got == ReadAt(hdr, 0, hdr.numBytes)
        IN  /\ DOMAIN got = DOMAIN text
            /\ \A i \in DOMAIN text : text[i] # Junk => got[i] = text[i]

(* An OpenFile of a file that has not been removed reads, from any place   *)
(* on, what is in the file, and the pieces Print reads make up the whole   *)
(* file: the header it holds in memory is the one on the disk.             *)
OpenFileIsCurrent ==
    Sound => \A h \in opened : Current(h) =>
        LET text == files[h.key].bytes
            shown == PrintText(h)
        IN  /\ DOMAIN shown = DOMAIN text
            /\ \A i \in DOMAIN text : text[i] # Junk => shown[i] = text[i]
            /\ \A p \in 0..Len(text), n \in 0..(Len(text) + 1) :
                  ReadAt(h.hdr, p, n) = SubSeq(shown, p + 1, Min({p + n, Len(shown)}))

(* FileHeader::Deallocate's assertion does not fail, and no file is opened *)
(* or removed whose header is not there, unless Nachos stopped in the      *)
(* middle of Create or Remove or a removed file was written to.            *)
NoAssertionFails == (~torn /\ ~stray) => fault \notin {"assertion", "no header"}

(* Copy leaves a file with the text of the host's file.                    *)
CopyIsExact ==
    [][(script.step = "copy" /\ script'.step = "none" /\ ~torn /\ ~stray /\ crashes' = crashes)
          => ReadAt(HeaderOf(script.name), 0, Len(script.text)) = script.text]_vars
=============================================================================
