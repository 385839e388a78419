------------------------------ MODULE HeapFile ------------------------------
(***************************************************************************)
(* The heap files of the tables (src/komfydb/storage/heap_file.cc), one    *)
(* per table, read and written a page at a time through a std::fstream     *)
(* whose state the code never looks at.  file_length is the object's own   *)
(* idea of the length, in pages; CreatePage advances it before the page    *)
(* exists anywhere, so the file can be shorter.                            *)
(***************************************************************************)
EXTENDS HeapPage

CONSTANTS
  Table,      \* table ids
  MaxPages    \* bound on the pages of a file

ASSUME FileAssumption == MaxPages \in Nat

VARIABLES
  disk,          \* the page images on file; Blank where the file has none
  disk_pages,    \* pages of the file on disk, per table
  file_length,   \* HeapFile::file_length, in pages, per table
  good           \* FALSE once failbit is set on the table's stream

fileVars == <<disk, disk_pages, file_length, good>>

PageNo == 0 .. (MaxPages - 1)
PageId == Table \X PageNo
TableOf(pid) == pid[1]
NumberOf(pid) == pid[2]

FileTypeOK ==
  /\ disk \in [PageId -> Data]
  /\ disk_pages \in [Table -> 0 .. MaxPages]
  /\ file_length \in [Table -> 0 .. MaxPages]
  /\ good \in [Table -> BOOLEAN]

\* A fresh directory: HeapFile::Create makes the file when there is none.
FileInit ==
  /\ disk = [pid \in PageId |-> Blank]
  /\ disk_pages = [t \in Table |-> 0]
  /\ file_length = [t \in Table |-> 0]
  /\ good = [t \in Table |-> TRUE]

-----------------------------------------------------------------------------
\* Mutant: the last page is out of range.
InRange_OffByOne(pid) == NumberOf(pid) + 1 < file_length[TableOf(pid)]

\* The range check of ReadPage and WritePage.
InRange(pid) == NumberOf(pid) < file_length[TableOf(pid)]

\* The bytes ReadPage parses: zeros once the stream has failed.
ReadData(pid) == IF good[TableOf(pid)] THEN disk[pid] ELSE Blank

\* A read past the end of the file sets failbit, for good.  It follows a
\* write of the same step, which may have made the file longer.
ReadStream(pid) ==
  good' = [good EXCEPT
             ![TableOf(pid)] = @ /\ NumberOf(pid) < disk_pages'[TableOf(pid)]]

\* Mutant: GetPageData writes a record it cannot dump all the same.
WriteFails_Unchecked(pid, page) == ~InRange(pid)

WriteFails(pid, page) == ~InRange(pid) \/ ~Serialisable(page)

\* WritePage past the end of the file leaves a hole of zeros before the page;
\* on a failed stream it does nothing.  Its status is OK in both cases.
WritePage(pid, page) ==
  IF good[TableOf(pid)]
  THEN /\ disk' = [disk EXCEPT ![pid] = page.data]
       /\ disk_pages' = [disk_pages EXCEPT ![TableOf(pid)] =
                           IF NumberOf(pid) < @ THEN @ ELSE NumberOf(pid) + 1]
  ELSE UNCHANGED <<disk, disk_pages>>

\* The page CreatePage returns; the caller advances file_length.
NewPageId(t) == <<t, file_length[t]>>
CreatePage(t) == file_length' = [file_length EXCEPT ![t] = @ + 1]

\* Opening the files again reads their length from the file system.
Reopen ==
  /\ file_length' = disk_pages
  /\ good' = [t \in Table |-> TRUE]
  /\ UNCHANGED <<disk, disk_pages>>

=============================================================================
