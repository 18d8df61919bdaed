-------------------------------- MODULE AppFs ---------------------------------
(***************************************************************************)
(* appfs, the file system of the 8bkc SDK, as the chooser uses it          *)
(* (external). The flash is a row of slots; a file takes as many slots as  *)
(* it has parts, and its handle is the number of the first of them. Files  *)
(* have unique names. Creating, deleting and renaming commit a new table   *)
(* in one step, so that a power cut finds the old table or the new one.    *)
(*                                                                         *)
(* fs maps every handle in use to its file [name, slots, data], where      *)
(* data[i] is the content of the file's i-th part.                         *)
(***************************************************************************)
EXTENDS Integers, Sequences, FiniteSets

CONSTANTS
  NumSlots,   \* slots in the appfs partition
  Junk        \* the content of flash that was not written

ASSUME NumSlotsAssumption == NumSlots \in Nat \ {0}

Slots == 0..(NumSlots-1)

\* APPFS_INVALID_FD
INVALID == -1

NoFiles == [h \in {} |-> Junk]

Lowest(S) == CHOOSE x \in S : \A y \in S : x <= y

FreeSlots(fs) == Slots \ UNION {fs[h].slots : h \in DOMAIN fs}

\* appfsFdValid
FdValid(fs, h) == h \in DOMAIN fs

Exists(fs, name) == \E h \in DOMAIN fs : fs[h].name = name

\* appfsNextEntry: files are listed by increasing handle.
NextEntry(fs, h) ==
  LET later == {x \in DOMAIN fs : x > h}
  IN  IF later = {} THEN INVALID ELSE Lowest(later)

\* appfsDeleteFile
DeleteFile(fs, name) == [h \in {x \in DOMAIN fs : fs[x].name # name} |-> fs[h]]

\* appfsCreateFile: an earlier file of this name is deleted first, also when
\* there is no room for the new one.
HasRoom(fs, name, len) == Cardinality(FreeSlots(DeleteFile(fs, name))) >= len

CreateFile(fs, name, len) ==
  LET kept  == DeleteFile(fs, name)
      free  == FreeSlots(kept)
      taken == {s \in free : Cardinality({x \in free : x < s}) < len}
      file  == [name |-> name, slots |-> taken, data |-> [i \in 1..len |-> Junk]]
  IN  [h \in DOMAIN kept \cup {Lowest(free)} |->
         IF h = Lowest(free) THEN file ELSE kept[h]]

CreatedHandle(fs, name) == Lowest(FreeSlots(DeleteFile(fs, name)))

\* appfsErase, appfsWrite and appfsRead work on the file that has the handle
\* now, whoever opened it, and fail outside it.
InFile(fs, h, i) == h \in DOMAIN fs /\ i \in DOMAIN fs[h].data

WritePart(fs, h, i, part) == [fs EXCEPT ![h].data[i] = part]

ReadPart(fs, h, i) == IF InFile(fs, h, i) THEN fs[h].data[i] ELSE Junk

\* appfsRename replaces a file that has the new name.
Rename(fs, from, to) ==
  LET kept == DeleteFile(fs, to)
  IN  [h \in DOMAIN kept |-> IF kept[h].name = from THEN [kept[h] EXCEPT !.name = to]
                             ELSE kept[h]]
===============================================================================
