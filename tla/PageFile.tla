------------------------------ MODULE PageFile -----------------------------
(* How a page's file is written: store.rs, write_atomically.  A save goes  *)
(* to a temporary file beside the page, named after the page and nothing   *)
(* else, and is then renamed over it.  Readers (a handler, the watcher, a  *)
(* scan) open the page and read it.                                        *)
(*                                                                         *)
(* The file system is external: a name leads to an inode, a rename moves a *)
(* name, and whoever has an inode open keeps it.  An inode's contents are  *)
(* a few blocks, written and read one at a time, each with the value of    *)
(* the save that wrote it.                                                 *)
(***************************************************************************)
EXTENDS WikiNames, Naturals, FiniteSets

CONSTANTS
    Values,
    Writers, Readers,
    Together,   \* how many saves of one page may be under way at a time
    Blocks,     \* how many blocks a page takes
    MaxSaves, MaxCrashes, MaxReads   \* bounds

ASSUME SizesAssumption == Together \in Nat \ {0} /\ Blocks \in Nat \ {0}
ASSUME BoundsAssumption == {MaxSaves, MaxCrashes, MaxReads} \subseteq Nat
ASSUME SetsAssumption == IsFiniteSet(Slugs) /\ IsFiniteSet(Writers) /\ IsFiniteSet(Readers)
ASSUME NoneAssumption == None \notin Values \cup Slugs /\ None \notin Nat

VARIABLES
    inode,   \* what each inode holds, block by block
    temp,    \* the inode at each page's temporary name
    page,    \* and at its own
    writer, reader,
    saves, crashes, reads

vars == <<inode, temp, page, writer, reader, saves, crashes, reads>>

Block   == 1..Blocks
Inodes  == 1 .. 2 * Cardinality(Slugs) + Cardinality(Writers) + Cardinality(Readers)
Empty   == [b \in Block |-> None]
NoSave  == [at |-> "rest", page |-> None, value |-> None, fd |-> None, block |-> 0]
NoRead  == [at |-> "rest", fd |-> None, got |-> Empty, block |-> 0]

Init ==
    /\ inode = [i \in Inodes |-> Empty]
    /\ temp = [p \in Slugs |-> None]
    /\ page = [p \in Slugs |-> None]
    /\ writer = [w \in Writers |-> NoSave]
    /\ reader = [r \in Readers |-> NoRead]
    /\ saves = 0 /\ crashes = 0 /\ reads = 0

Saving(p) == {w \in Writers : writer[w].page = p}

StartSave(w, p, v) ==
    /\ writer[w] = NoSave
    /\ Cardinality(Saving(p)) < Together
    /\ saves < MaxSaves
    /\ saves' = saves + 1
    /\ writer' = [writer EXCEPT ![w] = [NoSave EXCEPT !.at = "open", !.page = p, !.value = v]]
    /\ UNCHANGED <<inode, temp, page, reader, crashes, reads>>

Fds == {writer[w].fd : w \in Writers} \cup {reader[r].fd : r \in Readers}
Used == {temp[p] : p \in Slugs} \cup {page[p] : p \in Slugs} \cup Fds
Fresh == CHOOSE i \in Inodes : i \notin Used

\* Straight into the page.
Open_InPlace(w) ==
    LET p == writer[w].page
        i == IF page[p] = None THEN Fresh ELSE page[p]
    IN /\ writer[w].at = "open"
       /\ inode' = [inode EXCEPT ![i] = Empty]
       /\ temp' = [temp EXCEPT ![p] = i]
       /\ page' = [page EXCEPT ![p] = i]
       /\ writer' = [writer EXCEPT ![w].at = "write", ![w].fd = i, ![w].block = 1]
       /\ UNCHANGED <<reader, saves, crashes, reads>>

\* tokio::fs::write opens the temporary file, truncating the one there is.
Open(w) ==
    LET p == writer[w].page
        i == IF temp[p] = None THEN Fresh ELSE temp[p]
    IN /\ writer[w].at = "open"
       /\ inode' = [inode EXCEPT ![i] = Empty]
       /\ temp' = [temp EXCEPT ![p] = i]
       /\ writer' = [writer EXCEPT ![w].at = "write", ![w].fd = i, ![w].block = 1]
       /\ UNCHANGED <<page, reader, saves, crashes, reads>>

\* It writes the page into it, wherever that file is by now.
WriteBlock(w) ==
    LET save == writer[w] IN
    /\ save.at = "write"
    /\ inode' = [inode EXCEPT ![save.fd][save.block] = save.value]
    /\ writer' = [writer EXCEPT ![w].block = save.block + 1,
                                ![w].at = IF save.block = Blocks THEN "rename" ELSE "write",
                                ![w].fd = IF save.block = Blocks THEN None ELSE save.fd]
    /\ UNCHANGED <<temp, page, reader, saves, crashes, reads>>

\* Renaming what there is, whole or not.
WriteFails_Renaming(w) ==
    /\ writer[w].at = "write"
    /\ writer' = [writer EXCEPT ![w].at = "rename", ![w].fd = None]
    /\ UNCHANGED <<inode, temp, page, reader, saves, crashes, reads>>

\* The disk is full: the save fails and the temporary file stays.
WriteFails(w) ==
    /\ writer[w].at = "write"
    /\ writer' = [writer EXCEPT ![w] = NoSave]
    /\ UNCHANGED <<inode, temp, page, reader, saves, crashes, reads>>

Rename(w) ==
    LET p == writer[w].page IN
    /\ writer[w].at = "rename"
    /\ temp[p] # None
    /\ page' = [page EXCEPT ![p] = temp[p]]
    /\ temp' = [temp EXCEPT ![p] = None]
    /\ writer' = [writer EXCEPT ![w] = NoSave]
    /\ UNCHANGED <<inode, reader, saves, crashes, reads>>

\* It fails, for one because somebody else's save renamed the file already.
\* Whatever is at the temporary name is removed.
RenameFails(w) ==
    /\ writer[w].at = "rename"
    /\ temp' = [temp EXCEPT ![writer[w].page] = None]
    /\ writer' = [writer EXCEPT ![w] = NoSave]
    /\ UNCHANGED <<inode, page, reader, saves, crashes, reads>>

Crash ==
    /\ crashes < MaxCrashes
    /\ crashes' = crashes + 1
    /\ writer' = [w \in Writers |-> NoSave]
    /\ reader' = [r \in Readers |-> NoRead]
    /\ UNCHANGED <<inode, temp, page, saves, reads>>

-----------------------------------------------------------------------------
(* Store::read.                                                            *)

OpenPage(r, p) ==
    /\ reader[r].at # "read" /\ page[p] # None
    /\ reads < MaxReads
    /\ reads' = reads + 1
    /\ reader' = [reader EXCEPT ![r] = [at |-> "read", fd |-> page[p], got |-> Empty, block |-> 1]]
    /\ UNCHANGED <<inode, temp, page, writer, saves, crashes>>

ReadBlock(r) ==
    LET read == reader[r]  last == read.block = Blocks IN
    /\ read.at = "read"
    /\ reader' = [reader EXCEPT ![r] =
                     [at    |-> IF last THEN "done" ELSE "read",
                      fd    |-> IF last THEN None ELSE read.fd,
                      got   |-> [read.got EXCEPT ![read.block] = inode[read.fd][read.block]],
                      block |-> read.block + 1]]
    /\ UNCHANGED <<inode, temp, page, writer, saves, crashes, reads>>

-----------------------------------------------------------------------------

Next == \/ \E w \in Writers, p \in Slugs, v \in Values : StartSave(w, p, v)
        \/ \E w \in Writers : \/ Open(w) \/ WriteBlock(w) \/ WriteFails(w)
                              \/ Rename(w) \/ RenameFails(w)
        \/ \E r \in Readers : ReadBlock(r) \/ \E p \in Slugs : OpenPage(r, p)
        \/ Crash

Spec == Init /\ [][Next]_vars

-----------------------------------------------------------------------------
(* Properties.                                                             *)

Whole(content) == \E v \in Values : content = [b \in Block |-> v]

\* However many look and wherever a save fails or the process ends, a page is
\* one save's page and not half of one (store.rs:8-10).
PagesAreWhole == \A p \in Slugs : page[p] # None => Whole(inode[page[p]])

\* And whoever reads one reads one save's page, though it is replaced while
\* they do.
ReadersSeeWholePages == \A r \in Readers : reader[r].at = "done" => Whole(reader[r].got)

\* A page is whole where it lies and in the hands of whoever reads it.
WholePages == PagesAreWhole /\ ReadersSeeWholePages

Says(p) == IF page[p] = None THEN None ELSE inode[page[p]][1]

\* The files implement the register: a page changes from one save's to
\* another's in one step, and only while that save is under way.
Register == INSTANCE PageRegister WITH
                Pages <- Slugs,
                current <- [p \in Slugs |-> Says(p)],
                saving <- [p \in Slugs |-> {writer[w].value : w \in Saving(p)}]
ImplementsRegister == Register!Spec
=============================================================================
