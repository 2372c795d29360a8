-------------------------- MODULE Files_proofs ----------------------------
(***************************************************************************)
(* Two components of the files. The first half is about PageFile: that a   *)
(* page's file is whole whoever looks and implements the register, for any *)
(* number of pages, saves, readers and blocks, as long as the saves of one *)
(* page do not overlap. The invariant says whose an inode is: one at a     *)
(* temporary name is at no other and nobody reads it (TempsApart), it      *)
(* holds what its save has written so far (SavesFit), and a reader's inode *)
(* stays the whole page it was when it was opened (LooksFit).              *)
(*                                                                         *)
(* The second half is about Manuscript: what its requests and walks have   *)
(* in hand, that a manifest is true of its document, and, with one request *)
(* at a time, that texts are kept, that a merge leaves nothing behind and  *)
(* that a split publishes nothing.                                         *)
(***************************************************************************)
EXTENDS PageFile, Manuscript, FiniteSetTheorems, SequenceTheorems, WellFoundedInduction, TLAPS

\* What the variables hold.
Contents == [Block -> Values \cup {None}]
Saves == [at : {"rest", "open", "write", "rename"}, page : Slugs \cup {None},
          value : Values \cup {None}, fd : Inodes \cup {None}, block : Nat]
Looks == [at : {"rest", "read", "done"}, fd : Inodes \cup {None}, got : Contents, block : Nat]

TypesFit ==
    /\ inode \in [Inodes -> Contents]
    /\ temp \in [Slugs -> Inodes \cup {None}] /\ page \in [Slugs -> Inodes \cup {None}]
    /\ writer \in [Writers -> Saves] /\ reader \in [Readers -> Looks]
    /\ saves \in Nat /\ crashes \in Nat /\ reads \in Nat

\* A save at work has a page, and that page no other.
SavesApart ==
    /\ \A w \in Writers :
          /\ writer[w].at = "rest" <=> writer[w].page = None
          /\ writer[w].at # "write" => writer[w].fd = None
          /\ writer[w].at # "rest" => writer[w].value # None
    /\ \A v, w \in Writers : v # w /\ writer[v].page # None => writer[v].page # writer[w].page

\* An inode at a temporary name is at no other name, and nobody reads it.
TempsApart ==
    /\ \A p, q \in Slugs : temp[p] # None => temp[p] # page[q] /\ (p # q => temp[p] # temp[q])
    /\ \A p \in Slugs, r \in Readers : temp[p] # None => reader[r].fd # temp[p]

\* A save writes its page from the start into the temporary file, and renames
\* what it has written to the end.
SaveFits(w) ==
    LET save == writer[w]  i == temp[save.page] IN
    /\ save.at = "write" => /\ save.fd = i /\ i # None /\ save.block \in Block
                            /\ \A b \in Block : b < save.block => inode[i][b] = save.value
    /\ save.at = "rename" => i # None /\ inode[i] = [b \in Block |-> save.value]
SavesFit == \A w \in Writers : SaveFits(w)

\* Whoever reads has a whole page open, and has read it up to here.
LookFits(r) ==
    LET look == reader[r] IN
    /\ look.at = "read" => /\ look.fd # None /\ look.block \in Block /\ Whole(inode[look.fd])
                           /\ \A b \in Block : b < look.block => look.got[b] = inode[look.fd][b]
    /\ look.at # "read" => look.fd = None
LooksFit == \A r \in Readers : LookFits(r)

\* All of it.
IInv == TypesFit /\ SavesApart /\ TempsApart /\ SavesFit /\ LooksFit /\ WholePages

-----------------------------------------------------------------------------
(* There is always an inode to spare.                                        *)

\* An image is no larger than what it is the image of.
LEMMA ImageBound ==
    ASSUME NEW S, IsFiniteSet(S), NEW T, NEW f \in [S -> T]
    PROVE  /\ IsFiniteSet({f[x] : x \in S})
           /\ Cardinality({f[x] : x \in S}) \in Nat /\ Cardinality(S) \in Nat
           /\ Cardinality({f[x] : x \in S}) <= Cardinality(S)
<1> DEFINE I == {f[x] : x \in S}
<1>1. f \in Surjection(S, I)
  BY DEF Surjection
<1>2. IsFiniteSet(I) /\ Cardinality(I) <= Cardinality(S)
  BY <1>1, FS_Surjection
<1> QED BY <1>2, FS_CardinalityType

\* Two finite sets together are no larger than the one and the other.
LEMMA UnionBound ==
    ASSUME NEW S, IsFiniteSet(S), NEW T, IsFiniteSet(T), NEW m \in Nat, NEW n \in Nat,
           Cardinality(S) <= m, Cardinality(T) <= n
    PROVE  IsFiniteSet(S \cup T) /\ Cardinality(S \cup T) <= m + n
<1>1. /\ IsFiniteSet(S \cup T) /\ IsFiniteSet(S \cap T)
      /\ Cardinality(S \cup T) = Cardinality(S) + Cardinality(T) - Cardinality(S \cap T)
  BY FS_Union, FS_Intersection
<1>2. /\ Cardinality(S) \in Nat /\ Cardinality(T) \in Nat /\ Cardinality(S \cap T) \in Nat
  BY <1>1, FS_CardinalityType
<1> QED BY <1>1, <1>2

\* The names, the other saves and the readers hold fewer inodes than there are.
LEMMA FreshIsFresh ==
    ASSUME TypesFit, NEW w \in Writers, writer[w].fd = None
    PROVE  Fresh \in Inodes /\ Fresh \notin Used
<1> DEFINE P == Cardinality(Slugs)  W == Cardinality(Writers)  R == Cardinality(Readers)
           V == Writers \ {w}
           fd == [v \in V |-> writer[v].fd]
           look == [r \in Readers |-> reader[r].fd]
           U1 == {temp[p] : p \in Slugs}
           U2 == {page[p] : p \in Slugs}
           U3 == {fd[v] : v \in V}
           U4 == {look[r] : r \in Readers}
<1>0. P \in Nat /\ W \in Nat /\ R \in Nat
  BY SetsAssumption, FS_CardinalityType
<1>1. IsFiniteSet(V) /\ Cardinality(V) = W - 1
  BY SetsAssumption, FS_RemoveElement
<1>2. IsFiniteSet(U1) /\ Cardinality(U1) <= P /\ IsFiniteSet(U2) /\ Cardinality(U2) <= P
  <2>1. temp \in [Slugs -> Inodes \cup {None}] /\ page \in [Slugs -> Inodes \cup {None}]
    BY DEF TypesFit
  <2>2. IsFiniteSet({temp[x] : x \in Slugs}) /\ Cardinality({temp[x] : x \in Slugs}) <= Cardinality(Slugs)
    BY ONLY <2>1, SetsAssumption, ImageBound
  <2>3. IsFiniteSet({page[x] : x \in Slugs}) /\ Cardinality({page[x] : x \in Slugs}) <= Cardinality(Slugs)
    BY ONLY <2>1, SetsAssumption, ImageBound
  <2> QED BY <2>2, <2>3
<1>3. IsFiniteSet(U3) /\ Cardinality(U3) <= W - 1
  <2>1. fd \in [V -> Inodes \cup {None}]
    BY DEF TypesFit, Saves
  <2> HIDE DEF fd, V
  <2>2. IsFiniteSet({fd[x] : x \in V}) /\ Cardinality({fd[x] : x \in V}) <= Cardinality(V)
    BY ONLY <2>1, <1>1, ImageBound
  <2> QED BY <2>2, <1>1
<1>4. IsFiniteSet(U4) /\ Cardinality(U4) <= R
  <2>1. look \in [Readers -> Inodes \cup {None}]
    BY DEF TypesFit, Looks
  <2> HIDE DEF look
  <2>2. IsFiniteSet({look[x] : x \in Readers}) /\ Cardinality({look[x] : x \in Readers}) <= Cardinality(Readers)
    BY ONLY <2>1, SetsAssumption, ImageBound
  <2> QED BY <2>2
<1>5. W - 1 \in Nat
  BY <1>1, FS_CardinalityType
<1> DEFINE U == (U1 \cup U2) \cup (U3 \cup U4)
<1>6. Used \subseteq U \cup {None}
  BY DEF Used, Fds
<1> HIDE DEF U1, U2, U3, U4, fd, look, P, W, R
<1>7. IsFiniteSet(U) /\ Cardinality(U) <= (P + P) + ((W - 1) + R)
  <2>1. IsFiniteSet(U1 \cup U2) /\ Cardinality(U1 \cup U2) <= P + P
    BY <1>0, <1>2, UnionBound
  <2>2. IsFiniteSet(U3 \cup U4) /\ Cardinality(U3 \cup U4) <= (W - 1) + R
    BY <1>0, <1>3, <1>4, <1>5, UnionBound
  <2>3. P + P \in Nat /\ (W - 1) + R \in Nat
    BY <1>0, <1>5
  <2> QED BY <2>1, <2>2, <2>3, UnionBound
<1>8. Inodes = 1 .. 2 * P + W + R /\ Inodes \subseteq Nat
  BY <1>0 DEF Inodes, P, W, R
<1>9. IsFiniteSet(Inodes) /\ Cardinality(Inodes) = 2 * P + W + R
  <2>1. 2 * P + W + R \in Nat
    BY <1>0
  <2> QED BY <1>8, <2>1, FS_Interval
<1> HIDE DEF U
<1>10. ~(Inodes \subseteq U)
  <2>1. SUFFICES ASSUME Inodes \subseteq U PROVE FALSE
    OBVIOUS
  <2>2. Cardinality(Inodes) <= Cardinality(U) /\ Cardinality(U) \in Nat
    BY <2>1, <1>7, FS_Subset, FS_CardinalityType
  <2> QED BY <2>2, <1>0, <1>7, <1>9
<1>11. PICK i \in Inodes : i \notin U
  BY <1>10
<1>12. i \notin Used
  BY <1>6, <1>8, <1>11, NoneAssumption
<1> QED BY <1>12 DEF Fresh

-----------------------------------------------------------------------------
(* The inductive invariant.                                                  *)

\* What a save, a look and a page with one block more are.
LEMMA SavesAndLooks ==
    ASSUME TypesFit
    PROVE  /\ NoSave \in Saves /\ NoRead \in Looks /\ Empty \in Contents
           /\ \A w \in Writers : writer[w] \in Saves
           /\ \A r \in Readers : reader[r] \in Looks
           /\ \A i \in Inodes : inode[i] \in Contents
           /\ None \notin Inodes /\ Blocks \in Nat \ {0} /\ 1 \in Block /\ Block \subseteq Nat
<1>1. Empty \in Contents
  BY DEF Empty, Contents
<1>2. Inodes \subseteq Nat
  BY DEF Inodes
<1>3. NoSave \in Saves
  BY DEF NoSave, Saves
<1>4. NoRead \in Looks
  BY <1>1 DEF NoRead, Looks
<1>5. Blocks \in Nat \ {0} /\ 1 \in Block /\ Block \subseteq Nat
  BY SizesAssumption DEF Block
<1> QED BY <1>1, <1>2, <1>3, <1>4, <1>5, NoneAssumption DEF TypesFit

\* A save at work has a temporary file of its own.
LEMMA SavesHaveTheirOwn ==
    ASSUME IInv, NEW w \in Writers, writer[w].at \in {"write", "rename"}
    PROVE  /\ writer[w].page \in Slugs /\ temp[writer[w].page] \in Inodes
           /\ \A v \in Writers : v # w /\ writer[v].at \in {"write", "rename"} =>
                 /\ writer[v].page # writer[w].page
                 /\ temp[writer[v].page] # temp[writer[w].page]
<1> USE DEF IInv
<1>1. ASSUME NEW v \in Writers, writer[v].at \in {"write", "rename"}
      PROVE  writer[v].page \in Slugs /\ temp[writer[v].page] \in Inodes
  BY <1>1, SavesAndLooks DEF SavesApart, SavesFit, SaveFits, Saves, TypesFit
<1>2. ASSUME NEW v \in Writers, v # w, writer[v].at \in {"write", "rename"}
      PROVE  /\ writer[v].page # writer[w].page
             /\ temp[writer[v].page] # temp[writer[w].page]
  <2>1. writer[v].page # writer[w].page
    BY <1>1, <1>2, NoneAssumption DEF SavesApart
  <2>2. temp[writer[v].page] # None
    BY <1>1, <1>2, SavesAndLooks
  <2> QED BY <1>1, <1>2, <2>1, <2>2 DEF TempsApart
<1> QED BY <1>1, <1>2

\* What it has done stays as long as nobody touches that file.
LEMMA SaveFitsStill ==
    ASSUME IInv, NEW w \in Writers, writer'[w] = writer[w],
           writer[w].at \in {"write", "rename"} =>
              /\ temp'[writer[w].page] = temp[writer[w].page]
              /\ inode'[temp[writer[w].page]] = inode[temp[writer[w].page]]
    PROVE  SaveFits(w)'
<1>1. SaveFits(w)
  BY DEF IInv, SavesFit
<1>2. CASE writer[w].at \in {"write", "rename"}
  <2>1. /\ temp'[writer'[w].page] = temp[writer[w].page] /\ writer'[w] = writer[w]
        /\ inode'[temp'[writer'[w].page]] = inode[temp[writer[w].page]]
    BY <1>2
  <2> QED BY <1>1, <2>1 DEF SaveFits
<1>3. CASE writer[w].at \notin {"write", "rename"}
  BY <1>3 DEF SaveFits
<1> QED BY <1>2, <1>3

\* Nothing is there at first.
LEMMA Initially == Init => IInv
<1> SUFFICES ASSUME Init PROVE IInv
  OBVIOUS
<1>1. TypesFit
  <2>1. Empty \in Contents
    BY DEF Empty, Contents
  <2> QED BY <2>1 DEF Init, TypesFit, NoSave, NoRead, Saves, Looks
<1>2. SavesApart /\ SavesFit
  BY DEF Init, SavesApart, SavesFit, SaveFits, NoSave
<1>3. TempsApart /\ LooksFit
  BY DEF Init, TempsApart, LooksFit, LookFits, NoRead
<1>4. WholePages
  BY DEF Init, NoRead, WholePages, PagesAreWhole, ReadersSeeWholePages
<1> QED BY <1>1, <1>2, <1>3, <1>4 DEF IInv

\* A save begins where no other is under way.
LEMMA SaveStep ==
    ASSUME IInv, Together = 1, NEW w \in Writers, NEW p \in Slugs, NEW v \in Values, StartSave(w, p, v)
    PROVE  IInv' /\ Saving(p) = {}
<1> USE DEF IInv
<1>1. Saving(p) = {}
  <2>1. IsFiniteSet(Saving(p))
    BY SetsAssumption, FS_Subset DEF Saving
  <2>2. Cardinality(Saving(p)) \in Nat /\ Cardinality(Saving(p)) < 1
    BY <2>1, FS_CardinalityType DEF StartSave
  <2> QED BY <2>1, <2>2, FS_EmptySet
<1> DEFINE save == [NoSave EXCEPT !.at = "open", !.page = p, !.value = v]
<1>2. save \in Saves /\ save.at = "open" /\ save.page = p /\ save.value = v /\ save.fd = None
  BY DEF NoSave, Saves
<1>3. /\ writer' = [writer EXCEPT ![w] = save]
      /\ UNCHANGED <<inode, temp, page, reader, crashes, reads>> /\ saves' = saves + 1
  BY DEF StartSave
<1> HIDE DEF save
<1>4. TypesFit'
  BY <1>2, <1>3 DEF TypesFit
<1>5. writer'[w] = save /\ \A x \in Writers \ {w} : writer'[x] = writer[x] /\ writer[x].page # p
  BY <1>1, <1>3 DEF TypesFit, Saving
<1>6. SavesApart'
  BY <1>2, <1>5, NoneAssumption DEF SavesApart
<1>7. TempsApart' /\ LooksFit' /\ WholePages'
  BY <1>3 DEF TempsApart, LooksFit, LookFits, WholePages, PagesAreWhole, ReadersSeeWholePages
<1>8. SavesFit'
  <2>1. SaveFits(w)'
    BY <1>2, <1>5 DEF SaveFits
  <2>2. \A x \in Writers \ {w} : SaveFits(x)'
    BY <1>3, <1>5, SaveFitsStill
  <2> QED BY <2>1, <2>2 DEF SavesFit
<1> QED BY <1>1, <1>4, <1>6, <1>7, <1>8

\* It takes the temporary file there is, or one that is new: nobody's page.
LEMMA OpenStep ==
    ASSUME IInv, NEW w \in Writers, Open(w)
    PROVE  /\ IInv' /\ writer'[w].page = writer[w].page /\ writer'[w].value = writer[w].value
           /\ \A p \in Slugs : page[p] # None => inode'[page[p]] = inode[page[p]]
<1> USE DEF IInv
<1> DEFINE p == writer[w].page
           i == IF temp[p] = None THEN Fresh ELSE temp[p]
<1>0. writer[w].at = "open" /\ p \in Slugs /\ writer[w].fd = None /\ writer[w].value # None
  BY SavesAndLooks DEF Open, SavesApart, Saves
<1>1. i \in Inodes /\ i # None /\ (\A q \in Slugs : page[q] # i)
      /\ (\A q \in Slugs \ {p} : temp[q] # i)
      /\ (\A r \in Readers : reader[r].fd # i)
      /\ (\A x \in Writers \ {w} : writer[x].fd # i)
  <2>1. CASE temp[p] = None
    <3>1. Fresh \in Inodes /\ Fresh \notin Used
      BY <1>0, FreshIsFresh
    <3> QED BY <2>1, <3>1, SavesAndLooks DEF Used, Fds
  <2>2. CASE temp[p] # None
    <3>1. ASSUME NEW x \in Writers \ {w} PROVE writer[x].fd # temp[p]
      BY <1>0, <2>2, SavesAndLooks DEF SavesApart, SavesFit, SaveFits, TempsApart, TypesFit, Saves
    <3> QED BY <1>0, <2>2, <3>1 DEF TypesFit, TempsApart
  <2> QED BY <2>1, <2>2
<1>2. /\ inode' = [inode EXCEPT ![i] = Empty] /\ temp' = [temp EXCEPT ![p] = i]
      /\ writer' = [writer EXCEPT ![w].at = "write", ![w].fd = i, ![w].block = 1]
      /\ UNCHANGED <<page, reader, saves, crashes, reads>>
  BY DEF Open
<1> HIDE DEF i
<1>3. /\ writer'[w].at = "write" /\ writer'[w].fd = i /\ writer'[w].block = 1
      /\ writer'[w].page = p /\ writer'[w].value = writer[w].value
      /\ \A x \in Writers \ {w} : writer'[x] = writer[x]
      /\ writer' \in [Writers -> Saves]
  BY <1>1, <1>2, SavesAndLooks DEF TypesFit, Saves
<1> HIDE DEF p
<1>4. /\ temp'[p] = i /\ \A q \in Slugs \ {p} : temp'[q] = temp[q]
      /\ \A j \in Inodes \ {i} : inode'[j] = inode[j]
  BY <1>0, <1>1, <1>2 DEF TypesFit
<1>5. TypesFit'
  BY <1>0, <1>1, <1>2, <1>3, SavesAndLooks DEF TypesFit
<1>6. SavesApart'
  BY <1>0, <1>3, <1>1, SavesAndLooks DEF SavesApart, p
<1>7. TempsApart'
  BY <1>1, <1>2, <1>4 DEF TempsApart
<1>8. SavesFit'
  <2>1. ASSUME NEW x \in Writers \ {w} PROVE SaveFits(x)'
    <3>1. CASE writer[x].at \in {"write", "rename"}
      <4>1. writer[x].page \in Slugs \ {p} /\ temp[writer[x].page] \in Inodes \ {i}
        BY <3>1, <1>0, <1>1, SavesHaveTheirOwn, NoneAssumption DEF SavesApart, p
      <4> QED BY <4>1, <1>3, <1>4, SaveFitsStill
    <3>2. CASE writer[x].at \notin {"write", "rename"}
      BY <3>2, <1>3, SaveFitsStill
    <3> QED BY <3>1, <3>2
  <2>2. \A b \in Block : ~(b < 1)
    BY DEF Block
  <2>3. SaveFits(w)'
    BY <1>0, <1>1, <1>3, <1>4, <2>2, SavesAndLooks DEF SaveFits
  <2> QED BY <2>1, <2>3 DEF SavesFit
<1>9. LooksFit'
  BY <1>1, <1>2, <1>4, SavesAndLooks DEF LooksFit, LookFits, Looks
<1>10. \A q \in Slugs : page[q] # None => inode'[page[q]] = inode[page[q]]
  BY <1>1, <1>4 DEF TypesFit
<1>11. WholePages'
  BY <1>2, <1>10 DEF WholePages, PagesAreWhole, ReadersSeeWholePages
<1> QED BY <1>3, <1>5, <1>6, <1>7, <1>8, <1>9, <1>10, <1>11 DEF p

\* It writes into the temporary file and nowhere else.
LEMMA WriteBlockStep ==
    ASSUME IInv, NEW w \in Writers, WriteBlock(w)
    PROVE  /\ IInv' /\ writer'[w].page = writer[w].page /\ writer'[w].value = writer[w].value
           /\ \A p \in Slugs : page[p] # None => inode'[page[p]] = inode[page[p]]
<1> USE DEF IInv
<1> DEFINE save == writer[w]
           p == save.page
           i == save.fd
<1>0. /\ save.at = "write" /\ p \in Slugs /\ i = temp[p] /\ i \in Inodes /\ i # None
      /\ save.block \in Block /\ save.value \in Values /\ save \in Saves
      /\ \A b \in Block : b < save.block => inode[i][b] = save.value
  <2>1. save.at = "write" /\ save \in Saves /\ SaveFits(w) /\ save.value \in Values
    BY SavesAndLooks DEF WriteBlock, SavesFit, SavesApart, Saves
  <2>2. p \in Slugs /\ temp[p] \in Inodes
    BY <2>1, SavesHaveTheirOwn
  <2> QED BY <2>1, <2>2, SavesAndLooks DEF SaveFits
<1>1. /\ inode' = [inode EXCEPT ![i][save.block] = save.value]
      /\ writer' = [writer EXCEPT ![w].block = save.block + 1,
                                ![w].at = IF save.block = Blocks THEN "rename" ELSE "write",
                                ![w].fd = IF save.block = Blocks THEN None ELSE i]
      /\ UNCHANGED <<temp, page, reader, saves, crashes, reads>>
  BY DEF WriteBlock
<1>2. /\ inode' \in [Inodes -> Contents] /\ \A j \in Inodes \ {i} : inode'[j] = inode[j]
      /\ \A b \in Block : b <= save.block => inode'[i][b] = save.value
  <2>1. inode[i] \in Contents /\ [inode[i] EXCEPT ![save.block] = save.value] \in Contents
    BY <1>0, SavesAndLooks DEF Contents
  <2>2. inode'[i] = [inode[i] EXCEPT ![save.block] = save.value]
        /\ \A j \in Inodes \ {i} : inode'[j] = inode[j]
    BY <1>0, <1>1 DEF TypesFit
  <2>3. ASSUME NEW b \in Block, b <= save.block PROVE inode'[i][b] = save.value
    BY <1>0, <2>1, <2>2, <2>3, SavesAndLooks DEF Contents
  <2> QED BY <1>0, <1>1, <2>1, <2>2, <2>3 DEF TypesFit
<1>3. /\ writer'[w].page = p /\ writer'[w].value = save.value /\ writer'[w].block = save.block + 1
      /\ writer'[w].at = IF save.block = Blocks THEN "rename" ELSE "write"
      /\ writer'[w].fd = IF save.block = Blocks THEN None ELSE i
      /\ \A x \in Writers \ {w} : writer'[x] = writer[x]
      /\ writer' \in [Writers -> Saves]
  <2> DEFINE next == [save EXCEPT !.block = save.block + 1,
                                  !.at = IF save.block = Blocks THEN "rename" ELSE "write",
                                  !.fd = IF save.block = Blocks THEN None ELSE i]
  <2>1. /\ next \in Saves /\ next.page = p /\ next.value = save.value /\ next.block = save.block + 1
        /\ next.at = IF save.block = Blocks THEN "rename" ELSE "write"
        /\ next.fd = IF save.block = Blocks THEN None ELSE i
    <3>1. save.block + 1 \in Nat
      BY <1>0, SavesAndLooks
    <3>2. i \in Inodes \cup {None} /\ save \in Saves
      BY <1>0
    <3> HIDE DEF save, i
    <3> QED BY <3>1, <3>2 DEF Saves
  <2>2. writer' = [writer EXCEPT ![w] = next]
    BY <1>1 DEF TypesFit
  <2> HIDE DEF next
  <2> QED BY <2>1, <2>2 DEF TypesFit
<1>4. \A q \in Slugs : page[q] # i
  BY <1>0 DEF TempsApart
<1>5. \A r \in Readers : reader[r].fd # i
  BY <1>0 DEF TempsApart
<1>6. TypesFit'
  BY <1>1, <1>2, <1>3 DEF TypesFit
<1>7. SavesApart'
  <2>1. writer[w].at # "rest" /\ writer[w].page # None
    BY <1>0, NoneAssumption
  <2> QED BY <1>0, <1>3, <2>1, NoneAssumption DEF SavesApart
<1>8. TempsApart'
  BY <1>1 DEF TempsApart
<1>9. SavesFit'
  <2>1. ASSUME NEW x \in Writers \ {w} PROVE SaveFits(x)'
    <3>1. CASE writer[x].at \in {"write", "rename"}
      <4>1. temp[writer[x].page] \in Inodes \ {i}
        BY <3>1, <1>0, SavesHaveTheirOwn
      <4> QED BY <4>1, <1>1, <1>2, <1>3, SaveFitsStill
    <3>2. CASE writer[x].at \notin {"write", "rename"}
      BY <3>2, <1>3, SaveFitsStill
    <3> QED BY <3>1, <3>2
  <2>2. temp'[writer'[w].page] = i /\ writer'[w].value = save.value
    BY <1>0, <1>1, <1>3
  <2>3. CASE save.block = Blocks
    <3>1. inode'[i] = [b \in Block |-> save.value]
      <4>1. inode'[i] \in Contents
        BY <1>0, <1>2
      <4>2. \A b \in Block : b <= Blocks
        BY DEF Block
      <4> QED BY <1>2, <2>3, <4>1, <4>2 DEF Contents
    <3>2. writer'[w].at = "rename"
      BY <1>3, <2>3
    <3> HIDE DEF save, p, i
    <3>3. SaveFits(w)'
      BY <1>0, <2>2, <3>1, <3>2 DEF SaveFits
    <3> QED BY <2>1, <3>3 DEF SavesFit
  <2>4. CASE save.block # Blocks
    <3>1. save.block + 1 \in Block /\ \A b \in Block : b < save.block + 1 => b <= save.block
      BY <1>0, <2>4, SavesAndLooks DEF Block
    <3>2. writer'[w].at = "write" /\ writer'[w].fd = i /\ writer'[w].block = save.block + 1
      BY <1>3, <2>4
    <3> HIDE DEF save, p, i
    <3>3. SaveFits(w)'
      BY <1>0, <1>2, <2>2, <3>1, <3>2 DEF SaveFits
    <3> QED BY <2>1, <3>3 DEF SavesFit
  <2> QED BY <2>3, <2>4
<1>10. LooksFit'
  BY <1>1, <1>2, <1>5, SavesAndLooks DEF LooksFit, LookFits, Looks
<1>11. \A q \in Slugs : page[q] # None => inode'[page[q]] = inode[page[q]]
  BY <1>2, <1>4 DEF TypesFit
<1>12. WholePages'
  BY <1>1, <1>11 DEF WholePages, PagesAreWhole, ReadersSeeWholePages
<1> QED BY <1>3, <1>6, <1>7, <1>8, <1>9, <1>10, <1>11, <1>12

\* A save that is over frees its page, and what the others have done stays.
LEMMA SaveEnds ==
    ASSUME IInv, NEW w \in Writers, writer' = [writer EXCEPT ![w] = NoSave],
           UNCHANGED <<inode, reader, saves, crashes, reads>>,
           writer[w].page \in Slugs,
           \A p \in Slugs \ {writer[w].page} : temp'[p] = temp[p]
    PROVE  writer' \in [Writers -> Saves] /\ SavesApart' /\ SavesFit' /\ LooksFit'
<1> USE DEF IInv
<1>1. /\ writer'[w] = NoSave /\ \A x \in Writers \ {w} : writer'[x] = writer[x]
      /\ writer' \in [Writers -> Saves]
  BY SavesAndLooks DEF TypesFit
<1>2. SavesApart'
  <2>1. NoSave.at = "rest" /\ NoSave.page = None /\ NoSave.fd = None
    BY DEF NoSave
  <2> QED BY <1>1, <2>1 DEF SavesApart
<1>3. SavesFit'
  <2>1. ASSUME NEW x \in Writers \ {w} PROVE SaveFits(x)'
    <3>1. CASE writer[x].at \in {"write", "rename"}
      <4>1. writer[x].page \in Slugs \ {writer[w].page}
        BY <3>1, SavesHaveTheirOwn, NoneAssumption DEF SavesApart
      <4> QED BY <4>1, <1>1, SaveFitsStill
    <3>2. CASE writer[x].at \notin {"write", "rename"}
      BY <3>2, <1>1, SaveFitsStill
    <3> QED BY <3>1, <3>2
  <2>2. SaveFits(w)'
    BY <1>1 DEF SaveFits, NoSave
  <2> QED BY <2>1, <2>2 DEF SavesFit
<1>4. LooksFit'
  BY DEF LooksFit, LookFits
<1> QED BY <1>1, <1>2, <1>3, <1>4

\* A failed write leaves the temporary file where it is.
LEMMA WriteFailsStep ==
    ASSUME IInv, NEW w \in Writers, WriteFails(w)
    PROVE  IInv' /\ writer[w].page \in Slugs
<1> USE DEF IInv
<1>1. /\ writer' = [writer EXCEPT ![w] = NoSave]
      /\ UNCHANGED <<inode, temp, page, reader, saves, crashes, reads>>
  BY DEF WriteFails
<1>2. writer[w].page \in Slugs
  BY SavesHaveTheirOwn DEF WriteFails
<1>3. writer' \in [Writers -> Saves] /\ SavesApart' /\ SavesFit' /\ LooksFit'
  BY <1>1, <1>2, SaveEnds
<1>4. TypesFit' /\ TempsApart' /\ WholePages'
  BY <1>1, <1>3 DEF TypesFit, TempsApart, WholePages, PagesAreWhole, ReadersSeeWholePages
<1> QED BY <1>2, <1>3, <1>4

\* The rename puts the whole of the new page in the place of the old one.
LEMMA RenameStep ==
    ASSUME IInv, NEW w \in Writers, Rename(w)
    PROVE  /\ IInv' /\ writer[w].page \in Slugs /\ writer[w].value \in Values
           /\ inode'[page'[writer[w].page]] = [b \in Block |-> writer[w].value]
           /\ page'[writer[w].page] # None
           /\ \A p \in Slugs \ {writer[w].page} : page'[p] = page[p]
<1> USE DEF IInv
<1> DEFINE p == writer[w].page
           v == writer[w].value
           i == temp[p]
<1>1. /\ writer' = [writer EXCEPT ![w] = NoSave] /\ page' = [page EXCEPT ![p] = i]
      /\ temp' = [temp EXCEPT ![p] = None] /\ UNCHANGED <<inode, reader, saves, crashes, reads>>
  BY DEF Rename
<1>2. /\ p \in Slugs /\ i \in Inodes /\ i # None /\ v \in Values
      /\ inode[i] = [b \in Block |-> v]
  <2>1. p \in Slugs /\ i \in Inodes
    BY SavesHaveTheirOwn DEF Rename
  <2>2. v \in Values /\ SaveFits(w)
    BY SavesAndLooks DEF Rename, SavesApart, SavesFit, Saves
  <2> QED BY <2>1, <2>2, SavesAndLooks DEF Rename, SaveFits
<1> HIDE DEF v, i
<1>3. /\ temp'[p] = None /\ page'[p] = i
      /\ \A q \in Slugs \ {p} : temp'[q] = temp[q] /\ page'[q] = page[q]
  BY <1>1, <1>2 DEF TypesFit
<1>4. writer' \in [Writers -> Saves] /\ SavesApart' /\ SavesFit' /\ LooksFit'
  BY <1>1, <1>2, <1>3, SaveEnds
<1>5. TypesFit'
  BY <1>1, <1>2, <1>4 DEF TypesFit
<1>6. TempsApart'
  <2>1. \A q \in Slugs \ {p} : temp[q] # None => temp[q] # i
    BY <1>2 DEF TempsApart, i
  <2>2. ASSUME NEW q \in Slugs, NEW o \in Slugs, temp'[q] # None
        PROVE  temp'[q] # page'[o] /\ (q # o => temp'[q] # temp'[o])
    BY <1>3, <2>1, <2>2 DEF TempsApart
  <2>3. ASSUME NEW q \in Slugs, NEW r \in Readers, temp'[q] # None
        PROVE  reader'[r].fd # temp'[q]
    BY <1>1, <1>3, <2>3 DEF TempsApart
  <2> QED BY <2>2, <2>3 DEF TempsApart
<1>7. WholePages'
  <2>1. Whole(inode'[i])
    BY <1>1, <1>2 DEF Whole
  <2>2. ASSUME NEW q \in Slugs, page'[q] # None PROVE Whole(inode'[page'[q]])
    <3>1. CASE q = p
      BY <1>3, <2>1, <3>1
    <3>2. CASE q # p
      BY <1>1, <1>3, <2>2, <3>2 DEF WholePages, PagesAreWhole
    <3> QED BY <3>1, <3>2
  <2>3. ReadersSeeWholePages'
    BY <1>1 DEF WholePages, ReadersSeeWholePages
  <2> QED BY <2>2, <2>3 DEF WholePages, PagesAreWhole
<1> QED BY <1>1, <1>2, <1>3, <1>4, <1>5, <1>6, <1>7 DEF v, i

\* A failed one removes the temporary file.
LEMMA RenameFailsStep ==
    ASSUME IInv, NEW w \in Writers, RenameFails(w)
    PROVE  IInv' /\ writer[w].page \in Slugs
<1> USE DEF IInv
<1> DEFINE p == writer[w].page
<1>1. /\ writer' = [writer EXCEPT ![w] = NoSave] /\ temp' = [temp EXCEPT ![p] = None]
      /\ UNCHANGED <<inode, page, reader, saves, crashes, reads>>
  BY DEF RenameFails
<1>2. p \in Slugs
  BY SavesHaveTheirOwn DEF RenameFails
<1>3. temp'[p] = None /\ \A q \in Slugs \ {p} : temp'[q] = temp[q]
  BY <1>1, <1>2 DEF TypesFit
<1>4. writer' \in [Writers -> Saves] /\ SavesApart' /\ SavesFit' /\ LooksFit'
  BY <1>1, <1>2, <1>3, SaveEnds
<1>5. TypesFit' /\ WholePages'
  BY <1>1, <1>2, <1>4 DEF TypesFit, WholePages, PagesAreWhole, ReadersSeeWholePages
<1>6. TempsApart'
  BY <1>1, <1>3 DEF TempsApart
<1> QED BY <1>2, <1>4, <1>5, <1>6

\* A crash ends every save and every look, wherever they are.
LEMMA CrashStep == ASSUME IInv, Crash PROVE IInv'
<1> USE DEF IInv
<1>1. /\ writer' = [w \in Writers |-> NoSave] /\ reader' = [r \in Readers |-> NoRead]
      /\ UNCHANGED <<inode, temp, page, saves, reads>> /\ crashes' = crashes + 1
  BY DEF Crash
<1>2. TypesFit'
  BY <1>1, SavesAndLooks DEF TypesFit
<1>3. SavesApart' /\ SavesFit'
  BY <1>1 DEF SavesApart, SavesFit, SaveFits, NoSave
<1>4. LooksFit'
  BY <1>1 DEF LooksFit, LookFits, NoRead
<1>5. WholePages'
  BY <1>1 DEF NoRead, WholePages, PagesAreWhole, ReadersSeeWholePages
<1>6. TempsApart'
  BY <1>1 DEF NoRead, TempsApart
<1> QED BY <1>2, <1>3, <1>4, <1>5, <1>6

\* Whoever opens a page opens a whole one.
LEMMA OpenPageStep ==
    ASSUME IInv, NEW r \in Readers, NEW p \in Slugs, OpenPage(r, p)
    PROVE  IInv'
<1> USE DEF IInv
<1> DEFINE look == [at |-> "read", fd |-> page[p], got |-> Empty, block |-> 1]
<1>1. /\ reader' = [reader EXCEPT ![r] = look] /\ page[p] # None
      /\ UNCHANGED <<inode, temp, page, writer, saves, crashes>> /\ reads' = reads + 1
  BY DEF OpenPage
<1>2. look \in Looks /\ look.at = "read" /\ look.fd = page[p] /\ look.block = 1
  BY SavesAndLooks DEF Looks, TypesFit
<1> HIDE DEF look
<1>3. reader'[r] = look /\ \A x \in Readers \ {r} : reader'[x] = reader[x]
  BY <1>1 DEF TypesFit
<1>4. TypesFit'
  BY <1>1, <1>2 DEF TypesFit
<1>5. SavesApart' /\ SavesFit'
  BY <1>1 DEF SavesApart, SavesFit, SaveFits
<1>6. TempsApart'
  BY <1>1, <1>2, <1>3 DEF TempsApart
<1>7. LookFits(r)'
  <2>1. Whole(inode[page[p]]) /\ \A b \in Block : ~(b < 1)
    BY <1>1 DEF WholePages, PagesAreWhole, Block
  <2> QED BY <1>1, <1>2, <1>3, <2>1, SavesAndLooks DEF LookFits
<1>8. \A x \in Readers \ {r} : LookFits(x)'
  BY <1>1, <1>3 DEF LooksFit, LookFits
<1>9. WholePages'
  BY <1>1, <1>2, <1>3 DEF WholePages, PagesAreWhole, ReadersSeeWholePages
<1> QED BY <1>4, <1>5, <1>6, <1>7, <1>8, <1>9 DEF LooksFit

\* Its blocks are all of one page, as nobody writes to that inode any more.
LEMMA ReadBlockStep ==
    ASSUME IInv, NEW r \in Readers, ReadBlock(r)
    PROVE  IInv'
<1> USE DEF IInv
<1> DEFINE old == reader[r]
           i == old.fd
           b == old.block
           look == [at    |-> IF b = Blocks THEN "done" ELSE "read",
                    fd    |-> IF b = Blocks THEN None ELSE i,
                    got   |-> [old.got EXCEPT ![b] = inode[i][b]],
                    block |-> b + 1]
<1>1. /\ reader' = [reader EXCEPT ![r] = look] /\ old.at = "read"
      /\ UNCHANGED <<inode, temp, page, writer, saves, crashes, reads>>
  BY DEF ReadBlock
<1>2. /\ i \in Inodes /\ b \in Block /\ Whole(inode[i]) /\ inode[i] \in Contents
      /\ old.got \in Contents
      /\ \A c \in Block : c < b => old.got[c] = inode[i][c]
  <2>1. old \in Looks /\ LookFits(r)
    BY SavesAndLooks DEF LooksFit
  <2>2. i \in Inodes /\ b \in Block /\ old.got \in Contents
    BY <1>1, <2>1 DEF LookFits, Looks
  <2> QED BY <1>1, <2>1, <2>2, SavesAndLooks DEF LookFits
<1>3. /\ look.got \in Contents /\ \A c \in Block : c <= b => look.got[c] = inode[i][c]
  <2> DEFINE got == [old.got EXCEPT ![b] = inode[i][b]]
  <2>1. inode[i][b] \in Values \cup {None}
    BY <1>2 DEF Contents
  <2>2. got \in Contents /\ got[b] = inode[i][b] /\ \A c \in Block \ {b} : got[c] = old.got[c]
    BY <1>2, <2>1 DEF Contents
  <2>3. \A c \in Block : c <= b => c = b \/ c < b
    BY <1>2, SavesAndLooks
  <2>4. look.got = got
    OBVIOUS
  <2> HIDE DEF got, look
  <2> QED BY <1>2, <2>2, <2>3, <2>4
<1>4. /\ look.at = (IF b = Blocks THEN "done" ELSE "read")
      /\ look.fd = (IF b = Blocks THEN None ELSE i) /\ look.block = b + 1
  OBVIOUS
<1>5. look \in Looks
  <2>1. b + 1 \in Nat
    BY <1>2, SavesAndLooks
  <2> QED BY <1>2, <1>3, <2>1 DEF Looks
<1> HIDE DEF look
<1>6. reader'[r] = look /\ \A x \in Readers \ {r} : reader'[x] = reader[x]
  BY <1>1 DEF TypesFit
<1>7. TypesFit'
  BY <1>1, <1>5 DEF TypesFit
<1>8. SavesApart' /\ SavesFit'
  BY <1>1 DEF SavesApart, SavesFit, SaveFits
<1>9. TempsApart'
  BY <1>1, <1>4, <1>6 DEF TempsApart
<1>10. LookFits(r)'
  <2>1. CASE b = Blocks
    BY <1>4, <1>6, <2>1 DEF LookFits
  <2>2. CASE b # Blocks
    <3>1. b + 1 \in Block /\ \A c \in Block : c < b + 1 => c <= b
      BY <1>2, <2>2, SavesAndLooks DEF Block
    <3>2. look.at = "read" /\ look.fd = i /\ i # None
      BY <1>2, <1>4, <2>2, SavesAndLooks
    <3> HIDE DEF i, b
    <3> QED BY <1>1, <1>2, <1>3, <1>4, <1>6, <3>1, <3>2 DEF LookFits
  <2> QED BY <2>1, <2>2
<1>11. \A x \in Readers \ {r} : LookFits(x)'
  BY <1>1, <1>6 DEF LooksFit, LookFits
<1>12. look.at = "done" => Whole(look.got)
  <2>1. ASSUME b = Blocks PROVE look.got = inode[i]
    <3>1. \A c \in Block : c <= b
      BY <2>1 DEF Block
    <3> QED BY <1>2, <1>3, <3>1 DEF Contents
  <2> QED BY <1>2, <1>4, <2>1
<1>13. WholePages'
  BY <1>1, <1>6, <1>12 DEF WholePages, PagesAreWhole, ReadersSeeWholePages
<1> QED BY <1>7, <1>8, <1>9, <1>10, <1>11, <1>13 DEF LooksFit

\* Every step keeps the invariant.
LEMMA IInvStep == ASSUME Together = 1, IInv, [Next]_vars PROVE IInv'
<1>1. CASE Next
  BY <1>1, SaveStep, OpenStep, WriteBlockStep, WriteFailsStep, RenameStep, RenameFailsStep,
     OpenPageStep, ReadBlockStep, CrashStep DEF Next
<1>2. CASE UNCHANGED vars
  <2>1. TypesFit' /\ SavesApart' /\ TempsApart'
    BY <1>2 DEF IInv, vars, TypesFit, SavesApart, TempsApart
  <2>2. SavesFit' /\ LooksFit'
    BY <1>2 DEF IInv, vars, SavesFit, SaveFits, LooksFit, LookFits
  <2>3. WholePages'
    BY <1>2 DEF IInv, vars, WholePages, PagesAreWhole, ReadersSeeWholePages
  <2> QED BY <2>1, <2>2, <2>3 DEF IInv
<1> QED BY <1>1, <1>2

\* A page is whole where it lies and in the hands of whoever reads it, for any
\* pages, saves and readers, and wherever a save fails or the process ends, as
\* long as the saves of one page do not overlap.
THEOREM PageFilesAreWhole == ASSUME Together = 1 PROVE Spec => []WholePages
<1>1. IInv /\ [Next]_vars => IInv'
  BY IInvStep
<1>2. IInv => WholePages
  BY DEF IInv
<1> QED BY <1>1, <1>2, Initially, PTL DEF Spec

-----------------------------------------------------------------------------
(* The files implement the register.                                         *)

\* The values of a page's saves, and what the pages say.
Asked(p) == {writer[w].value : w \in Saving(p)}
Current == [p \in Slugs |-> Says(p)]
Asks == [p \in Slugs |-> Asked(p)]

\* While no page changes the register says what it said.
LEMMA SaysStill ==
    ASSUME page' = page,
           \A p \in Slugs : page[p] # None => inode'[page[p]] = inode[page[p]]
    PROVE  Current' = Current
<1>1. \A p \in Slugs : Says(p)' = Says(p)
  BY DEF Says
<1> QED BY <1>1 DEF Current

\* A save that goes on asks for what it asked for.
LEMMA AsksStill ==
    ASSUME NEW w \in Writers, writer'[w].page = writer[w].page, writer'[w].value = writer[w].value,
           \A x \in Writers \ {w} : writer'[x] = writer[x]
    PROVE  Asks' = Asks
<1>1. \A x \in Writers : writer'[x].page = writer[x].page /\ writer'[x].value = writer[x].value
  OBVIOUS
<1>2. \A p \in Slugs : Saving(p)' = Saving(p)
  BY <1>1 DEF Saving
<1>3. ASSUME NEW p \in Slugs PROVE Asked(p)' = Asked(p)
  BY <1>1, <1>2 DEF Asked, Saving
<1> QED BY <1>3 DEF Asks

\* One that is over asks no more; with one save at a time nobody else does.
LEMMA AsksNoMore ==
    ASSUME IInv, NEW w \in Writers, writer[w].page \in Slugs,
           writer' = [writer EXCEPT ![w] = NoSave]
    PROVE  /\ writer[w].value \in Asks[writer[w].page]
           /\ Asks' = [Asks EXCEPT ![writer[w].page] = @ \ {writer[w].value}]
<1>p. PICK p \in Slugs, v \in {writer[w].value} : p = writer[w].page
  OBVIOUS
<1>1. writer'[w] = NoSave /\ \A x \in Writers \ {w} : writer'[x] = writer[x]
  BY DEF IInv, TypesFit
<1>2. Saving(p) = {w} /\ Saving(p)' = {}
  <2>1. NoSave.page = None /\ p # None
    BY <1>p, NoneAssumption DEF NoSave
  <2>2. \A x \in Writers : x # w => writer[x].page # p
    BY <1>p, <2>1 DEF IInv, SavesApart
  <2>3. \A x \in Writers : writer'[x].page # p
    BY <1>1, <2>1, <2>2
  <2> QED BY <1>p, <2>2, <2>3 DEF Saving
<1>3. Asked(p) = {v} /\ Asked(p)' = {}
  BY <1>p, <1>2 DEF Asked
<1>4. ASSUME NEW q \in Slugs \ {p} PROVE Asked(q)' = Asked(q)
  <2>1. Saving(q)' = Saving(q) /\ w \notin Saving(q)
    BY <1>1, <1>p, NoneAssumption DEF Saving, NoSave
  <2> QED BY <1>1, <2>1 DEF Asked, Saving
<1>5. Asks[p] = {v} /\ Asks' = [Asks EXCEPT ![p] = Asks[p] \ {v}]
  BY <1>3, <1>4 DEF Asks
<1> QED BY <1>p, <1>5

\* And one that begins asks for its value.
LEMMA AsksMore ==
    ASSUME IInv, NEW w \in Writers, NEW p \in Slugs, NEW v \in Values, StartSave(w, p, v)
    PROVE  Asks' = [Asks EXCEPT ![p] = @ \cup {v}]
<1> DEFINE save == [NoSave EXCEPT !.at = "open", !.page = p, !.value = v]
<1>1. save.page = p /\ save.value = v
  BY DEF NoSave
<1>2. writer[w] = NoSave /\ writer' = [writer EXCEPT ![w] = save]
  BY DEF StartSave
<1> HIDE DEF save
<1>3. writer'[w] = save /\ (\A x \in Writers \ {w} : writer'[x] = writer[x]) /\ writer[w].page = None
  BY <1>2 DEF IInv, TypesFit, NoSave
<1>4. Saving(p)' = Saving(p) \cup {w} /\ \A q \in Slugs \ {p} : Saving(q)' = Saving(q)
  BY <1>1, <1>3, NoneAssumption DEF Saving
<1>5. \A q \in Slugs : w \notin Saving(q)
  BY <1>3, NoneAssumption DEF Saving
<1>6. ASSUME NEW q \in Slugs PROVE \A x \in Saving(q) : writer'[x].value = writer[x].value
  BY <1>3, <1>5 DEF Saving
<1>7. Asked(p)' = Asked(p) \cup {v}
  BY <1>1, <1>3, <1>4, <1>6 DEF Asked
<1>8. ASSUME NEW q \in Slugs \ {p} PROVE Asked(q)' = Asked(q)
  BY <1>4, <1>6 DEF Asked
<1> QED BY <1>7, <1>8 DEF Asks

\* No page says anything at first, and nothing is asked for.
LEMMA InitMaps == Init => Register!Init
<1> SUFFICES ASSUME Init PROVE Register!Init
  OBVIOUS
<1>1. \A p \in Slugs : Says(p) = None /\ Saving(p) = {}
  BY NoneAssumption DEF Init, Says, Saving, NoSave
<1> QED BY <1>1 DEF Register!Init

\* Every step is one of the register's, or none: a save asks, the rename
\* replaces the page by what it asked for, and any other end of it gives up.
LEMMA StepMaps ==
    ASSUME Together = 1, IInv, [Next]_vars
    PROVE  Register!Next \/ UNCHANGED <<Current, Asks>>
<1> USE DEF IInv
<1>1. ASSUME NEW w \in Writers, NEW p \in Slugs, NEW v \in Values, StartSave(w, p, v)
      PROVE  Register!Ask(p, v)
  <2>1. Current' = Current
    BY <1>1, SaysStill DEF StartSave
  <2>2. Asks' = [Asks EXCEPT ![p] = @ \cup {v}]
    BY <1>1, AsksMore
  <2> QED BY <2>1, <2>2 DEF Register!Ask, Current, Asks, Asked
<1>2. ASSUME NEW w \in Writers, Open(w) \/ WriteBlock(w)
      PROVE  UNCHANGED <<Current, Asks>>
  <2>1. /\ writer'[w].page = writer[w].page /\ writer'[w].value = writer[w].value
        /\ \A p \in Slugs : page[p] # None => inode'[page[p]] = inode[page[p]]
    BY <1>2, OpenStep, WriteBlockStep
  <2>2. page' = page /\ \A x \in Writers \ {w} : writer'[x] = writer[x]
    BY <1>2 DEF Open, WriteBlock, TypesFit
  <2> QED BY <2>1, <2>2, SaysStill, AsksStill
<1>3. ASSUME NEW w \in Writers, WriteFails(w) \/ RenameFails(w)
      PROVE  \E p \in Slugs, v \in Values : Register!GiveUp(p, v)
  <2>1. writer[w].page \in Slugs /\ writer[w].value \in Values
    BY <1>3, WriteFailsStep, RenameFailsStep, SavesAndLooks
       DEF WriteFails, RenameFails, SavesApart, Saves
  <2>p. PICK p \in Slugs, v \in Values : p = writer[w].page /\ v = writer[w].value
    BY <2>1
  <2>2. Current' = Current /\ writer' = [writer EXCEPT ![w] = NoSave]
    BY <1>3, SaysStill DEF WriteFails, RenameFails
  <2>3. v \in Asks[p] /\ Asks' = [Asks EXCEPT ![p] = @ \ {v}]
    BY <2>p, <2>2, AsksNoMore
  <2>4. Register!GiveUp(p, v)
    BY <2>2, <2>3 DEF Register!GiveUp, Current, Asks, Asked
  <2> QED BY <2>4
<1>4. ASSUME NEW w \in Writers, Rename(w)
      PROVE  \E p \in Slugs, v \in Values : Register!Replace(p, v)
  <2>p. PICK p \in Slugs, v \in Values : p = writer[w].page /\ v = writer[w].value
    BY <1>4, RenameStep
  <2>1. /\ page'[p] # None /\ inode'[page'[p]] = [b \in Block |-> v]
        /\ \A q \in Slugs \ {p} : page'[q] = page[q]
    BY <1>4, <2>p, RenameStep
  <2>2. inode' = inode /\ writer' = [writer EXCEPT ![w] = NoSave]
    BY <1>4 DEF Rename
  <2>3. v \in Asks[p] /\ Asks' = [Asks EXCEPT ![p] = @ \ {v}]
    BY <2>p, <2>2, AsksNoMore
  <2>4. Says(p)' = v
    BY <2>1, SavesAndLooks DEF Says
  <2>5. \A q \in Slugs \ {p} : Says(q)' = Says(q)
    BY <2>1, <2>2 DEF Says
  <2>6. Current' = [Current EXCEPT ![p] = v]
    BY <2>4, <2>5 DEF Current
  <2>7. Register!Replace(p, v)
    BY <2>3, <2>6 DEF Register!Replace, Current, Asks, Asked
  <2> QED BY <2>7
<1>5. CASE Crash
  <2>1. Current' = Current
    BY <1>5, SaysStill DEF Crash
  <2>2. \A p \in Slugs : Saving(p)' = {}
    BY <1>5, NoneAssumption DEF Crash, Saving, NoSave
  <2>3. Asks' = [p \in Slugs |-> {}]
    BY <2>2 DEF Asks, Asked
  <2>4. Register!Crash
    BY <2>1, <2>3 DEF Register!Crash, Current, Asks, Asked
  <2> QED BY <2>4 DEF Register!Next
<1>6. ASSUME UNCHANGED <<inode, page, writer>> PROVE UNCHANGED <<Current, Asks>>
  BY <1>6 DEF Current, Says, Asks, Asked, Saving
<1>7. ASSUME NEW r \in Readers, ReadBlock(r) \/ \E p \in Slugs : OpenPage(r, p)
      PROVE  UNCHANGED <<Current, Asks>>
  BY <1>6, <1>7 DEF ReadBlock, OpenPage
<1>8. CASE UNCHANGED vars
  BY <1>6, <1>8 DEF vars
<1>9. CASE Next
  BY <1>1, <1>2, <1>3, <1>4, <1>5, <1>7, <1>9 DEF Next, Register!Next
<1> QED BY <1>8, <1>9

\* A page's file is a register: it changes from one save's page to another's in
\* one step, which that save takes, and a save that fails or dies changes nothing.
THEOREM PageFilesAreRegisters == ASSUME Together = 1 PROVE Spec => ImplementsRegister
<1>1. Init => Register!Init
  BY InitMaps
<1>2. IInv /\ [Next]_vars => [Register!Next]_<<Current, Asks>>
  BY StepMaps
<1>3. IInv /\ [Next]_vars => IInv'
  BY IInvStep
<1>4. IInv /\ [Next]_vars =>
         [Register!Next]_<<[p \in Slugs |-> Says(p)], [p \in Slugs |-> {writer[w].value : w \in Saving(p)}]>>
  BY <1>2 DEF Current, Asks, Asked
<1> QED BY <1>1, <1>3, <1>4, Initially, PTL DEF Spec, ImplementsRegister, Register!Spec

-----------------------------------------------------------------------------
(***************************************************************************)
(* The rest is about the manuscripts.  Whatever splits and merges are      *)
(* under way, every request and every walk has in hand what it should      *)
(* (ManuscriptFits), and a finished manifest is the tree as it was walked: *)
(* what the walk has emitted is what the manifest says (EmittedFits), the  *)
(* texts follow one another in the document (DocumentFits), and the        *)
(* entries on the stack are what is still to come of the lists that are    *)
(* open (TreeFits).                                                        *)
(***************************************************************************)
(* What the requests and the walk have in hand, whoever writes meanwhile.    *)

Files == Pages \cup {None, Garbled}
Lists == Seq(Slugs \cup Strays)

SplitPlaces == {"tail", "head", "row tail", "row head", "mark head", "mark tail"}
MergePlaces == {"join", "row joined", "unlink", "row gone", "unpin", "mark joined", "mark gone"}
ListPlaces  == {"find", "next", "rewrite", "row parent"}
Hands == [at : {"rest", "read", "check"} \cup SplitPlaces \cup MergePlaces \cup ListPlaces,
          op : {"none", "split", "merge"}, from : Slugs \cup {None}, to : Slugs \cup {None},
          cut : Nat, src : Pages \cup {None}, dst : Pages \cup {None}, todo : SUBSET Slugs,
          parent : Slugs \cup {None}, page : Pages \cup {None}, wiki : [Slugs -> Files] \cup {None}]

\* What a request has read by the time it is somewhere.
HandFits(t) ==
    /\ t \in Hands
    /\ t.at # "rest" => t.op \in {"split", "merge"} /\ t.from \in Slugs /\ t.to \in Slugs
    /\ t.at \in SplitPlaces => t.op = "split"
    /\ t.at \in MergePlaces => t.op = "merge"
    /\ t.at \notin {"rest", "read"} => t.src \in Pages /\ t.src.parts = None
    /\ t.at \notin {"rest", "read", "check"} =>
          IF t.op = "split" THEN Divides(t.src.body, t.cut) ELSE t.dst \in Pages
    /\ t.at \in {"rewrite", "row parent"} => t.parent \in Slugs /\ t.page \in Pages

SpineFits ==
    /\ disk \in [Slugs -> Files] /\ rows \in [Slugs -> Pages \cup {None}]
    /\ total \in [Slugs -> Nat \cup {None}]
    /\ pins \subseteq Slugs /\ unmarked \subseteq Slugs /\ halved \in BOOLEAN
    /\ DOMAIN task = Clients /\ \A c \in Clients : HandFits(task[c])

Phases == {"idle", "root", "style", "walk", "done", "refused"}
Origins == [parent : Slugs \cup {None}, ordinal : Nat]
Entries == [raw : Slugs \cup Strays, depth : Nat, inherited : BOOLEAN, origin : Origins]
Statuses == {"included", "excluded", "invalid", "duplicate", "wanted", "unreadable"}
Sections == [slug : Slugs \cup Strays, status : Statuses, depth : Nat, words : Nat, subtree : Nat,
             offset : Nat, length : Nat, origin : Origins, lists : Lists]

WalkFits ==
    /\ phase \in Phases /\ compiles \in Nat
    /\ phase # "idle" => root \in Slugs
    /\ phase = "style" => style \in Slugs /\ style # None
    /\ style \in Styles \cup {None}
    /\ emitted \subseteq Slugs /\ skipped \subseteq Slugs
    /\ stack \in Seq(Entries) /\ sections \in Seq(Sections) /\ out \in Seq(Texts \cup {Blank})
    /\ Len(sections) <= MaxSections /\ Len(out) <= MaxBytes
    /\ \A i \in DOMAIN sections : sections[i].depth <= MaxDepth /\ sections[i].length <= Len(out)
    /\ phase \in {"idle", "root", "style"} => sections = <<>> /\ out = <<>> /\ emitted = {} /\ skipped = {}

ManuscriptFits == SpineFits /\ WalkFits

-----------------------------------------------------------------------------
(* The manifest.                                                             *)

\* Only the preamble has been emitted without being counted among `emitted`.
IsPreamble(i) == i = 1 /\ style # None
EmittedFits ==
    /\ \A i \in DOMAIN sections : IsIncluded(i) => sections[i].slug \in emitted \/ IsPreamble(i)
    /\ phase # "refused" =>
          \A s \in emitted : \E i \in DOMAIN sections : IsIncluded(i) /\ sections[i].slug = s

\* The sections' texts follow one another, and between them there are only blanks.
EndOf(i) == IF i = Len(sections) THEN Len(out) ELSE sections[i + 1].offset
TextFits(i) ==
    LET x == sections[i] IN
    /\ x.length = x.words /\ x.offset + x.words <= EndOf(i) /\ EndOf(i) <= Len(out)
    /\ \A n \in (x.offset + 1)..(x.offset + x.words) : out[n] # Blank
    /\ \A n \in (x.offset + x.words + 1)..EndOf(i) : out[n] = Blank
DocumentFits == \A i \in DOMAIN sections : TextFits(i)

\* The sections below i end with the sections, and the ones still to come of
\* its list are on the stack.
IsOpen(i) == \A j \in (i + 1)..Len(sections) : sections[j].depth > sections[i].depth
Pending(i) == {q \in DOMAIN stack : IsOpen(i) /\ stack[q].depth = sections[i].depth + 1}

FollowsIn(i, ordinal, parent, slug) ==
    LET list == sections[i].lists IN
    ordinal \in DOMAIN list /\ slug = list[ordinal] /\ parent = sections[i].slug
ListFits(i) ==
    /\ \A n \in DOMAIN sections[i].lists :
          \/ \E k \in ChildrenOf(i) : sections[k].origin.ordinal = n
          \/ \E q \in Pending(i) : stack[q].origin.ordinal = n
    /\ \A k \in ChildrenOf(i) :
          LET x == sections[k] IN FollowsIn(i, x.origin.ordinal, x.origin.parent, x.slug)
    /\ \A q \in Pending(i) :
          LET e == stack[q] IN FollowsIn(i, e.origin.ordinal, e.origin.parent, e.raw)
    /\ \A j, k \in ChildrenOf(i) : j < k => sections[j].origin.ordinal < sections[k].origin.ordinal
    /\ \A k \in ChildrenOf(i), q \in Pending(i) : sections[k].origin.ordinal < stack[q].origin.ordinal
    /\ \A p, q \in Pending(i) : p < q => stack[q].origin.ordinal < stack[p].origin.ordinal

\* What is on the stack is deepest at its top, and each entry is of an open list.
StackFits ==
    /\ \A p, q \in DOMAIN stack : p < q => stack[p].depth <= stack[q].depth
    /\ \A q \in DOMAIN stack : IF stack[q].depth = 0 THEN Len(stack) = 1
                               ELSE \E i \in DOMAIN sections : q \in Pending(i)
TreeFits == /\ phase \in {"style", "walk", "done"} => StackFits /\ \A i \in DOMAIN sections : ListFits(i)
            /\ phase = "done" => stack = <<>>

-----------------------------------------------------------------------------
(* Splicing.                                                               *)

Splices(g, list, item, these) ==
    g = [i \in 0..Len(list) |-> IF i = 0 THEN <<>>
                                ELSE g[i - 1] \o IF list[i] = item THEN these ELSE <<list[i]>>]

\* Some number of a set is the least.
LEMMA LeastOf ==
    ASSUME NEW T \in SUBSET Nat, T # {}
    PROVE  \E n \in T : \A k \in Nat : k < n => k \notin T
<1>1. PICK n \in T : \A m \in T : ~(<<m, n>> \in OpToRel(<, Nat))
  BY NatLessThanWellFounded, WFMin
<1>2. \A m \in T : ~(m < n)
  BY <1>1 DEF OpToRel
<1> QED BY <1>2

\* There is such a function.
LEMMA SpliceExists ==
    ASSUME NEW S, NEW list \in Seq(S), NEW item, NEW these \in Seq(S)
    PROVE  \E g \in [0..Len(list) -> Seq(S)] : Splices(g, list, item, these)
<1> DEFINE L == Len(list)
           Value(g, i) == IF i = 0 THEN <<>>
                          ELSE g[i - 1] \o IF list[i] = item THEN these ELSE <<list[i]>>
           UpTo(n) == \E g \in [0..L -> Seq(S)] : \A i \in 0..L : i <= n => g[i] = Value(g, i)
           Fails == {n \in Nat : ~UpTo(n)}
<1>0. L \in Nat /\ \A i \in 1..L : list[i] \in S
  BY LenProperties, ElementOfSeq
<1>1. UpTo(0)
  <2> DEFINE g == [i \in 0..L |-> <<>>]
  <2>1. g \in [0..L -> Seq(S)] /\ \A i \in 0..L : i <= 0 => g[i] = Value(g, i)
    BY <1>0
  <2> QED BY <2>1
<1>2. ASSUME NEW n \in Nat, UpTo(n) PROVE UpTo(n + 1)
  <2>1. PICK g \in [0..L -> Seq(S)] : \A i \in 0..L : i <= n => g[i] = Value(g, i)
    BY <1>2
  <2> DEFINE h == [i \in 0..L |-> Value(g, i)]
  <2>2. \A i \in 0..L : Value(g, i) \in Seq(S)
    <3> SUFFICES ASSUME NEW i \in 0..L, i # 0 PROVE Value(g, i) \in Seq(S)
      OBVIOUS
    <3>1. g[i - 1] \in Seq(S) /\ list[i] \in S
      <4>1. i - 1 \in 0..L /\ i \in 1..L
        BY <1>0
      <4> QED BY <1>0, <4>1
    <3>2. <<list[i]>> \in Seq(S)
      BY <3>1
    <3> QED BY <3>1, <3>2, ConcatProperties
  <2>3. h \in [0..L -> Seq(S)]
    BY <2>2
  <2>4. \A i \in 0..L : i <= n + 1 => h[i] = Value(h, i)
    <3> SUFFICES ASSUME NEW i \in 0..L, i <= n + 1, i # 0 PROVE h[i] = Value(h, i)
      OBVIOUS
    <3>1. i - 1 \in 0..L /\ i - 1 <= n
      BY <1>0
    <3>2. h[i - 1] = g[i - 1]
      BY <2>1, <3>1
    <3> QED BY <3>2
  <2> HIDE DEF h, Value
  <2> QED BY <2>3, <2>4
<1> HIDE DEF UpTo
<1>3. Fails = {}
  <2> SUFFICES ASSUME Fails # {} PROVE FALSE
    OBVIOUS
  <2>1. PICK n \in Fails : \A k \in Nat : k < n => k \notin Fails
    BY LeastOf
  <2>2. n \in Nat /\ n # 0 /\ ~UpTo(n) BY <1>1
  <2>3. n - 1 \in Nat /\ n - 1 \notin Fails /\ (n - 1) + 1 = n BY <2>1, <2>2
  <2>4. UpTo(n - 1) BY <2>3
  <2> QED BY <1>2, <2>2, <2>3, <2>4
<1>4. UpTo(L)
  BY <1>0, <1>3
<1>5. PICK g \in [0..L -> Seq(S)] : \A i \in 0..L : i <= L => g[i] = Value(g, i)
  BY <1>4 DEF UpTo
<1>6. g = [i \in 0..L |-> Value(g, i)]
  <2>1. \A i \in 0..L : i <= L
    BY <1>0
  <2> HIDE DEF Value, L
  <2> QED BY <1>5, <2>1
<1> QED BY <1>6 DEF Splices

\* A spliced list is made of what there was and what is put in, and what it is
\* put in for is gone.
LEMMA SplicedIs ==
    ASSUME NEW S, NEW list \in Seq(S), NEW item, NEW these \in Seq(S)
    PROVE  /\ Spliced(list, item, these) \in Seq(S)
           /\ item \notin Range(these) => item \notin Range(Spliced(list, item, these))
<1> DEFINE L == Len(list)
           f == CHOOSE g : Splices(g, list, item, these)
<1>0. L \in Nat /\ \A i \in 1..L : list[i] \in S
  BY LenProperties, ElementOfSeq
<1>1. Spliced(list, item, these) = f[L]
  BY DEF Spliced, Splices
<1>2. Splices(f, list, item, these)
  BY SpliceExists
<1> HIDE DEF f
<1>3. f[0] = <<>> /\ \A i \in 1..L : f[i] = f[i - 1] \o IF list[i] = item THEN these ELSE <<list[i]>>
  BY <1>0, <1>2 DEF Splices
<1> DEFINE Good(i) == f[i] \in Seq(S) /\ (item \notin Range(these) => item \notin Range(f[i]))
           Fails == {i \in Nat : i <= L /\ ~Good(i)}
<1>4. Good(0)
  BY <1>3 DEF Range
<1>5. ASSUME NEW i \in 1..L, Good(i - 1) PROVE Good(i)
  <2>1. CASE list[i] = item
    <3>1. f[i] = f[i - 1] \o these
      BY <1>3, <2>1
    <3>2. Range(f[i]) = Range(f[i - 1]) \cup Range(these)
      BY <1>5, <3>1, RangeConcatenation
    <3> QED BY <1>5, <3>1, <3>2, ConcatProperties
  <2>2. CASE list[i] # item
    <3>1. f[i] = f[i - 1] \o <<list[i]>> /\ <<list[i]>> \in Seq(S)
      <4>1. list[i] \in S
        BY <1>0
      <4>2. <<list[i]>> \in Seq(S)
        BY <4>1
      <4> QED BY <1>3, <2>2, <4>2
    <3>2. Range(f[i]) = Range(f[i - 1]) \cup Range(<<list[i]>>)
      BY <1>5, <3>1, RangeConcatenation
    <3>3. Range(<<list[i]>>) = {list[i]}
      BY DEF Range
    <3> QED BY <1>5, <2>2, <3>1, <3>2, <3>3, ConcatProperties
  <2> QED BY <2>1, <2>2
<1> HIDE DEF Good
<1>6. Fails = {}
  <2> SUFFICES ASSUME Fails # {} PROVE FALSE
    OBVIOUS
  <2>1. PICK n \in Fails : \A k \in Nat : k < n => k \notin Fails
    BY LeastOf
  <2>2. n \in 1..L /\ ~Good(n)
    BY <1>0, <1>4
  <2>3. n - 1 \in Nat /\ n - 1 <= L /\ n - 1 \notin Fails
    BY <1>0, <2>1, <2>2
  <2> QED BY <1>5, <2>2, <2>3
<1> QED BY <1>0, <1>1, <1>6 DEF Good

-----------------------------------------------------------------------------
(* The requests have in hand what they should.                             *)

\* The pages that splits and merges make.
LEMMA HalvesArePages ==
    ASSUME NEW src \in Pages, NEW cut \in Nat, Divides(src.body, cut)
    PROVE  HeadOf(src, cut) \in Pages /\ TailOf(src, cut) \in Pages
<1>1. src.body \in Seq(Texts) /\ Len(src.body) \in Nat /\ \A i \in 1..Len(src.body) : src.body[i] \in Texts
  <2>1. src.body \in Seq(Texts)
    BY DEF Pages
  <2> QED BY <2>1, LenProperties, ElementOfSeq
<1>2. Head1(src.body, cut) \in Seq(Texts)
  <2>1. \A i \in 1..cut : src.body[i] \in Texts
    BY <1>1 DEF Divides
  <2> QED BY <2>1, SubSeqProperties DEF Head1
<1>3. Tail1(src.body, cut) \in Seq(Texts)
  <2>1. \A i \in (cut + 1)..Len(src.body) : src.body[i] \in Texts
    BY <1>1
  <2>2. cut + 1 \in Int /\ Len(src.body) \in Int
    BY <1>1
  <2> QED BY <2>1, <2>2, SubSeqProperties DEF Tail1
<1> QED BY <1>2, <1>3 DEF HeadOf, TailOf, Pages

LEMMA JoinedIsPage ==
    ASSUME NEW src \in Pages, NEW dst \in Pages
    PROVE  Joined(dst, src) \in Pages
<1>1. dst.body \o src.body \in Seq(Texts)
  BY ConcatProperties DEF Pages
<1> QED BY <1>1 DEF Joined, Join, Pages

LEMMA WordsAreNat == ASSUME NEW src \in Pages PROVE Words(src) \in Nat
<1>1. src.body \in Seq(Texts)
  BY DEF Pages
<1> QED BY <1>1, LenProperties DEF Words

\* A list that a request rewrites is a list again, and names the page folded
\* away no more.
LEMMA RewrittenIsList ==
    ASSUME NEW t \in Hands, NEW list \in Lists, t.from \in Slugs, t.to \in Slugs,
           Rewritten(t, list) # None
    PROVE  /\ Rewritten(t, list) \in Lists
           /\ t.op # "split" => t.from \notin Range(Rewritten(t, list))
<1>1. CASE t.op = "split"
  <2>1. Rewritten(t, list) = Spliced(list, t.from, <<t.from, t.to>>)
    BY <1>1 DEF Rewritten, InsertAfter
  <2>2. <<t.from, t.to>> \in Lists
    BY DEF Lists
  <2>3. Spliced(list, t.from, <<t.from, t.to>>) \in Lists
    BY <2>2, SplicedIs DEF Lists
  <2> QED BY <1>1, <2>1, <2>3
<1>2. CASE t.op # "split"
  <2>1. Rewritten(t, list) = Spliced(list, t.from, <<>>)
    BY <1>2 DEF Rewritten, Without
  <2>2. <<>> \in Lists /\ t.from \notin Range(<<>>)
    BY DEF Lists, Range
  <2>3. /\ Spliced(list, t.from, <<>>) \in Lists
        /\ t.from \notin Range(Spliced(list, t.from, <<>>))
    BY <2>2, SplicedIs DEF Lists
  <2> QED BY <1>2, <2>1, <2>3
<1> QED BY <1>1, <1>2

\* None is no list, and is what a list that does not name the page becomes.
LEMMA RewrittenIsNone ==
    ASSUME NEW t \in Hands, NEW list \in Lists, t.op = "merge", Rewritten(t, list) = None
    PROVE  t.from \notin Range(list)
<1>1. <<>> \in Lists
  BY DEF Lists
<1>2. Spliced(list, t.from, <<>>) \in Lists
  BY <1>1, SplicedIs DEF Lists
<1> QED BY <1>2, SpineNoList DEF Rewritten, Without, Lists

LEMMA RestFitsHand == HandFits(Rest)
BY DEF Rest, HandFits, Hands, SplitPlaces, MergePlaces, ListPlaces

LEMMA PagesApart == None \notin Pages /\ Garbled \notin Pages /\ None # Garbled
BY SpineNone, WikiNone

LEMMA FilesArePages ==
    ASSUME NEW file \in Files
    PROVE  IsPage(file) <=> file \in Pages
BY PagesApart DEF Files, IsPage

\* One request moves on.
LEMMA HandMoves ==
    ASSUME SpineFits, NEW c \in Clients, NEW t, HandFits(t), task' = [task EXCEPT ![c] = t]
    PROVE  DOMAIN task' = Clients /\ \A d \in Clients : HandFits(task'[d])
BY DEF SpineFits

\* A request that puts one thing in its hand holds the rest as it did.
LEMMA HandsStay ==
    ASSUME NEW t \in Hands
    PROVE  /\ \A v \in SplitPlaces \cup MergePlaces \cup ListPlaces : [t EXCEPT !.at = v] \in Hands
           /\ \A v \in Pages : [t EXCEPT !.src = v] \in Hands
           /\ \A v \in Pages : [t EXCEPT !.dst = v] \in Hands
           /\ \A v \in SUBSET Slugs : [t EXCEPT !.todo = v] \in Hands
           /\ \A p \in Slugs, v \in Pages : [t EXCEPT !.parent = p, !.page = v] \in Hands
<1>1. PICK A, O, S, P, W :
         /\ A = {"rest", "read", "check"} \cup SplitPlaces \cup MergePlaces \cup ListPlaces
         /\ O = {"none", "split", "merge"} /\ S = Slugs \cup {None} /\ P = Pages \cup {None}
         /\ W = [Slugs -> Files] \cup {None}
  OBVIOUS
<1>2. Hands = [at : A, op : O, from : S, to : S, cut : Nat, src : P, dst : P, todo : SUBSET Slugs,
               parent : S, page : P, wiki : W]
  BY <1>1 DEF Hands
<1>3. /\ \A v \in SplitPlaces \cup MergePlaces \cup ListPlaces : v \in A
      /\ \A v \in Slugs : v \in S
      /\ \A v \in Pages : v \in P
  BY <1>1
<1>4. \A v \in A : [t EXCEPT !.at = v] \in Hands
  BY <1>2
<1>5. \A v \in P : [t EXCEPT !.src = v] \in Hands /\ [t EXCEPT !.dst = v] \in Hands
  BY <1>2
<1>6. \A v \in SUBSET Slugs : [t EXCEPT !.todo = v] \in Hands
  BY <1>2
<1>7. \A p \in S, v \in P : [t EXCEPT !.parent = p, !.page = v] \in Hands
  BY <1>2
<1> QED BY <1>3, <1>4, <1>5, <1>6, <1>7

\* Where it may go on to, with what it has.
LEMMA HandGoesOn ==
    ASSUME NEW t, HandFits(t), NEW where,
           \/ (t.at = "tail" /\ where = "head")
           \/ (t.at = "head" /\ where = "row tail")
           \/ (t.at = "row tail" /\ where = "row head")
           \/ (t.at = "row head" /\ where = "mark head")
           \/ (t.at = "mark head" /\ where = "mark tail")
           \/ (t.at = "mark tail" /\ where = "find")
           \/ (t.at = "join" /\ where = "row joined")
           \/ (t.at = "row joined" /\ where = "unlink")
           \/ (t.at = "unlink" /\ where = "row gone")
           \/ (t.at = "row gone" /\ where = "unpin")
           \/ (t.at = "unpin" /\ where = "mark joined")
           \/ (t.at = "mark joined" /\ where = "mark gone")
           \/ (t.at = "mark gone" /\ where = "find")
           \/ (t.at = "rewrite" /\ where = "row parent")
           \/ (t.at = "row parent" /\ where = "next")
    PROVE  HandFits([t EXCEPT !.at = where])
<1> DEFINE u == [t EXCEPT !.at = where]
<1>1. t \in Hands
  BY DEF HandFits
<1>2. u \in Hands
  <2>1. where \in SplitPlaces \cup MergePlaces \cup ListPlaces
    BY DEF SplitPlaces, MergePlaces, ListPlaces
  <2> QED BY <1>1, <2>1, HandsStay
<1>3. /\ u.at = where /\ u.op = t.op /\ u.from = t.from /\ u.to = t.to /\ u.cut = t.cut
      /\ u.src = t.src /\ u.dst = t.dst /\ u.parent = t.parent /\ u.page = t.page
  BY <1>1 DEF Hands
<1> HIDE DEF u
<1>4. HandFits(u)
  <2>1. u.at # "rest" /\ t.at # "rest" /\ t.at \notin {"read", "check"} /\ u.at \notin {"read", "check"}
    BY <1>3
  <2>2. /\ u.at \in SplitPlaces => t.at \in SplitPlaces
        /\ u.at \in MergePlaces => t.at \in MergePlaces
        /\ u.at \in {"rewrite", "row parent"} => t.at \in {"rewrite", "row parent"}
    BY <1>3 DEF SplitPlaces, MergePlaces
  <2> QED BY <1>2, <1>3, <2>1, <2>2 DEF HandFits
<1> QED BY <1>4 DEF u

LEMMA AskFits ==
    ASSUME SpineFits, NEW c \in Clients, Ask(c) PROVE SpineFits'
<1>1. PICK op \in {"split", "merge"}, from \in Slugs, to \in Slugs, cut \in 0..2 :
         Go(c, "read", [Rest EXCEPT !.op = op, !.from = from, !.to = to, !.cut = cut, !.wiki = disk])
  BY DEF Ask
<1> DEFINE u == [at |-> "read", op |-> op, from |-> from, to |-> to, cut |-> cut, src |-> None,
                 dst |-> None, todo |-> {}, parent |-> None, page |-> None, wiki |-> disk]
<1>2. u \in Hands
  <2>1. cut \in Nat /\ disk \in [Slugs -> Files]
    BY DEF SpineFits
  <2> QED BY <2>1 DEF Hands
<1>3. HandFits(u)
  <2>1. u.at = "read" /\ u.op \in {"split", "merge"} /\ u.from \in Slugs /\ u.to \in Slugs
    OBVIOUS
  <2> HIDE DEF u
  <2> QED BY <1>2, <2>1 DEF HandFits, SplitPlaces, MergePlaces
<1>4. task' = [task EXCEPT ![c] = u]
  <2> DEFINE R(at, o, f, s, n, w) == [at |-> at, op |-> o, from |-> f, to |-> s, cut |-> n, src |-> None,
                                      dst |-> None, todo |-> {}, parent |-> None, page |-> None, wiki |-> w]
  <2>1. Rest = R("rest", "none", None, None, 0, None)
    BY DEF Rest
  <2>2. [Rest EXCEPT !.op = op] = R("rest", op, None, None, 0, None)
    BY <2>1
  <2>3. [Rest EXCEPT !.op = op, !.from = from] = R("rest", op, from, None, 0, None)
    <3>1. [R("rest", op, None, None, 0, None) EXCEPT !.from = from] = R("rest", op, from, None, 0, None)
      OBVIOUS
    <3> HIDE DEF R
    <3> QED BY <2>2, <3>1
  <2>4. [Rest EXCEPT !.op = op, !.from = from, !.to = to] = R("rest", op, from, to, 0, None)
    <3>1. [R("rest", op, from, None, 0, None) EXCEPT !.to = to] = R("rest", op, from, to, 0, None)
      OBVIOUS
    <3> HIDE DEF R
    <3> QED BY <2>3, <3>1
  <2>5. [Rest EXCEPT !.op = op, !.from = from, !.to = to, !.cut = cut] = R("rest", op, from, to, cut, None)
    <3>1. [R("rest", op, from, to, 0, None) EXCEPT !.cut = cut] = R("rest", op, from, to, cut, None)
      OBVIOUS
    <3> HIDE DEF R
    <3> QED BY <2>4, <3>1
  <2>6. [Rest EXCEPT !.op = op, !.from = from, !.to = to, !.cut = cut, !.wiki = disk]
            = R("rest", op, from, to, cut, disk)
    <3>1. [R("rest", op, from, to, cut, None) EXCEPT !.wiki = disk] = R("rest", op, from, to, cut, disk)
      OBVIOUS
    <3> HIDE DEF R
    <3> QED BY <2>5, <3>1
  <2>7. u = [[Rest EXCEPT !.op = op, !.from = from, !.to = to, !.cut = cut, !.wiki = disk] EXCEPT !.at = "read"]
    <3>1. [R("rest", op, from, to, cut, disk) EXCEPT !.at = "read"] = u
      OBVIOUS
    <3> HIDE DEF R, u
    <3> QED BY <2>6, <3>1
  <2> HIDE DEF u
  <2> QED BY <1>1, <2>7 DEF Go
<1> HIDE DEF u
<1>5. DOMAIN task' = Clients /\ \A d \in Clients : HandFits(task'[d])
  BY <1>3, <1>4, HandMoves
<1> QED BY <1>5 DEF Ask, SpineFits

LEMMA ReadSourceFits ==
    ASSUME SpineFits, NEW c \in Clients, ReadSource(c) PROVE SpineFits'
<1>1. PICK t : t = task[c]
  OBVIOUS
<1>2. HandFits(t) /\ t.at = "read"
  BY <1>1 DEF SpineFits, ReadSource, At
<1>3. CASE Refuse(c)
  <2>1. DOMAIN task' = Clients /\ \A d \in Clients : HandFits(task'[d])
    BY <1>3, RestFitsHand, HandMoves DEF Refuse, Give
  <2> QED BY <1>3, <2>1 DEF ReadSource, Refuse, SpineFits
<1>4. CASE /\ Readable(disk[t.from]) /\ disk[t.from].parts = None
           /\ Go(c, "check", [t EXCEPT !.src = disk[t.from]]) /\ UNCHANGED halved
  <2> DEFINE u == [[t EXCEPT !.src = disk[t.from]] EXCEPT !.at = "check"]
  <2>1. t.from \in Slugs /\ t \in Hands
    BY <1>2 DEF HandFits
  <2>2. disk[t.from] \in Pages
    BY <1>4, <2>1, FilesArePages DEF SpineFits, Readable
  <2>3. u \in Hands
    BY <2>1, <2>2 DEF Hands
  <2>4. /\ u.at = "check" /\ u.op = t.op /\ u.from = t.from /\ u.to = t.to
        /\ u.src = disk[t.from]
    BY <2>1 DEF Hands
  <2>5. task' = [task EXCEPT ![c] = u]
    BY <1>4 DEF Go
  <2> HIDE DEF u
  <2>6. HandFits(u)
    BY <1>2, <1>4, <2>2, <2>3, <2>4 DEF HandFits, SplitPlaces, MergePlaces
  <2>7. DOMAIN task' = Clients /\ \A d \in Clients : HandFits(task'[d])
    BY <2>5, <2>6, HandMoves
  <2> QED BY <1>4, <2>7 DEF ReadSource, SpineFits
<1> QED BY <1>1, <1>3, <1>4 DEF ReadSource

LEMMA CheckDestinationFits ==
    ASSUME SpineFits, NEW c \in Clients, CheckDestination(c) PROVE SpineFits'
<1>1. PICK t : t = task[c]
  OBVIOUS
<1>2. HandFits(t) /\ t.at = "check"
  BY <1>1 DEF SpineFits, CheckDestination, At
<1>3. t \in Hands /\ t.from \in Slugs /\ t.to \in Slugs /\ t.src \in Pages /\ t.op \in {"split", "merge"}
      /\ t.src.parts = None
  BY <1>2 DEF HandFits
<1>4. CASE Refuse(c)
  <2>1. DOMAIN task' = Clients /\ \A d \in Clients : HandFits(task'[d])
    BY <1>4, RestFitsHand, HandMoves DEF Refuse, Give
  <2> QED BY <1>4, <2>1 DEF CheckDestination, Refuse, SpineFits
<1>5. CASE t.op = "split" /\ Divides(t.src.body, t.cut) /\ Go(c, "tail", t) /\ UNCHANGED halved
  <2> DEFINE u == [t EXCEPT !.at = "tail"]
  <2>1. u \in Hands
    <3>1. "tail" \in SplitPlaces
      BY DEF SplitPlaces
    <3> QED BY <1>3, <3>1, HandsStay
  <2>2. u.at = "tail" /\ u.op = "split" /\ u.from = t.from /\ u.to = t.to /\ u.src = t.src /\ u.cut = t.cut
    BY <1>3, <1>5 DEF Hands
  <2>3. task' = [task EXCEPT ![c] = u]
    BY <1>5 DEF Go
  <2> HIDE DEF u
  <2>4. HandFits(u)
    BY <1>3, <1>5, <2>1, <2>2 DEF HandFits, SplitPlaces, MergePlaces
  <2>5. DOMAIN task' = Clients /\ \A d \in Clients : HandFits(task'[d])
    BY <2>3, <2>4, HandMoves
  <2> QED BY <1>5, <2>5 DEF CheckDestination, SpineFits
<1>6. CASE /\ t.op # "split" /\ Readable(disk[t.to])
           /\ Go(c, "join", [t EXCEPT !.dst = disk[t.to]]) /\ UNCHANGED halved
  <2> DEFINE u == [[t EXCEPT !.dst = disk[t.to]] EXCEPT !.at = "join"]
  <2>1. disk[t.to] \in Pages
    BY <1>3, <1>6, FilesArePages DEF SpineFits, Readable
  <2>2. u \in Hands
    <3>1. "join" \in MergePlaces
      BY DEF MergePlaces
    <3>2. [t EXCEPT !.dst = disk[t.to]] \in Hands
      BY <1>3, <2>1, HandsStay
    <3> QED BY <3>1, <3>2, HandsStay
  <2>3. /\ u.at = "join" /\ u.op = t.op /\ u.from = t.from /\ u.to = t.to /\ u.src = t.src
        /\ u.dst = disk[t.to]
    BY <1>3 DEF Hands
  <2>4. task' = [task EXCEPT ![c] = u]
    BY <1>6 DEF Go
  <2> HIDE DEF u
  <2>5. HandFits(u)
    BY <1>3, <1>6, <2>1, <2>2, <2>3 DEF HandFits, SplitPlaces, MergePlaces
  <2>6. DOMAIN task' = Clients /\ \A d \in Clients : HandFits(task'[d])
    BY <2>4, <2>5, HandMoves
  <2> QED BY <1>6, <2>6 DEF CheckDestination, SpineFits
<1> QED BY <1>1, <1>4, <1>5, <1>6 DEF CheckDestination

\* Writing and indexing the pages that a request has made.
LEMMA SaveFits2 ==
    ASSUME SpineFits, NEW c \in Clients, NEW s \in Slugs, NEW p \in Files, NEW then,
           Save(c, s, p, then), HandFits([task[c] EXCEPT !.at = then])
    PROVE  SpineFits'
<1>1. DOMAIN task' = Clients /\ \A d \in Clients : HandFits(task'[d])
  BY HandMoves DEF Save, Go
<1>2. disk' \in [Slugs -> Files]
  BY DEF Save, SpineFits
<1> QED BY <1>1, <1>2 DEF Save, SpineFits

LEMMA IndexFits2 ==
    ASSUME SpineFits, NEW c \in Clients, NEW s \in Slugs, NEW p \in Pages \cup {None}, NEW then,
           Index(c, s, p, then), HandFits([task[c] EXCEPT !.at = then])
    PROVE  SpineFits'
<1>1. DOMAIN task' = Clients /\ \A d \in Clients : HandFits(task'[d])
  BY HandMoves DEF Index, Go
<1>2. rows' \in [Slugs -> Pages \cup {None}]
  BY DEF Index, SpineFits
<1> QED BY <1>1, <1>2 DEF Index, SpineFits

\* What a request has in hand where it writes or tells.
LEMMA InHand ==
    ASSUME SpineFits, NEW c \in Clients, NEW t, t = task[c]
    PROVE  /\ HandFits(t) /\ t \in Hands
           /\ t.at # "rest" => t.from \in Slugs /\ t.to \in Slugs
           /\ t.at \in SplitPlaces => /\ t.src \in Pages /\ HeadOf(t.src, t.cut) \in Pages
                                      /\ TailOf(t.src, t.cut) \in Pages
           /\ t.at \in MergePlaces => /\ t.src \in Pages /\ t.dst \in Pages
                                      /\ Joined(t.dst, t.src) \in Pages
           /\ t.at \in {"rewrite", "row parent"} => t.parent \in Slugs /\ t.page \in Pages
<1>1. HandFits(t) /\ t \in Hands /\ t.cut \in Nat
  BY DEF SpineFits, HandFits, Hands
<1>2. ASSUME t.at \in SplitPlaces PROVE t.src \in Pages /\ HeadOf(t.src, t.cut) \in Pages /\ TailOf(t.src, t.cut) \in Pages
  <2>1. t.src \in Pages /\ Divides(t.src.body, t.cut)
    BY <1>1, <1>2 DEF HandFits, SplitPlaces
  <2> QED BY <1>1, <2>1, HalvesArePages
<1>3. ASSUME t.at \in MergePlaces PROVE t.src \in Pages /\ t.dst \in Pages /\ Joined(t.dst, t.src) \in Pages
  <2>1. t.src \in Pages /\ t.dst \in Pages
    BY <1>1, <1>3 DEF HandFits, MergePlaces
  <2> QED BY <2>1, JoinedIsPage
<1> QED BY <1>1, <1>2, <1>3 DEF HandFits

LEMMA WritesFit ==
    ASSUME SpineFits, NEW c \in Clients,
           WriteTail(c) \/ WriteHead(c) \/ WriteJoined(c) \/ WriteParent(c)
    PROVE  SpineFits'
<1>1. PICK t : t = task[c]
  OBVIOUS
<1>2. Pages \subseteq Files
  BY DEF Files
<1>3. CASE WriteTail(c)
  <2>1. t.at = "tail" /\ t.at \in SplitPlaces /\ Save(c, t.to, TailOf(t.src, t.cut), "head")
    BY <1>1, <1>3 DEF WriteTail, At, SplitPlaces
  <2>2. HandFits([t EXCEPT !.at = "head"])
    BY <1>1, <2>1, InHand, HandGoesOn
  <2> QED BY <1>1, <1>2, <2>1, <2>2, InHand, SaveFits2
<1>4. CASE WriteHead(c)
  <2>1. t.at = "head" /\ t.at \in SplitPlaces /\ Save(c, t.from, HeadOf(t.src, t.cut), "row tail")
    BY <1>1, <1>4 DEF WriteHead, At, SplitPlaces
  <2>2. HandFits([t EXCEPT !.at = "row tail"])
    BY <1>1, <2>1, InHand, HandGoesOn
  <2> QED BY <1>1, <1>2, <2>1, <2>2, InHand, SaveFits2
<1>5. CASE WriteJoined(c)
  <2>1. t.at = "join" /\ t.at \in MergePlaces /\ Save(c, t.to, Joined(t.dst, t.src), "row joined")
    BY <1>1, <1>5 DEF WriteJoined, At, MergePlaces
  <2>2. HandFits([t EXCEPT !.at = "row joined"])
    BY <1>1, <2>1, InHand, HandGoesOn
  <2> QED BY <1>1, <1>2, <2>1, <2>2, InHand, SaveFits2
<1>6. CASE WriteParent(c)
  <2>1. t.at = "rewrite" /\ Save(c, t.parent, t.page, "row parent")
    BY <1>1, <1>6 DEF WriteParent, At
  <2>2. HandFits([t EXCEPT !.at = "row parent"])
    BY <1>1, <2>1, InHand, HandGoesOn
  <2> QED BY <1>1, <1>2, <2>1, <2>2, InHand, SaveFits2
<1> QED BY <1>3, <1>4, <1>5, <1>6

LEMMA IndexesFit ==
    ASSUME SpineFits, NEW c \in Clients,
           IndexTail(c) \/ IndexHead(c) \/ IndexJoined(c) \/ RemoveRow(c)
    PROVE  SpineFits'
<1>1. PICK t : t = task[c]
  OBVIOUS
<1>3. CASE IndexTail(c)
  <2>1. t.at = "row tail" /\ t.at \in SplitPlaces /\ Index(c, t.to, TailOf(t.src, t.cut), "row head")
    BY <1>1, <1>3 DEF IndexTail, At, SplitPlaces
  <2>2. HandFits([t EXCEPT !.at = "row head"])
    BY <1>1, <2>1, InHand, HandGoesOn
  <2> QED BY <1>1, <2>1, <2>2, InHand, IndexFits2
<1>4. CASE IndexHead(c)
  <2>1. t.at = "row head" /\ t.at \in SplitPlaces /\ Index(c, t.from, HeadOf(t.src, t.cut), "mark head")
    BY <1>1, <1>4 DEF IndexHead, At, SplitPlaces
  <2>2. HandFits([t EXCEPT !.at = "mark head"])
    BY <1>1, <2>1, InHand, HandGoesOn
  <2> QED BY <1>1, <2>1, <2>2, InHand, IndexFits2
<1>5. CASE IndexJoined(c)
  <2>1. t.at = "row joined" /\ t.at \in MergePlaces /\ Index(c, t.to, Joined(t.dst, t.src), "unlink")
    BY <1>1, <1>5 DEF IndexJoined, At, MergePlaces
  <2>2. HandFits([t EXCEPT !.at = "unlink"])
    BY <1>1, <2>1, InHand, HandGoesOn
  <2> QED BY <1>1, <2>1, <2>2, InHand, IndexFits2
<1>6. CASE RemoveRow(c)
  <2>1. t.at = "row gone" /\ Index(c, t.from, None, "unpin")
    BY <1>1, <1>6 DEF RemoveRow, At
  <2>2. HandFits([t EXCEPT !.at = "unpin"])
    BY <1>1, <2>1, InHand, HandGoesOn
  <2> QED BY <1>1, <2>1, <2>2, InHand, IndexFits2
<1> QED BY <1>3, <1>4, <1>5, <1>6

LEMMA UnlinkFits ==
    ASSUME SpineFits, NEW c \in Clients, Unlink(c) PROVE SpineFits'
<1>1. PICK t : t = task[c]
  OBVIOUS
<1>2. t.at = "unlink" /\ t.from \in Slugs /\ HandFits(t)
  BY <1>1, InHand DEF Unlink, At
<1>3. CASE GiveUp(c) /\ UNCHANGED disk
  <2>1. DOMAIN task' = Clients /\ \A d \in Clients : HandFits(task'[d])
    BY <1>3, RestFitsHand, HandMoves DEF GiveUp, Give
  <2> QED BY <1>3, <2>1 DEF Unlink, GiveUp, SpineFits
<1>4. CASE disk' = [disk EXCEPT ![t.from] = None] /\ Go(c, "row gone", t) /\ UNCHANGED halved
  <2>1. HandFits([t EXCEPT !.at = "row gone"])
    BY <1>2, HandGoesOn
  <2>2. DOMAIN task' = Clients /\ \A d \in Clients : HandFits(task'[d])
    BY <1>4, <2>1, HandMoves DEF Go
  <2>3. disk' \in [Slugs -> Files]
    BY <1>2, <1>4 DEF SpineFits, Files
  <2> QED BY <1>4, <2>2, <2>3 DEF Unlink, SpineFits
<1> QED BY <1>1, <1>3, <1>4 DEF Unlink

LEMMA UnpinFits ==
    ASSUME SpineFits, NEW c \in Clients, Unpin(c) PROVE SpineFits'
<1>1. PICK t : t = task[c]
  OBVIOUS
<1>2. HandFits([t EXCEPT !.at = "mark joined"])
  BY <1>1, InHand, HandGoesOn DEF Unpin, At
<1>3. DOMAIN task' = Clients /\ \A d \in Clients : HandFits(task'[d])
  BY <1>1, <1>2, HandMoves DEF Unpin, Go
<1> QED BY <1>3 DEF Unpin, SpineFits

\* What a marker says, and what comes after it.
LEMMA MarkerIs ==
    ASSUME SpineFits, NEW c \in Clients, Marking(c), NEW t, t = task[c], NEW m, m = Marker(t)
    PROVE  /\ m.slug \in Slugs /\ m.total \in Nat \cup {None}
           /\ HandFits([t EXCEPT !.at = m.then])
<1>1. CASE t.at = "mark head"
  <2>1. Words(HeadOf(t.src, t.cut)) \in Nat /\ t.from \in Slugs
    BY <1>1, InHand, WordsAreNat DEF SplitPlaces
  <2>2. HandFits([t EXCEPT !.at = "mark tail"])
    BY <1>1, InHand, HandGoesOn
  <2>3. PICK n \in Nat : n = Words(HeadOf(t.src, t.cut))
    BY <2>1
  <2>4. m = [slug |-> t.from, total |-> n, then |-> "mark tail"]
    BY <1>1, <2>3 DEF Marker
  <2>5. m.slug = t.from /\ m.total = n /\ m.then = "mark tail"
    BY ONLY <2>4
  <2> QED BY <2>1, <2>2, <2>5
<1>2. CASE t.at = "mark tail"
  <2>1. Words(TailOf(t.src, t.cut)) \in Nat /\ t.to \in Slugs
    BY <1>2, InHand, WordsAreNat DEF SplitPlaces
  <2>2. HandFits([t EXCEPT !.at = "find"])
    BY <1>2, InHand, HandGoesOn
  <2>3. PICK n \in Nat : n = Words(TailOf(t.src, t.cut))
    BY <2>1
  <2>4. m = [slug |-> t.to, total |-> n, then |-> "find"]
    BY <1>2, <2>3 DEF Marker
  <2>5. m.slug = t.to /\ m.total = n /\ m.then = "find"
    BY ONLY <2>4
  <2> QED BY <2>1, <2>2, <2>5
<1>3. CASE t.at = "mark joined"
  <2>1. Words(Joined(t.dst, t.src)) \in Nat /\ t.to \in Slugs
    BY <1>3, InHand, WordsAreNat DEF MergePlaces
  <2>2. HandFits([t EXCEPT !.at = "mark gone"])
    BY <1>3, InHand, HandGoesOn
  <2>3. PICK n \in Nat : n = Words(Joined(t.dst, t.src))
    BY <2>1
  <2>4. m = [slug |-> t.to, total |-> n, then |-> "mark gone"]
    BY <1>3, <2>3 DEF Marker
  <2>5. m.slug = t.to /\ m.total = n /\ m.then = "mark gone"
    BY ONLY <2>4
  <2> QED BY <2>1, <2>2, <2>5
<1>4. CASE t.at = "mark gone"
  <2>1. m = [slug |-> t.from, total |-> None, then |-> "find"]
    BY <1>4 DEF Marker
  <2>2. t.from \in Slugs
    BY <1>4, InHand
  <2>3. HandFits([t EXCEPT !.at = "find"])
    BY <1>4, InHand, HandGoesOn
  <2>4. m.slug = t.from /\ m.total = None /\ m.then = "find"
    BY ONLY <2>1
  <2> QED BY <2>2, <2>3, <2>4
<1> QED BY <1>1, <1>2, <1>3, <1>4 DEF Marking

LEMMA MarksFit ==
    ASSUME SpineFits, NEW c \in Clients, Mark(c) \/ LoseMark(c) PROVE SpineFits'
<1>1. PICK t : t = task[c]
  OBVIOUS
<1>2. PICK m : m = Marker(t)
  OBVIOUS
<1>3. Marking(c)
  BY DEF Mark, LoseMark
<1>4. /\ m.slug \in Slugs /\ m.total \in Nat \cup {None}
      /\ HandFits([t EXCEPT !.at = m.then])
  BY <1>1, <1>2, <1>3, MarkerIs
<1>5. task' = [task EXCEPT ![c] = [t EXCEPT !.at = m.then]]
  BY <1>1, <1>2 DEF Mark, LoseMark, Go
<1>6. DOMAIN task' = Clients /\ \A d \in Clients : HandFits(task'[d])
  BY <1>4, <1>5, HandMoves
<1>7. total' \in [Slugs -> Nat \cup {None}]
  BY <1>1, <1>2, <1>4 DEF Mark, LoseMark, SpineFits
<1>8. unmarked' \subseteq Slugs
  BY <1>1, <1>2, <1>4 DEF Mark, LoseMark, SpineFits
<1> QED BY <1>6, <1>7, <1>8 DEF Mark, LoseMark, SpineFits

LEMMA FindFits ==
    ASSUME SpineFits, NEW c \in Clients, Find(c) PROVE SpineFits'
<1>1. PICK t : t = task[c]
  OBVIOUS
<1>2. PICK todo \in SUBSET Slugs : todo = ParentsNaming(t.from)
  BY DEF ParentsNaming
<1>3. HandFits(t) /\ t \in Hands /\ t.at = "find" /\ t.from \in Slugs /\ t.to \in Slugs
  BY <1>1, InHand DEF Find, At
<1> DEFINE u == [[t EXCEPT !.todo = todo] EXCEPT !.at = "next"]
<1>4. u \in Hands
  BY <1>3 DEF Hands, ListPlaces
<1>5. /\ u.at = "next" /\ u.op = t.op /\ u.from = t.from /\ u.to = t.to /\ u.src = t.src
      /\ u.dst = t.dst /\ u.cut = t.cut
  BY <1>3 DEF Hands
<1>6. task' = [task EXCEPT ![c] = u]
  BY <1>1, <1>2 DEF Find, Go
<1> HIDE DEF u
<1>7. HandFits(u)
  BY <1>3, <1>4, <1>5 DEF HandFits, SplitPlaces, MergePlaces
<1>8. DOMAIN task' = Clients /\ \A d \in Clients : HandFits(task'[d])
  BY <1>6, <1>7, HandMoves
<1> QED BY <1>8 DEF Find, SpineFits

\* A parent is passed over, or read to be rewritten.
Changes(t, p) == Readable(disk[p]) /\ disk[p].parts # None /\ Rewritten(t, disk[p].parts) # None
Passed(c, t, p) ==
    ~Changes(t, p) /\ task' = [task EXCEPT ![c] = [[t EXCEPT !.todo = @ \ {p}] EXCEPT !.at = "next"]]
ToRewrite(c, t, p) ==
    /\ Changes(t, p) /\ disk[p] \in Pages
    /\ \E file \in Pages :
          /\ file = [disk[p] EXCEPT !.parts = Rewritten(t, disk[p].parts)]
          /\ task' = [task EXCEPT ![c] = [[[t EXCEPT !.todo = @ \ {p}]
                                      EXCEPT !.parent = p, !.page = file] EXCEPT !.at = "rewrite"]]

\* What reading a parent leaves in hand.
LEMMA ParentRead ==
    ASSUME SpineFits, NEW c \in Clients, ReadParent(c), NEW t, t = task[c]
    PROVE  \E p \in t.todo : t.todo \subseteq Slugs /\ (Passed(c, t, p) \/ ToRewrite(c, t, p))
<1>1. HandFits(t) /\ t \in Hands /\ t.at = "next" /\ t.from \in Slugs /\ t.to \in Slugs
  BY InHand DEF ReadParent, At
<1>2. t.todo \subseteq Slugs
  BY <1>1 DEF Hands
<1>3. PICK p \in t.todo :
         LET left == [t EXCEPT !.todo = @ \ {p}]
             file == disk[p]
         IN IF /\ Readable(file) /\ file.parts # None
               /\ Rewritten(t, file.parts) # None
            THEN Go(c, "rewrite", [left EXCEPT !.parent = p, !.page =
                                    [file EXCEPT !.parts = Rewritten(t, file.parts)]])
            ELSE Go(c, "next", left)
  BY DEF ReadParent
<1>4. CASE ~Changes(t, p)
  BY <1>2, <1>3, <1>4 DEF Go, Changes, Passed
<1>5. CASE Changes(t, p)
  <2>0. Readable(disk[p]) /\ disk[p].parts # None /\ Rewritten(t, disk[p].parts) # None
    BY <1>5 DEF Changes
  <2>1. PICK old : old = disk[p]
    OBVIOUS
  <2>2. old \in Pages
    BY <1>2, <2>0, <2>1, FilesArePages DEF SpineFits, Readable
  <2>3. PICK parts : parts = Rewritten(t, old.parts)
    OBVIOUS
  <2>4. parts \in Lists
    <3>1. old.parts \in Lists
      BY <2>0, <2>1, <2>2 DEF Pages, Lists
    <3> QED BY <1>1, <2>0, <2>1, <2>3, <3>1, RewrittenIsList
  <2>5. [old EXCEPT !.parts = parts] \in Pages
    BY <2>2, <2>4 DEF Pages, Lists
  <2>6. task' = [task EXCEPT ![c] = [[[t EXCEPT !.todo = @ \ {p}]
                      EXCEPT !.parent = p, !.page = [old EXCEPT !.parts = parts]] EXCEPT !.at = "rewrite"]]
    BY <1>3, <2>0, <2>1, <2>3 DEF Go
  <2> QED BY <1>2, <1>5, <2>1, <2>2, <2>3, <2>5, <2>6 DEF ToRewrite
<1> QED BY <1>4, <1>5

LEMMA ReadParentFits ==
    ASSUME SpineFits, NEW c \in Clients, ReadParent(c) PROVE SpineFits'
<1>1. PICK t : t = task[c]
  OBVIOUS
<1>2. HandFits(t) /\ t \in Hands /\ t.at = "next" /\ t.from \in Slugs /\ t.to \in Slugs
  BY <1>1, InHand DEF ReadParent, At
<1>3. t.todo \subseteq Slugs /\ t.at \notin SplitPlaces /\ t.at \notin MergePlaces
  BY <1>2 DEF Hands, SplitPlaces, MergePlaces
<1>4. ASSUME NEW u \in Hands, task' = [task EXCEPT ![c] = u],
             u.at \in {"next", "rewrite"}, u.op = t.op, u.from = t.from, u.to = t.to, u.src = t.src,
             u.dst = t.dst, u.cut = t.cut, u.at = "rewrite" => u.parent \in Slugs /\ u.page \in Pages
      PROVE  SpineFits'
  <2>1. HandFits(u)
    BY <1>2, <1>4 DEF HandFits, SplitPlaces, MergePlaces
  <2>2. DOMAIN task' = Clients /\ \A d \in Clients : HandFits(task'[d])
    BY <1>4, <2>1, HandMoves
  <2> QED BY <2>2 DEF ReadParent, SpineFits
<1>5. PICK p \in t.todo : Passed(c, t, p) \/ ToRewrite(c, t, p)
  BY <1>1, ParentRead
<1>6. CASE Passed(c, t, p)
  <2> DEFINE u == [[t EXCEPT !.todo = @ \ {p}] EXCEPT !.at = "next"]
  <2>1. u \in Hands
    BY <1>2, <1>3 DEF Hands, ListPlaces
  <2>2. u.at = "next" /\ u.op = t.op /\ u.from = t.from /\ u.to = t.to /\ u.src = t.src
        /\ u.dst = t.dst /\ u.cut = t.cut
    BY <1>2 DEF Hands
  <2>3. task' = [task EXCEPT ![c] = u]
    BY <1>6 DEF Passed
  <2> HIDE DEF u
  <2> QED BY <1>4, <2>1, <2>2, <2>3
<1>7. ASSUME NEW file \in Pages,
             task' = [task EXCEPT ![c] = [[[t EXCEPT !.todo = @ \ {p}]
                            EXCEPT !.parent = p, !.page = file] EXCEPT !.at = "rewrite"]]
      PROVE  SpineFits'
  <2> DEFINE v == [t EXCEPT !.todo = @ \ {p}]
             u == [[v EXCEPT !.parent = p, !.page = file] EXCEPT !.at = "rewrite"]
  <2>1. v \in Hands /\ p \in Slugs
    BY <1>2, <1>3 DEF Hands
  <2>2. v.op = t.op /\ v.from = t.from /\ v.to = t.to /\ v.src = t.src /\ v.dst = t.dst /\ v.cut = t.cut
    BY <1>2 DEF Hands
  <2>3. task' = [task EXCEPT ![c] = u]
    BY <1>7
  <2> HIDE DEF v
  <2>4. u \in Hands
    BY <2>1 DEF Hands, ListPlaces
  <2>5. u.at = "rewrite" /\ u.op = v.op /\ u.from = v.from /\ u.to = v.to /\ u.src = v.src
        /\ u.dst = v.dst /\ u.cut = v.cut /\ u.parent = p /\ u.page = file
    BY <2>1 DEF Hands
  <2> HIDE DEF u
  <2> QED BY <1>4, <2>1, <2>2, <2>3, <2>4, <2>5
<1> QED BY <1>5, <1>6, <1>7 DEF ToRewrite

LEMMA IndexParentFits ==
    ASSUME SpineFits, NEW c \in Clients, IndexParent(c) PROVE SpineFits'
<1>1. PICK t : t = task[c]
  OBVIOUS
<1>2. HandFits(t) /\ t.at = "row parent" /\ t.parent \in Slugs /\ t.page \in Pages
  BY <1>1, InHand DEF IndexParent, At
<1>3. HandFits([t EXCEPT !.at = "next"])
  BY <1>2, HandGoesOn
<1>4. task' = [task EXCEPT ![c] = [t EXCEPT !.at = "next"]]
  BY <1>1 DEF IndexParent, Go
<1>5. DOMAIN task' = Clients /\ \A d \in Clients : HandFits(task'[d])
  BY <1>3, <1>4, HandMoves
<1>6. rows' \in [Slugs -> Pages \cup {None}] /\ unmarked' \subseteq Slugs
  BY <1>1, <1>2 DEF IndexParent, SpineFits
<1> QED BY <1>5, <1>6 DEF IndexParent, SpineFits

\* The pages a request has told the index of and the log is still to hear of.
LEMMA UntoldAreSlugs ==
    ASSUME NEW t, HandFits(t) PROVE Untold(t) \subseteq Slugs
<1>1. t.at # "rest" => t.from \in Slugs /\ t.to \in Slugs
  BY DEF HandFits
<1> QED BY <1>1 DEF Untold

LEMMA EndsFit ==
    ASSUME SpineFits, NEW c \in Clients, Answer(c) \/ Fail(c) PROVE SpineFits'
<1>1. DOMAIN task' = Clients /\ \A d \in Clients : HandFits(task'[d])
  BY RestFitsHand, HandMoves DEF Answer, Fail, Refuse, Give
<1>2. CASE Answer(c)
  BY <1>1, <1>2 DEF Answer, Refuse, SpineFits
<1>3. CASE Fail(c)
  <2>1. Untold(task[c]) \subseteq Slugs
    BY UntoldAreSlugs DEF SpineFits
  <2>2. halved' \in BOOLEAN
    BY <1>3 DEF Fail, SpineFits, Halfway
  <2> QED BY <1>1, <1>3, <2>1, <2>2 DEF Fail, SpineFits
<1> QED BY <1>2, <1>3

LEMMA RestartFits ==
    ASSUME SpineFits, Restart PROVE SpineFits'
<1>1. DOMAIN task' = Clients /\ \A d \in Clients : HandFits(task'[d])
  BY RestFitsHand DEF Restart
<1>2. UNION {Untold(task[c]) : c \in Clients} \subseteq Slugs
  BY UntoldAreSlugs DEF SpineFits
<1>3. unmarked' \subseteq Slugs
  BY <1>2 DEF Restart, SpineFits
<1>4. \A s \in Slugs : IsPage(disk[s]) => disk[s] \in Pages
  BY FilesArePages DEF SpineFits
<1>5. rows' \in [Slugs -> Pages \cup {None}]
  BY <1>4 DEF Restart
<1>6. total' \in [Slugs -> Nat \cup {None}]
  <2>1. \A s \in Slugs : total[s] \in Nat \cup {None} /\ (s \in Weighed => Words(disk[s]) \in Nat)
    BY <1>4, WordsAreNat DEF SpineFits, Weighed
  <2>2. total' = [s \in Slugs |-> IF s \in Weighed THEN Words(disk[s]) ELSE IF s \in Vanished THEN None ELSE total[s]]
    BY DEF Restart
  <2> QED BY <2>1, <2>2
<1>7. halved' \in BOOLEAN
  BY DEF Restart, SpineFits
<1> QED BY <1>1, <1>3, <1>5, <1>6, <1>7 DEF Restart, SpineFits

LEMMA WatchFits ==
    ASSUME SpineFits, NEW s \in Slugs, Watch(s) PROVE SpineFits'
<1>1. IsPage(disk[s]) => disk[s] \in Pages /\ Words(disk[s]) \in Nat
  BY FilesArePages, WordsAreNat DEF SpineFits
<1>2. rows' \in [Slugs -> Pages \cup {None}]
  BY <1>1 DEF Watch, SpineFits
<1>3. total' \in [Slugs -> Nat \cup {None}]
  BY <1>1 DEF Watch, SpineFits
<1> QED BY <1>2, <1>3 DEF Watch, SpineFits

LEMMA SpineFitsStep ==
    ASSUME SpineFits, SpineNext PROVE SpineFits'
<1>1. ASSUME NEW c \in Clients, SpineStep(c) PROVE SpineFits'
  BY <1>1, AskFits, ReadSourceFits, CheckDestinationFits, WritesFit, IndexesFit, UnlinkFits, UnpinFits,
     MarksFit, FindFits, ReadParentFits, IndexParentFits, EndsFit DEF SpineStep
<1> QED BY <1>1, RestartFits, WatchFits DEF SpineNext

-----------------------------------------------------------------------------
(* The words below a section.                                              *)

Runs(g, i) ==
    g = [j \in i..Len(sections) |->
           sections[j].words + IF j < Len(sections) /\ sections[j + 1].depth > sections[i].depth
                               THEN g[j + 1] ELSE 0]

LEMMA WordsAreNumbers ==
    ASSUME sections \in Seq(Sections), NEW i \in DOMAIN sections
    PROVE  /\ Len(sections) \in Nat /\ i \in 1..Len(sections)
           /\ \A j \in i..Len(sections) : sections[j].words \in Nat /\ j \in Nat
<1>1. Len(sections) \in Nat /\ i \in 1..Len(sections)
  BY LenProperties
<1>2. ASSUME NEW j \in i..Len(sections)
      PROVE  sections[j].words \in Nat /\ j \in Nat
  <2>1. j \in 1..Len(sections) /\ j \in Nat
    BY <1>1
  <2>2. sections[j] \in Sections
    BY <2>1, ElementOfSeq
  <2>3. PICK x \in Sections : x = sections[j]
    BY <2>2
  <2>4. x.words \in Nat
    BY DEF Sections
  <2> QED BY <2>1, <2>3, <2>4
<1> QED BY <1>1, <1>2

\* There is such a function.
LEMMA RunExists ==
    ASSUME sections \in Seq(Sections), NEW i \in DOMAIN sections
    PROVE  \E g \in [i..Len(sections) -> Nat] : Runs(g, i)
<1> DEFINE L == Len(sections)
           Goes(j) == j < L /\ sections[j + 1].depth > sections[i].depth
           Value(g, j) == sections[j].words + IF Goes(j) THEN g[j + 1] ELSE 0
           From(n) == \E g \in [i..L -> Nat] : \A j \in i..L : L - j <= n => g[j] = Value(g, j)
           Fails == {n \in Nat : ~From(n)}
<1>0. L \in Nat /\ i \in 1..L /\ \A j \in i..L : sections[j].words \in Nat /\ j \in Nat
  BY WordsAreNumbers
<1> HIDE DEF Goes
<1>1. From(0)
  <2> DEFINE g == [j \in i..L |-> sections[j].words]
  <2>1. g \in [i..L -> Nat]
    BY <1>0
  <2>2. \A j \in i..L : L - j <= 0 => g[j] = Value(g, j)
    <3> SUFFICES ASSUME NEW j \in i..L, L - j <= 0 PROVE g[j] = Value(g, j)
      OBVIOUS
    <3>1. ~Goes(j) /\ sections[j].words \in Nat
      BY <1>0 DEF Goes
    <3> QED BY <3>1
  <2> QED BY <2>1, <2>2
<1>2. ASSUME NEW n \in Nat, From(n) PROVE From(n + 1)
  <2>1. PICK g \in [i..L -> Nat] : \A j \in i..L : L - j <= n => g[j] = Value(g, j)
    BY <1>2
  <2> DEFINE h == [j \in i..L |-> Value(g, j)]
  <2>2. \A j \in i..L : Goes(j) => j + 1 \in i..L /\ L - (j + 1) = (L - j) - 1
    BY <1>0 DEF Goes
  <2>3. h \in [i..L -> Nat]
    BY <1>0, <2>2
  <2>4. \A j \in i..L : L - j <= n + 1 => h[j] = Value(h, j)
    <3> SUFFICES ASSUME NEW j \in i..L, L - j <= n + 1 PROVE h[j] = Value(h, j)
      OBVIOUS
    <3>1. CASE ~Goes(j)
      BY <3>1
    <3>2. CASE Goes(j)
      <4>1. j + 1 \in i..L /\ L - (j + 1) <= n
        BY <1>0, <2>2, <3>2
      <4>2. h[j + 1] = g[j + 1]
        BY <2>1, <4>1
      <4> QED BY <3>2, <4>2
    <3> QED BY <3>1, <3>2
  <2> HIDE DEF h, Value
  <2> QED BY <2>3, <2>4
<1> HIDE DEF From
<1>3. Fails = {}
  <2> SUFFICES ASSUME Fails # {} PROVE FALSE
    OBVIOUS
  <2>1. PICK n \in Fails : \A k \in Nat : k < n => k \notin Fails
    BY LeastOf
  <2>2. n \in Nat /\ n # 0 /\ ~From(n) BY <1>1
  <2>3. n - 1 \in Nat /\ n - 1 \notin Fails /\ (n - 1) + 1 = n BY <2>1, <2>2
  <2>4. From(n - 1) BY <2>3
  <2> QED BY <1>2, <2>2, <2>3, <2>4
<1>4. From(L)
  BY <1>0, <1>3
<1>5. PICK g \in [i..L -> Nat] : \A j \in i..L : L - j <= L => g[j] = Value(g, j)
  BY <1>4 DEF From
<1>6. \A j \in i..L : L - j <= L
  BY <1>0
<1>7. g = [j \in i..L |-> Value(g, j)]
  <2> HIDE DEF Value, L
  <2> QED BY <1>5, <1>6
<1> QED BY <1>7 DEF Runs, Goes

\* And Subtree is what it says.
LEMMA SubtreeIs ==
    ASSUME sections \in Seq(Sections), NEW i \in DOMAIN sections
    PROVE  \E g \in [i..Len(sections) -> Nat] : Runs(g, i) /\ Subtree(i) = g[i]
<1> DEFINE L == Len(sections)
           f == CHOOSE g : Runs(g, i)
           Goes(j) == j < L /\ sections[j + 1].depth > sections[i].depth
<1>0. L \in Nat /\ i \in 1..L /\ \A j \in i..L : sections[j].words \in Nat /\ j \in Nat
  BY WordsAreNumbers
<1>1. Subtree(i) = f[i]
  BY DEF Subtree, Runs
<1>2. Runs(f, i)
  BY RunExists
<1> HIDE DEF f
<1>3. DOMAIN f = i..L /\ f = [j \in i..L |-> f[j]]
  BY <1>2 DEF Runs
<1>4. \A j \in i..L : f[j] = sections[j].words + IF Goes(j) THEN f[j + 1] ELSE 0
  BY <1>2 DEF Runs
<1> DEFINE Fails == {n \in Nat : \E j \in i..L : L - j = n /\ f[j] \notin Nat}
<1>5. Fails = {}
  <2> SUFFICES ASSUME Fails # {} PROVE FALSE
    OBVIOUS
  <2>1. PICK n \in Fails : \A k \in Nat : k < n => k \notin Fails
    BY LeastOf
  <2>2. PICK j \in i..L : L - j = n /\ f[j] \notin Nat
    OBVIOUS
  <2>3. Goes(j) /\ f[j + 1] \notin Nat
    BY <1>0, <1>4, <2>2
  <2>4. j + 1 \in i..L /\ L - (j + 1) \in Nat /\ L - (j + 1) < n
    <3>1. j < L
      BY <2>3
    <3>2. L \in Nat /\ i \in Nat /\ j \in i..L /\ L - j = n
      BY <1>0, <2>2
    <3> HIDE DEF L, Goes
    <3> QED BY <3>1, <3>2
  <2>5. L - (j + 1) \in Fails
    BY <2>3, <2>4
  <2> HIDE DEF Fails
  <2> QED BY <2>1, <2>4, <2>5
<1>6. \A j \in i..L : f[j] \in Nat
  <2> SUFFICES ASSUME NEW j \in i..L, f[j] \notin Nat PROVE L - j \in Fails
    BY <1>5
  <2>1. L - j \in Nat
    BY <1>0
  <2> QED BY <2>1
<1>7. f \in [i..L -> Nat]
  BY <1>3, <1>6
<1> QED BY <1>1, <1>2, <1>7

-----------------------------------------------------------------------------
(* The walk has in hand what it should.                                    *)

\* The top of the stack and what is below it.
LEMMA TopOfStack ==
    ASSUME stack \in Seq(Entries), stack # <<>>
    PROVE  /\ Entry \in Entries /\ Below \in Seq(Entries) /\ Len(stack) \in Nat /\ Len(stack) >= 1
           /\ Len(Below) = Len(stack) - 1 /\ \A q \in 1..Len(Below) : Below[q] = stack[q]
<1>1. Len(stack) \in Nat /\ Len(stack) >= 1
  BY EmptySeq
<1>2. \A q \in 1..Len(stack) : stack[q] \in Entries
  BY ElementOfSeq
<1>3. Entry \in Entries
  BY <1>1, <1>2 DEF Entry
<1>4. /\ Below \in Seq(Entries)
      /\ Len(Below) = IF 1 <= Len(stack) - 1 THEN (Len(stack) - 1) - 1 + 1 ELSE 0
      /\ \A q \in 1..((Len(stack) - 1) - 1 + 1) : Below[q] = stack[1 + q - 1]
  <2>1. \A q \in 1..(Len(stack) - 1) : stack[q] \in Entries
    BY <1>1, <1>2
  <2>2. 1 \in Int /\ Len(stack) - 1 \in Int
    BY <1>1
  <2> QED BY <2>1, <2>2, SubSeqProperties DEF Below
<1>5. Len(Below) = Len(stack) - 1
  <2>1. PICK l \in Nat : l = Len(stack)
    BY <1>1
  <2>2. IF 1 <= l - 1 THEN Len(Below) = (l - 1) - 1 + 1 ELSE Len(Below) = 0
    BY <1>4, <2>1
  <2>3. (l - 1) - 1 + 1 = l - 1 /\ (~(1 <= l - 1) => l - 1 = 0)
    BY <1>1, <2>1
  <2> QED BY <2>1, <2>2, <2>3
<1>6. \A q \in 1..Len(Below) : Below[q] = stack[q]
  <2> SUFFICES ASSUME NEW q \in 1..Len(Below) PROVE Below[q] = stack[q]
    OBVIOUS
  <2>1. q \in 1..((Len(stack) - 1) - 1 + 1) /\ 1 + q - 1 = q
    BY <1>1, <1>5
  <2> QED BY <1>4, <2>1
<1> QED BY <1>1, <1>3, <1>4, <1>5, <1>6

LEMMA PartsAreList ==
    ASSUME NEW pg \in Pages
    PROVE  /\ PartsOf(pg) \in Lists /\ Len(PartsOf(pg)) \in Nat
           /\ \A n \in 1..Len(PartsOf(pg)) : PartsOf(pg)[n] \in Slugs \cup Strays
<1>1. PartsOf(pg) \in Lists
  BY EmptySeq DEF PartsOf, Lists, Pages
<1> QED BY <1>1, LenProperties, ElementOfSeq DEF Lists

\* The children are on the stack above what was pending, the last of them first.
ListOn(st, pending, list, slug, depth) ==
    /\ Len(st) = Len(pending) + Len(list)
    /\ \A q \in 1..Len(pending) : st[q] = pending[q]
    /\ \A k \in 1..Len(list) : LET e == st[Len(pending) + k] IN
          /\ e.raw = list[Len(list) + 1 - k] /\ e.depth = depth + 1
          /\ e.origin = [parent |-> slug, ordinal |-> Len(list) + 1 - k]

LEMMA DescendIs ==
    ASSUME NEW pending \in Seq(Entries), NEW s \in Slugs, NEW pg \in Pages, NEW depth \in Nat,
           NEW inherited \in BOOLEAN,
           NEW new, new = Descend(pending, s, pg, depth, inherited)
    PROVE  new \in Seq(Entries) /\ ListOn(new, pending, PartsOf(pg), s, depth)
<1> DEFINE L == PartsOf(pg)
           n == Len(L)
           e(k) == [raw |-> L[n + 1 - k], depth |-> depth + 1, inherited |-> inherited,
                    origin |-> [parent |-> s, ordinal |-> n + 1 - k]]
           tail == [k \in 1..n |-> e(k)]
<1>1. n \in Nat /\ Len(pending) \in Nat
  BY PartsAreList
<1>2. \A k \in 1..n : e(k) \in Entries
  <2> SUFFICES ASSUME NEW k \in 1..n PROVE e(k) \in Entries
    OBVIOUS
  <2>1. n + 1 - k \in 1..n /\ n + 1 - k \in Nat /\ depth + 1 \in Nat
    BY <1>1
  <2>2. L[n + 1 - k] \in Slugs \cup Strays
    BY <2>1, PartsAreList
  <2>3. [parent |-> s, ordinal |-> n + 1 - k] \in Origins
    BY <2>1 DEF Origins
  <2> HIDE DEF L
  <2> QED BY <2>1, <2>2, <2>3 DEF Entries
<1>3. tail \in Seq(Entries) /\ Len(tail) = n /\ \A k \in 1..n : tail[k] = e(k)
  <2> HIDE DEF e
  <2>1. tail \in [1..n -> Entries]
    BY <1>2
  <2> QED BY <1>1, <2>1
<1>4. new = pending \o tail
  BY DEF Descend
<1> HIDE DEF tail
<1>5. /\ new \in Seq(Entries) /\ Len(new) = Len(pending) + n
      /\ \A q \in 1..(Len(pending) + n) : new[q] = IF q <= Len(pending) THEN pending[q]
                                                    ELSE tail[q - Len(pending)]
  <2>1. PICK w \in Seq(Entries) : w = tail
    BY <1>3
  <2>2. /\ pending \o w \in Seq(Entries) /\ Len(pending \o w) = Len(pending) + Len(w)
        /\ \A q \in 1..(Len(pending) + Len(w)) : (pending \o w)[q] =
              IF q <= Len(pending) THEN pending[q] ELSE w[q - Len(pending)]
    BY ConcatProperties
  <2> QED BY <1>3, <1>4, <2>1, <2>2
<1>6. \A q \in 1..Len(pending) : new[q] = pending[q]
  BY <1>1, <1>5
<1>7. ASSUME NEW k \in 1..n PROVE new[Len(pending) + k] = e(k)
  <2>1. Len(pending) + k \in 1..(Len(pending) + n) /\ ~(Len(pending) + k <= Len(pending))
        /\ Len(pending) + k - Len(pending) = k
    BY <1>1
  <2> HIDE DEF e
  <2> QED BY <1>3, <1>5, <2>1
<1>8. \A k \in 1..n : e(k).raw = L[n + 1 - k] /\ e(k).depth = depth + 1
                      /\ e(k).origin = [parent |-> s, ordinal |-> n + 1 - k]
  OBVIOUS
<1> HIDE DEF e
<1>9. ListOn(new, pending, PartsOf(pg), s, depth)
  BY <1>1, <1>5, <1>6, <1>7, <1>8 DEF ListOn
<1> QED BY <1>5, <1>9

\* The document with a blank line at its end.
LEMMA SeparatedIs ==
    ASSUME out \in Seq(Texts \cup {Blank})
    PROVE  /\ Separated \in Seq(Texts \cup {Blank}) /\ Len(out) \in Nat /\ Len(Separated) \in Nat
           /\ Len(out) <= Len(Separated)
           /\ \A n \in 1..Len(out) : Separated[n] = out[n]
           /\ \A n \in (Len(out) + 1)..Len(Separated) : Separated[n] = Blank
<1>1. Len(out) \in Nat
  OBVIOUS
<1>2. CASE Separated = out
  BY <1>1, <1>2
<1>3. CASE Separated = Append(out, Blank)
  <2>1. Blank \in Texts \cup {Blank}
    OBVIOUS
  <2>2. /\ Append(out, Blank) \in Seq(Texts \cup {Blank}) /\ Len(Append(out, Blank)) = Len(out) + 1
        /\ \A n \in 1..Len(out) : Append(out, Blank)[n] = out[n]
        /\ Append(out, Blank)[Len(out) + 1] = Blank
    BY <2>1, AppendProperties
  <2> QED BY <1>1, <1>3, <2>2
<1> QED BY <1>2, <1>3 DEF Separated

\* A page's body appended to the document.
LEMMA EmitIs ==
    ASSUME out \in Seq(Texts \cup {Blank}), NEW pg \in Pages, NEW text, text = Separated \o pg.body
    PROVE  /\ text \in Seq(Texts \cup {Blank}) /\ Len(pg.body) \in Nat /\ Len(Separated) \in Nat
           /\ Len(text) = Len(Separated) + Len(pg.body) /\ Len(out) \in Nat /\ Len(out) <= Len(Separated)
           /\ \A n \in 1..Len(out) : text[n] = out[n]
           /\ \A n \in (Len(out) + 1)..Len(Separated) : text[n] = Blank
           /\ \A n \in (Len(Separated) + 1)..Len(text) : text[n] \in Texts
<1>1. /\ Separated \in Seq(Texts \cup {Blank}) /\ Len(out) \in Nat /\ Len(Separated) \in Nat
      /\ Len(out) <= Len(Separated)
      /\ \A n \in 1..Len(out) : Separated[n] = out[n]
      /\ \A n \in (Len(out) + 1)..Len(Separated) : Separated[n] = Blank
  BY SeparatedIs
<1>2. pg.body \in Seq(Texts) /\ pg.body \in Seq(Texts \cup {Blank}) /\ Len(pg.body) \in Nat
      /\ \A n \in 1..Len(pg.body) : pg.body[n] \in Texts
  <2>1. pg.body \in Seq(Texts)
    BY DEF Pages
  <2>2. pg.body \in Seq(Texts \cup {Blank})
    BY <2>1, SeqMonotonic
  <2> QED BY <2>1, <2>2, ElementOfSeq, LenProperties
<1>3. PICK s \in Seq(Texts \cup {Blank}), b \in Seq(Texts \cup {Blank}) : s = Separated /\ b = pg.body
  BY <1>1, <1>2
<1>4. /\ text \in Seq(Texts \cup {Blank}) /\ Len(text) = Len(s) + Len(b)
      /\ \A n \in 1..(Len(s) + Len(b)) : text[n] = IF n <= Len(s) THEN s[n] ELSE b[n - Len(s)]
  BY <1>3, ConcatProperties
<1>5. \A n \in 1..Len(out) : text[n] = out[n]
  BY <1>1, <1>2, <1>3, <1>4
<1>6. \A n \in (Len(out) + 1)..Len(Separated) : text[n] = Blank
  BY <1>1, <1>2, <1>3, <1>4
<1>7. \A n \in (Len(Separated) + 1)..Len(text) : text[n] \in Texts
  <2> SUFFICES ASSUME NEW n \in (Len(s) + 1)..Len(text) PROVE text[n] \in Texts
    BY <1>3
  <2>1. n - Len(s) \in 1..Len(b) /\ text[n] = b[n - Len(s)]
    BY <1>1, <1>2, <1>3, <1>4
  <2> QED BY <1>2, <1>3, <2>1
<1> QED BY <1>1, <1>2, <1>3, <1>4, <1>5, <1>6, <1>7

-----------------------------------------------------------------------------
(* What the walk's steps have in common.                                   *)

\* x is the next section of the manifest.
SectionOn(x) == /\ sections' = Append(sections, x) /\ x \in Sections
                /\ Len(sections) < MaxSections /\ x.depth <= MaxDepth

\* Its text is at the end of the document.
TextOn(x) ==
    /\ out' \in Seq(Texts \cup {Blank}) /\ Len(out') <= MaxBytes /\ Len(out) <= x.offset
    /\ x.length = x.words /\ Len(out') = x.offset + x.words
    /\ \A n \in 1..Len(out) : out'[n] = out[n]
    /\ \A n \in (Len(out) + 1)..x.offset : out'[n] = Blank
    /\ \A n \in (x.offset + 1)..Len(out') : out'[n] \in Texts

\* It comes off the stack, and its list comes on.
StackOn(x) ==
    /\ Entry \in Entries /\ x.slug = Entry.raw /\ x.depth = Entry.depth /\ x.origin = Entry.origin
    /\ stack' \in Seq(Entries) /\ ListOn(stack', Below, x.lists, x.slug, x.depth)

\* It counts as emitted if it was included, which it was if it had not been before.
EmittedOn(x) ==
    IF x.status = "included" THEN emitted' = emitted \cup {x.slug} /\ x.slug \in Slugs \ emitted
    ELSE emitted' = emitted /\ (x.status = "duplicate" => x.slug \in emitted)

\* Nothing is on the document when nothing is put there.
LEMMA NoTextOn ==
    ASSUME WalkFits, NEW x \in Sections, x.offset = Len(out), x.length = 0, x.words = 0, UNCHANGED out
    PROVE  TextOn(x)
<1>1. Len(out) \in Nat /\ out \in Seq(Texts \cup {Blank}) /\ Len(out) <= MaxBytes
  BY DEF WalkFits
<1> QED BY <1>1 DEF TextOn

LEMMA NoStackOn ==
    ASSUME WalkFits, stack # <<>>, stack' = Below, NEW x, x.lists = <<>>,
           x.slug = Entry.raw, x.depth = Entry.depth, x.origin = Entry.origin
    PROVE  StackOn(x)
<1>1. /\ Entry \in Entries /\ Below \in Seq(Entries) /\ Len(stack) \in Nat /\ Len(stack) >= 1
      /\ Len(Below) = Len(stack) - 1 /\ \A q \in 1..Len(Below) : Below[q] = stack[q]
  BY TopOfStack DEF WalkFits
<1>2. Len(<<>>) = 0 /\ 1..0 = {} /\ Len(Below) \in Nat
  BY <1>1
<1>3. ListOn(stack', Below, x.lists, x.slug, x.depth)
  BY <1>1, <1>2 DEF ListOn
<1> QED BY <1>1, <1>3 DEF StackOn

\* The manifest's entry for what is not in the document.
LEMMA GapIs ==
    ASSUME WalkFits, Walking, NEW status \in Statuses, NEW list \in Lists, NEW x, x = Gap(Entry, status, list)
    PROVE  /\ x \in Sections /\ x.slug = Entry.raw /\ x.depth = Entry.depth /\ x.origin = Entry.origin
           /\ x.status = status /\ x.lists = list
           /\ x.offset = Len(out) /\ x.words = 0 /\ x.length = 0
<1>1. Entry \in Entries /\ Len(out) \in Nat
  BY TopOfStack DEF WalkFits, Walking
<1>2. PICK e \in Entries : e = Entry
  BY <1>1
<1>3. x = [slug |-> e.raw, status |-> status, depth |-> e.depth, words |-> 0, subtree |-> 0,
           offset |-> Len(out), length |-> 0, origin |-> e.origin, lists |-> list]
  BY <1>2 DEF Gap
<1>4. e.raw \in Slugs \cup Strays /\ e.depth \in Nat /\ e.origin \in Origins
  BY DEF Entries
<1>5. x \in Sections
  BY <1>1, <1>3, <1>4 DEF Sections
<1> QED BY <1>2, <1>3, <1>5

LEMMA RoomLeft ==
    ASSUME WalkFits, Walking, ~TooLarge
    PROVE  Len(sections) < MaxSections /\ Entry.depth <= MaxDepth /\ Entry \in Entries
<1>1. Entry \in Entries /\ Len(sections) \in Nat
  BY TopOfStack DEF WalkFits, Walking
<1>2. MaxSections \in Nat /\ MaxDepth \in Nat /\ Entry.depth \in Nat
  BY <1>1, CompileCeilings DEF Entries
<1> QED BY <1>1, <1>2 DEF TooLarge

\* A step of the walk that leaves something out.
LEMMA LeaveIs ==
    ASSUME WalkFits, Walking, ~TooLarge, NEW status \in Statuses \ {"included"}, Leave(status),
           status = "duplicate" => Entry.raw \in emitted
    PROVE  \E x : /\ SectionOn(x) /\ TextOn(x) /\ StackOn(x) /\ EmittedOn(x)
                  /\ phase' = "walk" /\ skipped' = skipped
<1>1. PICK x : x = Gap(Entry, status, <<>>)
  OBVIOUS
<1>2. <<>> \in Lists
  BY DEF Lists
<1>3. /\ x \in Sections /\ x.slug = Entry.raw /\ x.depth = Entry.depth /\ x.origin = Entry.origin
      /\ x.status = status /\ x.lists = <<>>
      /\ x.offset = Len(out) /\ x.words = 0 /\ x.length = 0
  BY <1>1, <1>2, GapIs
<1>4. SectionOn(x)
  BY <1>1, <1>3, RoomLeft DEF SectionOn, Leave
<1>5. TextOn(x)
  BY <1>3, NoTextOn DEF Leave
<1>6. StackOn(x)
  BY <1>3, NoStackOn DEF Leave, Walking
<1>7. EmittedOn(x)
  BY <1>3 DEF EmittedOn, Leave
<1>8. phase' = "walk" /\ skipped' = skipped
  BY DEF Leave, Walking
<1> QED BY <1>4, <1>5, <1>6, <1>7, <1>8

LEMMA LeavingsAre ==
    ASSUME WalkFits, WalkInvalid \/ WalkDuplicate \/ WalkWanted \/ WalkUnreadable
    PROVE  \E x : /\ SectionOn(x) /\ TextOn(x) /\ StackOn(x) /\ EmittedOn(x)
                  /\ phase' = "walk" /\ skipped' = skipped
<1>1. /\ "invalid" \in Statuses \ {"included"} /\ "duplicate" \in Statuses \ {"included"}
      /\ "wanted" \in Statuses \ {"included"} /\ "unreadable" \in Statuses \ {"included"}
      /\ "invalid" # "duplicate" /\ "wanted" # "duplicate" /\ "unreadable" # "duplicate"
  BY DEF Statuses
<1>2. CASE WalkInvalid
  <2>1. Walking /\ ~TooLarge /\ Leave("invalid")
    BY <1>2 DEF WalkInvalid
  <2> QED BY <1>1, <2>1, LeaveIs
<1>3. CASE WalkDuplicate
  <2>1. Walking /\ ~TooLarge /\ Leave("duplicate") /\ Entry.raw \in emitted
    BY <1>3 DEF WalkDuplicate, IsDuplicate
  <2> QED BY <1>1, <2>1, LeaveIs
<1>4. CASE WalkWanted
  <2>1. Walking /\ ~TooLarge /\ Leave("wanted")
    BY <1>4 DEF WalkWanted, Fetching
  <2> QED BY <1>1, <2>1, LeaveIs
<1>5. CASE WalkUnreadable
  <2>1. Walking /\ ~TooLarge /\ Leave("unreadable")
    BY <1>5 DEF WalkUnreadable, Fetching
  <2> QED BY <1>1, <2>1, LeaveIs
<1> QED BY <1>2, <1>3, <1>4, <1>5

\* A page that is fetched is a page.
LEMMA FetchedIsPage ==
    ASSUME SpineFits, NEW s \in Slugs, Fetched(s) = "page" PROVE disk[s] \in Pages
<1>1. IsPage(disk[s])
  BY DEF Fetched, Readable
<1> QED BY <1>1, FilesArePages DEF SpineFits

\* A page that comes off the stack puts its list on it.
LEMMA DescendOn ==
    ASSUME WalkFits, stack # <<>>, NEW pg \in Pages, NEW inherited \in BOOLEAN,
           stack' = Descend(Below, Entry.raw, pg, Entry.depth, inherited), Entry.raw \in Slugs,
           NEW x, x.lists = PartsOf(pg),
           x.slug = Entry.raw, x.depth = Entry.depth, x.origin = Entry.origin
    PROVE  StackOn(x)
<1>1. /\ Entry \in Entries /\ Below \in Seq(Entries) /\ Len(stack) \in Nat /\ Len(stack) >= 1
      /\ Len(Below) = Len(stack) - 1 /\ \A q \in 1..Len(Below) : Below[q] = stack[q]
  BY TopOfStack DEF WalkFits
<1>2. /\ \E pending \in Seq(Entries) : pending = Below
      /\ \E s \in Slugs : s = Entry.raw
      /\ \E depth \in Nat : depth = Entry.depth
  BY <1>1 DEF Entries
<1>3. PICK pending \in Seq(Entries) : pending = Below
  BY <1>2
<1>4. PICK s \in Slugs : s = Entry.raw
  BY <1>2
<1>5. PICK depth \in Nat : depth = Entry.depth
  BY <1>2
<1>6. PICK new : new = Descend(pending, s, pg, depth, inherited)
  OBVIOUS
<1>7. new \in Seq(Entries) /\ ListOn(new, pending, PartsOf(pg), s, depth)
  BY <1>6, DescendIs
<1>8. stack' = new
  BY <1>3, <1>4, <1>5, <1>6
<1> QED BY <1>1, <1>3, <1>4, <1>5, <1>7, <1>8 DEF StackOn

LEMMA ExcludedIs ==
    ASSUME SpineFits, WalkFits, WalkExcluded
    PROVE  \E x : /\ SectionOn(x) /\ TextOn(x) /\ StackOn(x) /\ EmittedOn(x)
                  /\ phase' = "walk" /\ skipped' \subseteq Slugs
<1>1. Walking /\ ~TooLarge /\ Entry.raw \in Slugs /\ Fetched(Entry.raw) = "page" /\ stack # <<>>
  BY DEF WalkExcluded, Fetching, Walking
<1>2. PICK pg \in Pages : pg = disk[Entry.raw]
  BY <1>1, FetchedIsPage
<1>3. PICK list \in Lists : list = IF Entry.raw \in skipped THEN <<>> ELSE PartsOf(pg)
  <2>1. <<>> \in Lists
    BY DEF Lists
  <2> QED BY <2>1, PartsAreList
<1>4. PICK x : x = Gap(Entry, "excluded", list)
  OBVIOUS
<1>5. "excluded" \in Statuses
  BY DEF Statuses
<1>6. /\ x \in Sections /\ x.slug = Entry.raw /\ x.depth = Entry.depth /\ x.origin = Entry.origin
      /\ x.status = "excluded" /\ x.lists = list
      /\ x.offset = Len(out) /\ x.words = 0 /\ x.length = 0
  BY <1>1, <1>4, <1>5, GapIs
<1>7. sections' = Append(sections, x)
  BY <1>2, <1>3, <1>4 DEF WalkExcluded
<1>8. SectionOn(x)
  BY <1>1, <1>6, <1>7, RoomLeft DEF SectionOn
<1>9. TextOn(x)
  BY <1>6, NoTextOn DEF WalkExcluded
<1>10. StackOn(x)
  <2>1. CASE Entry.raw \in skipped
    <3>1. stack' = Below /\ x.lists = <<>>
      BY <1>3, <1>6, <2>1 DEF WalkExcluded
    <3> QED BY <1>1, <1>6, <3>1, NoStackOn
  <2>2. CASE Entry.raw \notin skipped
    <3>1. stack' = Descend(Below, Entry.raw, pg, Entry.depth, TRUE) /\ x.lists = PartsOf(pg)
      BY <1>2, <1>3, <1>6, <2>2 DEF WalkExcluded
    <3> QED BY <1>1, <1>6, <3>1, DescendOn
  <2> QED BY <2>1, <2>2
<1>11. EmittedOn(x)
  BY <1>6 DEF EmittedOn, WalkExcluded
<1>12. phase' = "walk" /\ skipped' \subseteq Slugs
  BY <1>1 DEF WalkExcluded, Walking, WalkFits
<1> QED BY <1>8, <1>9, <1>10, <1>11, <1>12

\* A page's body in the document, and its section in the manifest; or the
\* document would be too large.
LEMMA EmitOn ==
    ASSUME WalkFits, NEW entry, entry.raw \in Slugs, entry.depth \in Nat, entry.origin \in Origins,
           entry.depth <= MaxDepth, Len(sections) < MaxSections,
           NEW pg \in Pages, NEW then, Emit(entry, pg, then)
    PROVE  \/ phase' = "refused" /\ UNCHANGED <<out, sections>>
           \/ \E x : /\ SectionOn(x) /\ TextOn(x) /\ phase' = then /\ x.slug = entry.raw
                     /\ x.depth = entry.depth /\ x.origin = entry.origin
                     /\ x.status = "included" /\ x.lists = PartsOf(pg)
<1>1. PICK text : text = Separated \o pg.body
  OBVIOUS
<1>2. /\ text \in Seq(Texts \cup {Blank}) /\ Len(pg.body) \in Nat /\ Len(Separated) \in Nat
      /\ Len(text) = Len(Separated) + Len(pg.body) /\ Len(out) \in Nat /\ Len(out) <= Len(Separated)
      /\ \A n \in 1..Len(out) : text[n] = out[n]
      /\ \A n \in (Len(out) + 1)..Len(Separated) : text[n] = Blank
      /\ \A n \in (Len(Separated) + 1)..Len(text) : text[n] \in Texts
  BY <1>1, EmitIs DEF WalkFits
<1>3. CASE Len(text) > MaxBytes
  BY <1>1, <1>3 DEF Emit
<1>4. CASE ~(Len(text) > MaxBytes)
  <2>1. PICK words \in Nat, offset \in Nat, list \in Lists :
           words = Len(pg.body) /\ offset = Len(Separated) /\ list = PartsOf(pg)
    BY <1>2, PartsAreList
  <2>2. PICK x : x = [slug |-> entry.raw, status |-> "included", depth |-> entry.depth,
                      words |-> words, subtree |-> 0, offset |-> offset, length |-> words,
                      origin |-> entry.origin, lists |-> list]
    OBVIOUS
  <2>3. x \in Sections
    BY <2>2 DEF Sections, Statuses
  <2>4. /\ x.slug = entry.raw /\ x.depth = entry.depth /\ x.origin = entry.origin
        /\ x.status = "included" /\ x.lists = list /\ x.words = words /\ x.offset = offset
        /\ x.length = words
    BY <2>2
  <2>5. out' = text /\ sections' = Append(sections, x) /\ phase' = then
    BY <1>1, <1>4, <2>1, <2>2 DEF Emit
  <2>6. SectionOn(x)
    BY <2>3, <2>4, <2>5 DEF SectionOn
  <2>7. TextOn(x)
    <3>1. Len(text) <= MaxBytes
      BY <1>2, <1>4, CompileCeilings
    <3> QED BY <1>2, <2>1, <2>4, <2>5, <3>1 DEF TextOn
  <2> QED BY <2>1, <2>4, <2>5, <2>6, <2>7
<1> QED BY <1>3, <1>4

LEMMA IncludedIs ==
    ASSUME SpineFits, WalkFits, WalkIncluded
    PROVE  \/ phase' = "refused" /\ UNCHANGED <<out, sections>>
           \/ \E x : /\ SectionOn(x) /\ TextOn(x) /\ StackOn(x) /\ EmittedOn(x)
                     /\ phase' = "walk" /\ skipped' = skipped
<1>1. Walking /\ ~TooLarge /\ Entry.raw \in Slugs /\ Fetched(Entry.raw) = "page" /\ stack # <<>>
  BY DEF WalkIncluded, Fetching, Walking
<1>2. PICK pg \in Pages : pg = disk[Entry.raw]
  BY <1>1, FetchedIsPage
<1>3. Entry.raw \notin emitted
  BY DEF WalkIncluded, Fetching, IsDuplicate, Excluded
<1>4. /\ Len(sections) < MaxSections /\ Entry.depth <= MaxDepth /\ Entry.depth \in Nat
      /\ Entry.origin \in Origins
  BY <1>1, RoomLeft DEF Entries
<1>5. Emit(Entry, pg, "walk") /\ emitted' = emitted \cup {Entry.raw} /\ skipped' = skipped
      /\ stack' = Descend(Below, Entry.raw, pg, Entry.depth, FALSE)
  BY <1>2 DEF WalkIncluded
<1>6. \/ phase' = "refused" /\ UNCHANGED <<out, sections>>
      \/ \E x : /\ SectionOn(x) /\ TextOn(x) /\ phase' = "walk" /\ x.slug = Entry.raw
                /\ x.depth = Entry.depth /\ x.origin = Entry.origin
                /\ x.status = "included" /\ x.lists = PartsOf(pg)
  BY <1>1, <1>4, <1>5, EmitOn
<1>7. ASSUME NEW x, x.slug = Entry.raw, x.depth = Entry.depth, x.origin = Entry.origin,
             x.status = "included", x.lists = PartsOf(pg)
      PROVE  StackOn(x) /\ EmittedOn(x)
  <2>1. StackOn(x)
    BY <1>1, <1>5, <1>7, DescendOn
  <2> QED BY <1>1, <1>3, <1>5, <1>7, <2>1 DEF EmittedOn
<1> QED BY <1>5, <1>6, <1>7

\* A preamble is the first section, and no page of the tree.
LEMMA StyleIs ==
    ASSUME SpineFits, WalkFits, FetchStyle
    PROVE  /\ UNCHANGED <<root, style, stack, emitted, skipped, compiles>>
           /\ \/ phase' \in {"refused", "walk"} /\ UNCHANGED <<out, sections>>
              \/ \E x : /\ SectionOn(x) /\ TextOn(x) /\ phase' = "walk"
                        /\ x.depth = 0 /\ x.lists = <<>> /\ x.status = "included"
<1>1. phase = "style" /\ style \in Slugs /\ Len(sections) = 0
  BY DEF FetchStyle, WalkFits
<1>2. CASE Fetched(style) # "page"
  BY <1>2 DEF FetchStyle
<1>3. CASE Fetched(style) = "page"
  <2>1. PICK pg \in Pages : pg = disk[style]
    BY <1>1, <1>3, FetchedIsPage
  <2>2. PICK bare \in Pages : bare = [pg EXCEPT !.parts = None]
    BY DEF Pages
  <2>3. PartsOf(bare) = <<>>
    BY <2>2 DEF PartsOf, Pages
  <2>4. PICK entry : entry = [raw |-> style, depth |-> 0, origin |-> NoOrigin]
    OBVIOUS
  <2>5. entry.raw = style /\ entry.depth = 0 /\ entry.origin = NoOrigin /\ NoOrigin \in Origins
    BY <2>4 DEF NoOrigin, Origins
  <2>6. Emit(entry, bare, "walk")
    BY <1>3, <2>1, <2>2, <2>4 DEF FetchStyle
  <2>7. 0 \in Nat /\ 0 <= MaxDepth /\ Len(sections) < MaxSections
    BY <1>1, CompileCeilings
  <2>8. \/ phase' = "refused" /\ UNCHANGED <<out, sections>>
        \/ \E x : /\ SectionOn(x) /\ TextOn(x) /\ phase' = "walk" /\ x.slug = entry.raw
                  /\ x.depth = entry.depth /\ x.origin = entry.origin
                  /\ x.status = "included" /\ x.lists = PartsOf(bare)
    BY <1>1, <2>5, <2>6, <2>7, EmitOn
  <2>9. UNCHANGED <<root, style, stack, emitted, skipped, compiles>>
    BY DEF FetchStyle
  <2> QED BY <2>3, <2>5, <2>8, <2>9
<1> QED BY <1>2, <1>3 DEF FetchStyle

\* A section more keeps the sections within their bounds.
LEMMA SectionFits ==
    ASSUME WalkFits, NEW x, SectionOn(x), TextOn(x)
    PROVE  /\ sections' \in Seq(Sections) /\ out' \in Seq(Texts \cup {Blank})
           /\ Len(sections') <= MaxSections /\ Len(out') <= MaxBytes
           /\ \A i \in DOMAIN sections' : sections'[i].depth <= MaxDepth /\ sections'[i].length <= Len(out')
<1>1. /\ sections \in Seq(Sections) /\ Len(sections) \in Nat /\ DOMAIN sections = 1..Len(sections)
      /\ x \in Sections /\ sections' = Append(sections, x)
      /\ Len(out) \in Nat /\ Len(out') \in Nat
  <2>1. sections \in Seq(Sections) /\ out \in Seq(Texts \cup {Blank}) /\ out' \in Seq(Texts \cup {Blank})
    BY DEF WalkFits, TextOn
  <2>2. Len(sections) \in Nat /\ DOMAIN sections = 1..Len(sections) /\ Len(out) \in Nat /\ Len(out') \in Nat
    BY <2>1, LenProperties
  <2> QED BY <2>1, <2>2 DEF SectionOn
<1>2. /\ sections' \in Seq(Sections) /\ Len(sections') = Len(sections) + 1
      /\ \A i \in 1..Len(sections) : sections'[i] = sections[i]
      /\ sections'[Len(sections) + 1] = x
  BY <1>1, AppendProperties
<1>3. DOMAIN sections' = 1..(Len(sections) + 1)
  BY <1>2
<1>4. x.words \in Nat /\ x.offset \in Nat /\ x.length \in Nat
  BY <1>1 DEF Sections
<1>5. Len(out) <= Len(out') /\ x.length <= Len(out')
  BY <1>1, <1>4 DEF TextOn
<1>6. ASSUME NEW i \in 1..(Len(sections) + 1)
      PROVE  sections'[i].depth <= MaxDepth /\ sections'[i].length <= Len(out')
  <2>1. CASE i = Len(sections) + 1
    BY <1>2, <1>5, <2>1 DEF SectionOn
  <2>2. CASE i # Len(sections) + 1
    <3>1. i \in 1..Len(sections) /\ sections'[i] = sections[i]
      BY <1>1, <1>2, <2>2
    <3>2. sections[i] \in Sections /\ sections[i].depth <= MaxDepth /\ sections[i].length <= Len(out)
      BY <1>1, <3>1, ElementOfSeq DEF WalkFits
    <3>3. sections[i].length \in Nat
      BY <3>2 DEF Sections
    <3> QED BY <1>1, <1>5, <3>1, <3>2, <3>3
  <2> QED BY <2>1, <2>2
<1>7. Len(sections') <= MaxSections
  BY <1>1, <1>2, CompileCeilings DEF SectionOn
<1> QED BY <1>2, <1>3, <1>6, <1>7 DEF TextOn

\* The six ways to go on walking.
WalkStep == \/ WalkInvalid \/ WalkDuplicate \/ WalkWanted \/ WalkUnreadable
            \/ WalkExcluded \/ WalkIncluded

LEMMA WalkStepIs ==
    ASSUME SpineFits, WalkFits, WalkStep
    PROVE  /\ phase = "walk" /\ stack # <<>> /\ UNCHANGED <<root, style, compiles>>
           /\ \/ phase' = "refused" /\ UNCHANGED <<out, sections>>
              \/ \E x : /\ SectionOn(x) /\ TextOn(x) /\ StackOn(x) /\ EmittedOn(x)
                        /\ phase' = "walk" /\ skipped' \subseteq Slugs
<1>1. phase = "walk" /\ stack # <<>> /\ UNCHANGED <<root, style, compiles>>
  BY DEF WalkStep, WalkInvalid, WalkDuplicate, WalkWanted, WalkUnreadable, WalkExcluded, WalkIncluded,
         Fetching, Walking, Leave
<1>2. skipped \subseteq Slugs
  BY DEF WalkFits
<1>3. CASE WalkIncluded
  BY <1>1, <1>2, <1>3, IncludedIs
<1>4. CASE WalkExcluded
  BY <1>1, <1>4, ExcludedIs
<1>5. CASE WalkInvalid \/ WalkDuplicate \/ WalkWanted \/ WalkUnreadable
  BY <1>1, <1>2, <1>5, LeavingsAre
<1> QED BY <1>3, <1>4, <1>5 DEF WalkStep

\* A refused walk leaves its stack and what it has seen as they are bounded.
LEMMA RefusedFits ==
    ASSUME SpineFits, WalkFits, WalkStep, phase' = "refused", UNCHANGED <<out, sections>>
    PROVE  WalkFits'
<1>1. phase = "walk" /\ stack # <<>> /\ UNCHANGED <<root, style, compiles>>
  BY WalkStepIs
<1>2. WalkIncluded
  BY <1>1 DEF WalkStep, WalkInvalid, WalkDuplicate, WalkWanted, WalkUnreadable, WalkExcluded, Leave
<1>3. Entry.raw \in Slugs /\ Fetched(Entry.raw) = "page"
  BY <1>2 DEF WalkIncluded, Fetching
<1>4. PICK pg \in Pages : pg = disk[Entry.raw]
  BY <1>3, FetchedIsPage
<1>5. stack' = Descend(Below, Entry.raw, pg, Entry.depth, FALSE) /\ skipped' = skipped
      /\ emitted' = emitted \cup {Entry.raw}
  BY <1>2, <1>4 DEF WalkIncluded
<1>6. PICK x : x = [slug |-> Entry.raw, depth |-> Entry.depth, origin |-> Entry.origin, lists |-> PartsOf(pg)]
  OBVIOUS
<1>7. StackOn(x)
  <2>1. x.slug = Entry.raw /\ x.depth = Entry.depth /\ x.origin = Entry.origin /\ x.lists = PartsOf(pg)
    BY <1>6
  <2> QED BY <1>1, <1>3, <1>5, <2>1, DescendOn
<1>8. stack' \in Seq(Entries)
  BY <1>7 DEF StackOn
<1> QED BY <1>1, <1>3, <1>5, <1>8 DEF WalkFits, Phases

\* A finished manifest is the one walked, with the words below each section.
LEMMA FinishedIs ==
    ASSUME WalkFits, FinishCompile
    PROVE  /\ sections' \in Seq(Sections) /\ Len(sections') = Len(sections) /\ DOMAIN sections' = DOMAIN sections
           /\ \A i \in DOMAIN sections :
                 /\ sections'[i] \in Sections
                 /\ sections'[i].slug = sections[i].slug /\ sections'[i].status = sections[i].status
                 /\ sections'[i].depth = sections[i].depth /\ sections'[i].words = sections[i].words
                 /\ sections'[i].offset = sections[i].offset /\ sections'[i].length = sections[i].length
                 /\ sections'[i].origin = sections[i].origin /\ sections'[i].lists = sections[i].lists
                 /\ sections'[i].subtree = Subtree(i)
<1>1. sections \in Seq(Sections) /\ Len(sections) \in Nat /\ DOMAIN sections = 1..Len(sections)
      /\ \A i \in DOMAIN sections : sections[i] \in Sections
  <2>1. sections \in Seq(Sections)
    BY DEF WalkFits
  <2> QED BY <2>1, LenProperties, ElementOfSeq
<1>2. ASSUME NEW i \in DOMAIN sections PROVE Subtree(i) \in Nat
  BY <1>1, SubtreeIs
<1>3. sections' = [i \in DOMAIN sections |-> [sections[i] EXCEPT !.subtree = Subtree(i)]]
  BY DEF FinishCompile
<1>4. ASSUME NEW i \in DOMAIN sections
      PROVE  /\ sections'[i] \in Sections
             /\ sections'[i].slug = sections[i].slug /\ sections'[i].status = sections[i].status
             /\ sections'[i].depth = sections[i].depth /\ sections'[i].words = sections[i].words
             /\ sections'[i].offset = sections[i].offset /\ sections'[i].length = sections[i].length
             /\ sections'[i].origin = sections[i].origin /\ sections'[i].lists = sections[i].lists
             /\ sections'[i].subtree = Subtree(i)
  <2>1. PICK x \in Sections : x = sections[i]
    BY <1>1
  <2>2. PICK n \in Nat : n = Subtree(i)
    BY <1>2
  <2>3. sections'[i] = [x EXCEPT !.subtree = n]
    BY <1>3, <2>1, <2>2
  <2>4. [x EXCEPT !.subtree = n] \in Sections
    BY DEF Sections
  <2>5. PICK y \in Sections : y = [x EXCEPT !.subtree = n]
    BY <2>4
  <2>6. /\ y.slug = x.slug /\ y.status = x.status /\ y.depth = x.depth /\ y.words = x.words
        /\ y.offset = x.offset /\ y.length = x.length /\ y.origin = x.origin /\ y.lists = x.lists
        /\ y.subtree = n
    BY <2>5 DEF Sections
  <2> QED BY <2>1, <2>2, <2>3, <2>5, <2>6
<1>5. sections' \in [1..Len(sections) -> Sections]
  BY <1>1, <1>3, <1>4
<1>6. sections' \in Seq(Sections) /\ Len(sections') = Len(sections) /\ DOMAIN sections' = DOMAIN sections
  BY <1>1, <1>5
<1> QED BY <1>4, <1>6

LEMMA WalkFitsStep ==
    ASSUME SpineFits, WalkFits, CompileStep PROVE WalkFits'
<1>1. CASE StartCompile
  <2>1. <<>> \in Seq(Entries) /\ <<>> \in Seq(Sections) /\ <<>> \in Seq(Texts \cup {Blank}) /\ Len(<<>>) = 0
    OBVIOUS
  <2>2. compiles' \in Nat
    BY <1>1 DEF StartCompile, WalkFits
  <2> QED BY <1>1, <2>1, <2>2, CompileCeilings DEF StartCompile, WalkFits, Phases
<1>2. CASE FetchRoot
  <2>1. phase = "root" /\ root \in Slugs /\ phase' \in {"refused", "walk", "style"}
        /\ (phase' = "style" => style # None)
        /\ stack' = <<[raw |-> root, depth |-> 0, inherited |-> FALSE, origin |-> NoOrigin]>>
        /\ UNCHANGED <<root, style, emitted, skipped, out, sections, compiles>>
    BY <1>2 DEF FetchRoot, WalkFits
  <2>2. [raw |-> root, depth |-> 0, inherited |-> FALSE, origin |-> NoOrigin] \in Entries
    BY <2>1 DEF Entries, Origins, NoOrigin
  <2>3. stack' \in Seq(Entries)
    BY <2>1, <2>2
  <2>4. phase' = "style" => style \in Slugs
    BY <2>1, CompileStyles DEF WalkFits
  <2> QED BY <2>1, <2>3, <2>4 DEF WalkFits, Phases
<1>3. CASE FetchStyle
  <2>1. UNCHANGED <<root, style, stack, emitted, skipped, compiles>> /\ phase = "style"
    BY <1>3 DEF FetchStyle
  <2>2. CASE phase' \in {"refused", "walk"} /\ UNCHANGED <<out, sections>>
    BY <2>1, <2>2 DEF WalkFits, Phases
  <2>3. ASSUME NEW x, SectionOn(x), TextOn(x), phase' = "walk" PROVE WalkFits'
    <3>1. /\ sections' \in Seq(Sections) /\ out' \in Seq(Texts \cup {Blank})
          /\ Len(sections') <= MaxSections /\ Len(out') <= MaxBytes
          /\ \A i \in DOMAIN sections' : sections'[i].depth <= MaxDepth /\ sections'[i].length <= Len(out')
      BY <2>3, SectionFits
    <3> QED BY <2>1, <2>3, <3>1 DEF WalkFits, Phases
  <2> QED BY <1>3, <2>2, <2>3, StyleIs
<1>4. CASE Refuse413
  BY <1>4 DEF Refuse413, WalkFits, Phases, Walking
<1>5. CASE WalkStep
  <2>1. phase = "walk" /\ UNCHANGED <<root, style, compiles>>
    BY <1>5, WalkStepIs
  <2>2. CASE phase' = "refused" /\ UNCHANGED <<out, sections>>
    BY <1>5, <2>2, RefusedFits
  <2>3. ASSUME NEW x, SectionOn(x), TextOn(x), StackOn(x), EmittedOn(x), phase' = "walk", skipped' \subseteq Slugs
        PROVE  WalkFits'
    <3>1. /\ sections' \in Seq(Sections) /\ out' \in Seq(Texts \cup {Blank})
          /\ Len(sections') <= MaxSections /\ Len(out') <= MaxBytes
          /\ \A i \in DOMAIN sections' : sections'[i].depth <= MaxDepth /\ sections'[i].length <= Len(out')
      BY <2>3, SectionFits
    <3>2. emitted' \subseteq Slugs
      BY <2>3 DEF EmittedOn, WalkFits
    <3>3. stack' \in Seq(Entries)
      BY <2>3 DEF StackOn
    <3> QED BY <2>1, <2>3, <3>1, <3>2, <3>3 DEF WalkFits, Phases
  <2> QED BY <1>5, <2>2, <2>3, WalkStepIs
<1>6. CASE FinishCompile
  <2>1. phase = "walk" /\ phase' = "done" /\ UNCHANGED <<root, style, stack, emitted, skipped, out, compiles>>
    BY <1>6 DEF FinishCompile
  <2>2. /\ sections' \in Seq(Sections) /\ Len(sections') = Len(sections) /\ DOMAIN sections' = DOMAIN sections
        /\ \A i \in DOMAIN sections : sections'[i].depth = sections[i].depth /\ sections'[i].length = sections[i].length
    BY <1>6, FinishedIs
  <2> QED BY <2>1, <2>2 DEF WalkFits, Phases
<1> QED BY <1>1, <1>2, <1>3, <1>4, <1>5, <1>6 DEF CompileStep, WalkStep

LEMMA ManuscriptStarts == ManuscriptInit => ManuscriptFits
<1> SUFFICES ASSUME ManuscriptInit PROVE ManuscriptFits
  OBVIOUS
<1>1. disk \in [Slugs -> Files] /\ \A s \in Slugs : IsPage(disk[s]) => disk[s] \in Pages /\ Words(disk[s]) \in Nat
  <2>1. disk \in [Slugs -> Files]
    BY SpineWikis DEF ManuscriptInit, SpineInit, Files
  <2> QED BY <2>1, FilesArePages, WordsAreNat
<1>2. rows \in [Slugs -> Pages \cup {None}] /\ total \in [Slugs -> Nat \cup {None}]
  BY <1>1 DEF ManuscriptInit, SpineInit
<1>3. DOMAIN task = Clients /\ \A c \in Clients : HandFits(task[c])
  BY RestFitsHand DEF ManuscriptInit, SpineInit
<1>4. SpineFits
  BY <1>1, <1>2, <1>3 DEF ManuscriptInit, SpineInit, SpineFits
<1>5. WalkFits
  <2>1. /\ <<>> \in Seq(Entries) /\ <<>> \in Seq(Sections) /\ <<>> \in Seq(Texts \cup {Blank})
        /\ Len(<<>>) = 0 /\ DOMAIN <<>> = {}
    OBVIOUS
  <2> QED BY <2>1, CompileCeilings DEF ManuscriptInit, CompileInit, WalkFits, Phases
<1> QED BY <1>4, <1>5 DEF ManuscriptFits

\* A compile reads the files and writes none.
LEMMA CompilesReadOnly == ASSUME CompileStep PROVE disk' = disk
BY DEF CompileStep, StartCompile, FetchRoot, FetchStyle, Refuse413, WalkInvalid, WalkDuplicate, WalkWanted,
       WalkUnreadable, WalkExcluded, WalkIncluded, FinishCompile, Leave

LEMMA ManuscriptFitsStep ==
    ASSUME ManuscriptFits, [ManuscriptNext]_manuscriptVars PROVE ManuscriptFits'
<1>1. CASE SpineNext /\ UNCHANGED walkVars
  <2>1. SpineFits'
    BY <1>1, SpineFitsStep DEF ManuscriptFits
  <2>2. WalkFits'
    BY <1>1 DEF ManuscriptFits, WalkFits, walkVars
  <2> QED BY <2>1, <2>2 DEF ManuscriptFits
<1>2. CASE CompileStep /\ UNCHANGED besideFiles
  <2>1. SpineFits'
    BY <1>2, CompilesReadOnly DEF ManuscriptFits, SpineFits, besideFiles
  <2>2. WalkFits'
    BY <1>2, WalkFitsStep DEF ManuscriptFits
  <2> QED BY <2>1, <2>2 DEF ManuscriptFits
<1>3. CASE UNCHANGED manuscriptVars
  <2>1. SpineFits'
    BY <1>3 DEF ManuscriptFits, SpineFits, manuscriptVars
  <2>2. WalkFits'
    BY <1>3 DEF ManuscriptFits, WalkFits, manuscriptVars
  <2> QED BY <2>1, <2>2 DEF ManuscriptFits
<1> QED BY <1>1, <1>2, <1>3 DEF ManuscriptNext

THEOREM ManuscriptFitsAlways == ManuscriptSpec => []ManuscriptFits
<1>1. ManuscriptFits /\ [ManuscriptNext]_manuscriptVars => ManuscriptFits'
  BY ManuscriptFitsStep
<1> QED BY <1>1, ManuscriptStarts, PTL DEF ManuscriptSpec

\* However many requests split, merge and are watched, and whatever is compiled
\* meanwhile, every file and row is a page or none, every request has lists of
\* pages still to do, and no walk goes beyond its ceilings.
THEOREM ManuscriptTypes == ManuscriptSpec => []ManuscriptTypeOK
<1>1. ManuscriptFits => ManuscriptTypeOK
  <2> SUFFICES ASSUME ManuscriptFits PROVE ManuscriptTypeOK
    OBVIOUS
  <2>1. \A c \in Clients : task[c].todo \subseteq Slugs
    BY DEF ManuscriptFits, SpineFits, HandFits, Hands
  <2>2. SpineTypeOK
    BY <2>1 DEF ManuscriptFits, SpineFits, SpineTypeOK, Files
  <2>3. CompileTypeOK
    BY DEF ManuscriptFits, WalkFits, CompileTypeOK, Phases
  <2> QED BY <2>2, <2>3 DEF ManuscriptTypeOK
<1> QED BY <1>1, ManuscriptFitsAlways, PTL

-----------------------------------------------------------------------------
(* What is in the document is there once.                                  *)

LEMMA SectionsGrow ==
    ASSUME WalkFits, NEW x, SectionOn(x)
    PROVE  /\ Len(sections) \in Nat /\ DOMAIN sections = 1..Len(sections) /\ x \in Sections
           /\ \A i \in 1..Len(sections) : sections[i] \in Sections /\ sections'[i] = sections[i]
           /\ sections' \in Seq(Sections) /\ Len(sections') = Len(sections) + 1
           /\ DOMAIN sections' = 1..(Len(sections) + 1) /\ sections'[Len(sections) + 1] = x
<1>1. /\ sections \in Seq(Sections) /\ Len(sections) \in Nat /\ DOMAIN sections = 1..Len(sections)
      /\ x \in Sections /\ sections' = Append(sections, x)
  <2>1. sections \in Seq(Sections)
    BY DEF WalkFits
  <2> QED BY <2>1, LenProperties DEF SectionOn
<1>2. /\ sections' \in Seq(Sections) /\ Len(sections') = Len(sections) + 1
      /\ \A i \in 1..Len(sections) : sections'[i] = sections[i]
      /\ sections'[Len(sections) + 1] = x
  BY <1>1, AppendProperties
<1>3. \A i \in 1..Len(sections) : sections[i] \in Sections
  BY <1>1, ElementOfSeq
<1> QED BY <1>1, <1>2, <1>3

\* A walk that refuses to go on has nothing taken back.
LEMMA RefusedKeeps ==
    ASSUME SpineFits, WalkFits, WalkStep, phase' = "refused"
    PROVE  emitted \subseteq emitted'
BY WalkStepIs DEF WalkStep, WalkInvalid, WalkDuplicate, WalkWanted, WalkUnreadable, WalkExcluded,
                  WalkIncluded, Leave

OnceFits == EmittedFits /\ NothingTwice

LEMMA OnceGoesOn ==
    ASSUME SpineFits, WalkFits, OnceFits, WalkStep PROVE OnceFits'
<1>1. phase = "walk" /\ UNCHANGED style
  BY WalkStepIs
<1>2. CASE phase' = "refused" /\ UNCHANGED <<out, sections>>
  <2>1. emitted \subseteq emitted'
    BY <1>2, RefusedKeeps
  <2> QED BY <1>1, <1>2, <2>1 DEF OnceFits, EmittedFits, NothingTwice, IsIncluded, IsPreamble
<1>3. ASSUME NEW x, SectionOn(x), EmittedOn(x), phase' = "walk" PROVE OnceFits'
  <2>1. PICK n \in Nat : n = Len(sections)
    BY <1>3, SectionsGrow
  <2>2. /\ DOMAIN sections = 1..n /\ DOMAIN sections' = 1..(n + 1) /\ sections'[n + 1] = x
        /\ \A i \in 1..n : sections'[i] = sections[i]
    BY <1>3, <2>1, SectionsGrow
  <2>3. emitted \subseteq emitted' /\ \A i \in DOMAIN sections' : IsPreamble(i)' <=> IsPreamble(i)
    BY <1>1, <1>3 DEF EmittedOn, IsPreamble
  <2>4. \A i \in 1..n : (sections[i].status = "included" => sections[i].slug \in emitted \/ IsPreamble(i))
    BY <2>2 DEF OnceFits, EmittedFits, IsIncluded
  <2>5. \A s \in emitted : \E i \in 1..n : sections[i].status = "included" /\ sections[i].slug = s
    BY <1>1, <2>2 DEF OnceFits, EmittedFits, IsIncluded
  <2>6. ASSUME NEW i \in 1..(n + 1), sections'[i].status = "included"
        PROVE  sections'[i].slug \in emitted' \/ IsPreamble(i)
    <3>1. CASE i = n + 1
      BY <1>3, <2>2, <2>6, <3>1 DEF EmittedOn
    <3>2. CASE i # n + 1
      BY <2>2, <2>3, <2>4, <2>6, <3>2
    <3> QED BY <3>1, <3>2
  <2>7. ASSUME NEW s \in emitted'
        PROVE  \E i \in 1..(n + 1) : sections'[i].status = "included" /\ sections'[i].slug = s
    <3>1. CASE s \in emitted
      BY <2>2, <2>5, <3>1
    <3>2. CASE s \notin emitted
      <4>1. x.status = "included" /\ x.slug = s
        BY <1>3, <2>7, <3>2 DEF EmittedOn
      <4>2. n + 1 \in 1..(n + 1)
        BY <2>1
      <4> QED BY <2>2, <4>1, <4>2
    <3> QED BY <3>1, <3>2
  <2>8. EmittedFits'
    BY <2>2, <2>3, <2>6, <2>7 DEF EmittedFits, IsIncluded
  <2>9. ASSUME NEW i \in 1..(n + 1), NEW j \in 1..(n + 1), i # j, i < j,
               sections'[i].status = "included", sections'[j].status = "included",
               sections'[i].slug = sections'[j].slug
        PROVE  1 \in {i, j} /\ style # None
    <3>1. CASE j = n + 1
      <4>1. i \in 1..n /\ x.slug \notin emitted /\ x.slug = sections[i].slug
        BY <1>3, <2>2, <2>9, <3>1 DEF EmittedOn
      <4> QED BY <2>2, <2>4, <2>9, <4>1 DEF IsPreamble
    <3>2. CASE j # n + 1
      <4>1. i \in 1..n /\ j \in 1..n
        BY <2>9, <3>2
      <4> QED BY <2>2, <2>9, <4>1 DEF OnceFits, NothingTwice, IsIncluded
    <3> QED BY <3>1, <3>2
  <2>10. ASSUME NEW i \in 1..(n + 1), sections'[i].status = "duplicate"
         PROVE  \E k \in 1..(i - 1) : sections'[k].status = "included" /\ sections'[k].slug = sections'[i].slug
    <3>1. CASE i = n + 1
      <4>1. x.slug \in emitted
        BY <1>3, <2>2, <2>10, <3>1 DEF EmittedOn
      <4>2. PICK k \in 1..n : sections[k].status = "included" /\ sections[k].slug = x.slug
        BY <2>5, <4>1
      <4>3. k \in 1..(i - 1)
        BY <3>1
      <4> QED BY <2>2, <3>1, <4>2, <4>3
    <3>2. CASE i # n + 1
      <4>1. i \in 1..n /\ \A k \in 1..(i - 1) : k \in 1..n
        BY <3>2
      <4>2. sections[i].status = "duplicate" /\ sections'[i] = sections[i]
        BY <2>2, <2>10, <4>1
      <4>3. PICK k \in 1..(i - 1) : sections[k].status = "included" /\ sections[k].slug = sections[i].slug
        BY <2>2, <4>1, <4>2 DEF OnceFits, NothingTwice, IsIncluded
      <4> QED BY <2>2, <4>1, <4>2, <4>3
    <3> QED BY <3>1, <3>2
  <2>11. ASSUME NEW i \in 1..(n + 1), NEW j \in 1..(n + 1), i # j,
                sections'[i].status = "included", sections'[j].status = "included",
                sections'[i].slug = sections'[j].slug
         PROVE  1 \in {i, j} /\ style # None
    BY <2>9, <2>11
  <2>12. NothingTwice'
    BY <1>1, <2>2, <2>10, <2>11 DEF NothingTwice, IsIncluded
  <2> QED BY <2>8, <2>12 DEF OnceFits
<1> QED BY <1>1, <1>2, <1>3, WalkStepIs

LEMMA OnceFitsStep ==
    ASSUME SpineFits, WalkFits, OnceFits, CompileStep PROVE OnceFits'
<1>1. CASE StartCompile
  BY <1>1 DEF StartCompile, OnceFits, EmittedFits, NothingTwice, IsIncluded
<1>2. CASE FetchRoot \/ Refuse413
  <2>1. UNCHANGED <<sections, emitted, style>> /\ phase # "refused"
    BY <1>2 DEF FetchRoot, Refuse413, Walking
  <2> QED BY <2>1 DEF OnceFits, EmittedFits, NothingTwice, IsIncluded, IsPreamble
<1>3. CASE FetchStyle
  <2>1. UNCHANGED <<emitted, style>> /\ phase = "style" /\ style # None /\ emitted = {}
    BY <1>3 DEF FetchStyle, WalkFits
  <2>2. CASE UNCHANGED sections
    BY <2>1, <2>2 DEF OnceFits, EmittedFits, NothingTwice, IsIncluded, IsPreamble
  <2>3. ASSUME NEW x, SectionOn(x), x.status = "included" PROVE OnceFits'
    <3>1. DOMAIN sections' = {1} /\ sections'[1] = x
      <4>1. Len(sections) = 0
        BY <2>1 DEF WalkFits
      <4>2. 1..(0 + 1) = {1} /\ 0 + 1 = 1
        OBVIOUS
      <4> QED BY <2>3, <4>1, <4>2, SectionsGrow
    <3> QED BY <2>1, <2>3, <3>1 DEF OnceFits, EmittedFits, NothingTwice, IsIncluded, IsPreamble
  <2> QED BY <1>3, <2>2, <2>3, StyleIs
<1>4. CASE WalkStep
  BY <1>4, OnceGoesOn
<1>5. CASE FinishCompile
  <2>1. UNCHANGED <<style, emitted>> /\ phase # "refused"
    BY <1>5 DEF FinishCompile
  <2>2. /\ DOMAIN sections' = DOMAIN sections /\ DOMAIN sections = 1..Len(sections) /\ Len(sections) \in Nat
        /\ \A i \in DOMAIN sections : sections'[i].slug = sections[i].slug /\ sections'[i].status = sections[i].status
    BY <1>5, FinishedIs, LenProperties DEF WalkFits
  <2>3. EmittedFits'
    BY <2>1, <2>2 DEF OnceFits, EmittedFits, IsIncluded, IsPreamble
  <2>4. NothingTwice'
    <3>1. \A i \in DOMAIN sections : \A k \in 1..(i - 1) : k \in DOMAIN sections
      BY <2>2
    <3> QED BY <2>1, <2>2, <3>1 DEF OnceFits, NothingTwice, IsIncluded
  <2> QED BY <2>3, <2>4 DEF OnceFits
<1> QED BY <1>1, <1>2, <1>3, <1>4, <1>5 DEF CompileStep, WalkStep

-----------------------------------------------------------------------------
(* The lists that are open, and what is still to come of them.             *)

\* What one step of the walk does to the stack: the entry at its top is x's,
\* and the list of x is where it was.
StackMoves(x, m, l) ==
    /\ m = Len(stack) /\ l = Len(x.lists) /\ m >= 1
    /\ DOMAIN stack = 1..m /\ DOMAIN stack' = 1..(m - 1 + l) /\ DOMAIN x.lists = 1..l
    /\ \A q \in 1..(m - 1) : stack'[q] = stack[q]
    /\ \A q \in m..(m - 1 + l) : /\ stack'[q].raw = x.lists[m + l - q] /\ stack'[q].depth = x.depth + 1
                                 /\ stack'[q].origin.parent = x.slug /\ stack'[q].origin.ordinal = m + l - q
    /\ stack[m].raw = x.slug /\ stack[m].depth = x.depth /\ stack[m].origin = x.origin
    /\ x.depth \in Nat /\ \A q \in 1..m : stack[q].depth \in Nat

LEMMA StackMovesOn ==
    ASSUME WalkFits, stack # <<>>, NEW x \in Sections, StackOn(x)
    PROVE  \E m, l \in Nat : StackMoves(x, m, l)
<1>1. /\ Below \in Seq(Entries) /\ Len(stack) \in Nat /\ Len(stack) >= 1
      /\ Len(Below) = Len(stack) - 1 /\ \A q \in 1..Len(Below) : Below[q] = stack[q]
  BY TopOfStack DEF WalkFits
<1>2. stack \in Seq(Entries) /\ stack' \in Seq(Entries) /\ x.lists \in Lists
  BY DEF WalkFits, StackOn, Sections
<1>3. PICK m \in Nat, l \in Nat : m = Len(stack) /\ l = Len(x.lists)
  BY <1>1, <1>2, LenProperties DEF Lists
<1>4. /\ Len(stack') = (m - 1) + l
      /\ \A q \in 1..(m - 1) : stack'[q] = Below[q]
      /\ \A k \in 1..l : LET e == stack'[(m - 1) + k] IN
            /\ e.raw = x.lists[l + 1 - k] /\ e.depth = x.depth + 1
            /\ e.origin = [parent |-> x.slug, ordinal |-> l + 1 - k]
  BY <1>1, <1>3 DEF StackOn, ListOn
<1>5. DOMAIN stack = 1..m /\ DOMAIN stack' = 1..(m - 1 + l) /\ DOMAIN x.lists = 1..l
  BY <1>2, <1>3, <1>4, LenProperties DEF Lists
<1>6. \A q \in 1..(m - 1) : stack'[q] = stack[q]
  BY <1>1, <1>3, <1>4
<1>7. ASSUME NEW q \in m..(m - 1 + l)
      PROVE  /\ stack'[q].raw = x.lists[m + l - q] /\ stack'[q].depth = x.depth + 1
             /\ stack'[q].origin.parent = x.slug /\ stack'[q].origin.ordinal = m + l - q
  <2>1. q - m + 1 \in 1..l /\ (m - 1) + (q - m + 1) = q /\ l + 1 - (q - m + 1) = m + l - q
    OBVIOUS
  <2>2. LET e == stack'[(m - 1) + (q - m + 1)] IN
            /\ e.raw = x.lists[l + 1 - (q - m + 1)] /\ e.depth = x.depth + 1
            /\ e.origin = [parent |-> x.slug, ordinal |-> l + 1 - (q - m + 1)]
    BY <1>4, <2>1
  <2>3. /\ stack'[q].raw = x.lists[m + l - q] /\ stack'[q].depth = x.depth + 1
        /\ stack'[q].origin = [parent |-> x.slug, ordinal |-> m + l - q]
    BY <2>1, <2>2
  <2> QED BY <2>3
<1>8. stack[m].raw = x.slug /\ stack[m].depth = x.depth /\ stack[m].origin = x.origin
  BY <1>3 DEF StackOn, Entry
<1>9. x.depth \in Nat /\ \A q \in 1..m : stack[q].depth \in Nat
  <2>1. \A q \in 1..m : stack[q] \in Entries
    BY <1>2, <1>3, ElementOfSeq
  <2> QED BY <2>1 DEF Entries, Sections
<1> QED BY <1>1, <1>3, <1>5, <1>6, <1>7, <1>8, <1>9 DEF StackMoves

\* The lists it leaves open, and the entries below them and to come.
LEMMA OpenOn ==
    ASSUME WalkFits, NEW x, SectionOn(x), NEW i \in DOMAIN sections
    PROVE  /\ IsOpen(i)' <=> IsOpen(i) /\ sections[i].depth < x.depth
           /\ ChildrenOf(i)' = ChildrenOf(i) \cup
                 IF IsOpen(i) /\ x.depth = sections[i].depth + 1 THEN {Len(sections) + 1} ELSE {}
<1>1. PICK n \in Nat : n = Len(sections)
  BY SectionsGrow
<1>2. /\ i \in 1..n /\ Len(sections') = n + 1 /\ sections'[n + 1] = x
      /\ \A j \in 1..n : sections'[j] = sections[j] /\ sections[j].depth \in Nat
      /\ x.depth \in Nat
  BY <1>1, SectionsGrow DEF Sections
<1>3. /\ \A j \in (i + 1)..(n + 1) : j = n + 1 \/ j \in (i + 1)..n
      /\ n + 1 \in (i + 1)..(n + 1) /\ \A j \in (i + 1)..n : j \in (i + 1)..(n + 1) /\ j \in 1..n /\ j # n + 1
  BY <1>2
<1>4. IsOpen(i)' <=> IsOpen(i) /\ sections[i].depth < x.depth
  BY <1>1, <1>2, <1>3 DEF IsOpen
<1>5. ASSUME NEW k \in (i + 1)..n
      PROVE  k \in ChildrenOf(i)' <=> k \in ChildrenOf(i)
  <2>1. \A j \in (i + 1)..k : j \in 1..n
    BY <1>2
  <2>2. k \in 1..n /\ k \in (i + 1)..(n + 1)
    BY <1>3
  <2> QED BY <1>1, <1>2, <2>1, <2>2 DEF ChildrenOf
<1>6. n + 1 \in ChildrenOf(i)' <=> IsOpen(i) /\ x.depth = sections[i].depth + 1
  BY <1>1, <1>2, <1>3 DEF ChildrenOf, IsOpen
<1>7. ChildrenOf(i) \subseteq (i + 1)..n /\ ChildrenOf(i)' \subseteq (i + 1)..(n + 1)
  BY <1>1, <1>2 DEF ChildrenOf
<1> HIDE DEF ChildrenOf
<1> QED BY <1>1, <1>3, <1>4, <1>5, <1>6, <1>7

LEMMA PendingOn ==
    ASSUME WalkFits, StackFits, NEW x, SectionOn(x), NEW m \in Nat, NEW l \in Nat, StackMoves(x, m, l),
           NEW i \in DOMAIN sections
    PROVE  /\ Pending(i)' = Pending(i) \ {m}
           /\ m \in Pending(i) <=> IsOpen(i) /\ x.depth = sections[i].depth + 1
<1>1. /\ sections[i].depth \in Nat /\ sections'[i] = sections[i] /\ x.depth \in Nat
      /\ \A q \in 1..m : stack[q].depth \in Nat
  BY SectionsGrow DEF Sections, StackMoves
<1>2. IsOpen(i)' <=> IsOpen(i) /\ sections[i].depth < x.depth
  BY OpenOn
<1>3. m \in Pending(i) <=> IsOpen(i) /\ x.depth = sections[i].depth + 1
  BY DEF Pending, StackMoves
<1>4. ASSUME NEW q \in Pending(i)' PROVE q \in Pending(i) /\ q # m
  <2>1. q \in 1..(m - 1 + l) /\ stack'[q].depth = sections[i].depth + 1 /\ IsOpen(i)'
    BY <1>1, <1>4 DEF Pending, StackMoves
  <2>2. q \in 1..(m - 1)
    <3> SUFFICES ASSUME q \in m..(m - 1 + l) PROVE FALSE
      BY <2>1
    <3>1. stack'[q].depth = x.depth + 1
      BY DEF StackMoves
    <3> QED BY <1>1, <1>2, <2>1, <3>1
  <2>3. stack[q].depth = sections[i].depth + 1 /\ q \in DOMAIN stack
    BY <2>1, <2>2 DEF StackMoves
  <2> QED BY <1>2, <2>1, <2>2, <2>3 DEF Pending
<1>5. ASSUME NEW q \in Pending(i), q # m PROVE q \in Pending(i)'
  <2>1. q \in 1..m /\ stack[q].depth = sections[i].depth + 1 /\ IsOpen(i)
    BY <1>5 DEF Pending, StackMoves
  <2>2. q \in 1..(m - 1) /\ q < m /\ q \in 1..(m - 1 + l)
    BY <1>5, <2>1
  <2>3. stack[q].depth <= stack[m].depth
    <3>1. q \in DOMAIN stack /\ m \in DOMAIN stack
      BY <2>1 DEF StackMoves
    <3> QED BY <2>2, <3>1 DEF StackFits
  <2>4. sections[i].depth < x.depth
    BY <1>1, <2>1, <2>3 DEF StackMoves
  <2>5. stack'[q].depth = sections'[i].depth + 1 /\ q \in DOMAIN stack'
    BY <1>1, <2>1, <2>2 DEF StackMoves
  <2> QED BY <1>2, <2>1, <2>4, <2>5 DEF Pending
<1>6. m \notin Pending(i)'
  BY <1>4
<1> HIDE DEF Pending
<1> QED BY <1>3, <1>4, <1>5, <1>6

\* What is open already goes on as it should.
LEMMA ListGoesOn ==
    ASSUME WalkFits, StackFits, NEW x, SectionOn(x), NEW m \in Nat, NEW l \in Nat, StackMoves(x, m, l),
           NEW i \in DOMAIN sections, ListFits(i)
    PROVE  ListFits(i)'
<1>1. PICK k0 \in Nat : k0 = Len(sections) + 1
  BY SectionsGrow
<1>2. sections'[i] = sections[i] /\ sections'[k0] = x /\ \A k \in ChildrenOf(i) : sections'[k] = sections[k] /\ k \in Nat /\ k < k0
  <2>1. \A k \in ChildrenOf(i) : k \in 1..Len(sections)
    BY SectionsGrow DEF ChildrenOf
  <2> QED BY <1>1, <2>1, SectionsGrow
<1>3. \A q \in Pending(i) : q \in 1..m /\ (q # m => stack'[q] = stack[q] /\ q < m)
  BY DEF Pending, StackMoves
<1>4. PICK now \in BOOLEAN : now <=> IsOpen(i) /\ x.depth = sections[i].depth + 1
  OBVIOUS
<1>5. /\ ChildrenOf(i)' = ChildrenOf(i) \cup IF now THEN {k0} ELSE {}
      /\ Pending(i)' = Pending(i) \ {m} /\ (m \in Pending(i) <=> now)
  BY <1>1, <1>4, OpenOn, PendingOn
<1>6. stack[m].raw = x.slug /\ stack[m].origin = x.origin
  BY DEF StackMoves
<1> HIDE DEF ChildrenOf, Pending
<1>7. ASSUME NEW p \in DOMAIN sections'[i].lists
      PROVE  \/ \E k \in ChildrenOf(i)' : sections'[k].origin.ordinal = p
             \/ \E q \in Pending(i)' : stack'[q].origin.ordinal = p
  <2>1. \/ \E k \in ChildrenOf(i) : sections[k].origin.ordinal = p
        \/ \E q \in Pending(i) : stack[q].origin.ordinal = p
    BY <1>2, <1>7 DEF ListFits
  <2>2. ASSUME NEW k \in ChildrenOf(i), sections[k].origin.ordinal = p
        PROVE  \E k2 \in ChildrenOf(i)' : sections'[k2].origin.ordinal = p
    BY <1>2, <1>5, <2>2
  <2>3. ASSUME NEW q \in Pending(i), stack[q].origin.ordinal = p, q # m
        PROVE  \E q2 \in Pending(i)' : stack'[q2].origin.ordinal = p
    BY <1>3, <1>5, <2>3
  <2>4. ASSUME m \in Pending(i), stack[m].origin.ordinal = p
        PROVE  \E k2 \in ChildrenOf(i)' : sections'[k2].origin.ordinal = p
    BY <1>2, <1>5, <1>6, <2>4
  <2> QED BY <2>1, <2>2, <2>3, <2>4
<1>8. ASSUME NEW k \in ChildrenOf(i)'
      PROVE  FollowsIn(i, sections'[k].origin.ordinal, sections'[k].origin.parent, sections'[k].slug)
  <2>1. CASE k \in ChildrenOf(i)
    BY <1>2, <2>1 DEF ListFits, FollowsIn
  <2>2. CASE k = k0 /\ now
    <3>1. FollowsIn(i, stack[m].origin.ordinal, stack[m].origin.parent, stack[m].raw)
      BY <1>5, <2>2 DEF ListFits
    <3> QED BY <1>2, <1>6, <2>2, <3>1 DEF FollowsIn
  <2> QED BY <1>5, <1>8, <2>1, <2>2
<1>9. ASSUME NEW q \in Pending(i)'
      PROVE  FollowsIn(i, stack'[q].origin.ordinal, stack'[q].origin.parent, stack'[q].raw)
  BY <1>2, <1>3, <1>5, <1>9 DEF ListFits, FollowsIn
<1>10. ASSUME NEW j \in ChildrenOf(i)', NEW k \in ChildrenOf(i)', j < k
       PROVE  sections'[j].origin.ordinal < sections'[k].origin.ordinal
  <2>1. CASE j \in ChildrenOf(i) /\ k \in ChildrenOf(i)
    BY <1>2, <1>10, <2>1 DEF ListFits
  <2>2. CASE j \in ChildrenOf(i) /\ k = k0 /\ now
    <3>1. sections[j].origin.ordinal < stack[m].origin.ordinal
      BY <1>5, <2>2 DEF ListFits
    <3> QED BY <1>2, <1>6, <2>2, <3>1
  <2>3. ASSUME j = k0
        PROVE  FALSE
    <3>1. k = k0 \/ (k \in Nat /\ k < k0)
      BY <1>2, <1>5
    <3>2. k0 < k
      BY <1>10, <2>3
    <3> QED BY <1>1, <3>1, <3>2
  <2> QED BY <1>5, <1>10, <2>1, <2>2, <2>3
<1>11. ASSUME NEW k \in ChildrenOf(i)', NEW q \in Pending(i)'
       PROVE  sections'[k].origin.ordinal < stack'[q].origin.ordinal
  <2>1. q \in Pending(i) /\ q # m /\ stack'[q] = stack[q] /\ q < m
    BY <1>3, <1>5, <1>11
  <2>2. CASE k \in ChildrenOf(i)
    BY <1>2, <2>1, <2>2 DEF ListFits
  <2>3. CASE k = k0 /\ now
    <3>1. stack[m].origin.ordinal < stack[q].origin.ordinal
      BY <1>5, <2>1, <2>3 DEF ListFits
    <3> QED BY <1>2, <1>6, <2>1, <2>3, <3>1
  <2> QED BY <1>5, <1>11, <2>2, <2>3
<1>12. ASSUME NEW p \in Pending(i)', NEW q \in Pending(i)', p < q
       PROVE  stack'[q].origin.ordinal < stack'[p].origin.ordinal
  BY <1>3, <1>5, <1>12 DEF ListFits
<1> QED BY <1>2, <1>7, <1>8, <1>9, <1>10, <1>11, <1>12 DEF ListFits, FollowsIn

\* The list of the section that is new is all still to come.
LEMMA ListStarts ==
    ASSUME WalkFits, StackFits, NEW x, SectionOn(x), NEW m \in Nat, NEW l \in Nat, StackMoves(x, m, l),
           NEW k0, k0 = Len(sections) + 1
    PROVE  ListFits(k0)'
<1>1. k0 \in Nat
  BY SectionsGrow
<1>2. sections'[k0] = x /\ Len(sections') = k0 /\ x.depth \in Nat
  BY <1>1, SectionsGrow DEF StackMoves
<1>3. ChildrenOf(k0)' = {} /\ IsOpen(k0)'
  BY <1>1, <1>2 DEF ChildrenOf, IsOpen
<1>4. ASSUME NEW q \in Pending(k0)'
      PROVE  /\ q \in m..(m - 1 + l) /\ stack'[q].raw = x.lists[m + l - q]
             /\ stack'[q].origin.parent = x.slug /\ stack'[q].origin.ordinal = m + l - q
  <2>1. q \in 1..(m - 1 + l) /\ stack'[q].depth = x.depth + 1
    BY <1>2, <1>4 DEF Pending, StackMoves
  <2>2. q \notin 1..(m - 1)
    <3> SUFFICES ASSUME q \in 1..(m - 1) PROVE FALSE
      OBVIOUS
    <3>1. q \in DOMAIN stack /\ m \in DOMAIN stack /\ q < m /\ stack'[q] = stack[q]
      BY DEF StackMoves
    <3>2. stack[q].depth <= x.depth /\ stack[q].depth \in Nat
      BY <3>1 DEF StackFits, StackMoves
    <3> QED BY <1>2, <2>1, <3>1, <3>2
  <2>3. q \in m..(m - 1 + l)
    BY <2>1, <2>2 DEF StackMoves
  <2> QED BY <2>3 DEF StackMoves
<1>5. ASSUME NEW p \in DOMAIN x.lists PROVE \E q \in Pending(k0)' : stack'[q].origin.ordinal = p
  <2>1. p \in 1..l /\ m >= 1
    BY <1>5 DEF StackMoves
  <2>2. PICK q \in m..(m - 1 + l) : q = m + l - p
    BY <2>1
  <2>3. q \in DOMAIN stack' /\ stack'[q].depth = x.depth + 1 /\ stack'[q].origin.ordinal = m + l - q
    <3>1. q \in 1..(m - 1 + l)
      BY <2>1
    <3> QED BY <3>1 DEF StackMoves
  <2>4. m + l - q = p
    BY <2>1, <2>2
  <2> QED BY <1>2, <1>3, <2>3, <2>4 DEF Pending
<1>6. ASSUME NEW q \in Pending(k0)'
      PROVE  /\ stack'[q].origin.ordinal \in DOMAIN x.lists /\ stack'[q].raw = x.lists[stack'[q].origin.ordinal]
             /\ stack'[q].origin.parent = x.slug
  <2>1. m + l - q \in 1..l
    BY <1>4, <1>6
  <2> QED BY <1>4, <1>6, <2>1 DEF StackMoves
<1>7. ASSUME NEW p \in Pending(k0)', NEW q \in Pending(k0)', p < q
      PROVE  stack'[q].origin.ordinal < stack'[p].origin.ordinal
  <2>1. p \in m..(m - 1 + l) /\ q \in m..(m - 1 + l) /\ m + l - q < m + l - p
    BY <1>4, <1>7
  <2> QED BY <1>4, <1>7, <2>1
<1> HIDE DEF Pending, ChildrenOf
<1>8. ListFits(k0)'
  BY <1>2, <1>3, <1>5, <1>6, <1>7 DEF ListFits, FollowsIn
<1> QED BY <1>8

\* The stack is still deepest at its top, and everything on it is of an open list.
LEMMA StackGoesOn ==
    ASSUME WalkFits, StackFits, NEW x, SectionOn(x), NEW m \in Nat, NEW l \in Nat, StackMoves(x, m, l)
    PROVE  StackFits'
<1>1. PICK k0 \in Nat : k0 = Len(sections) + 1
  BY SectionsGrow
<1>2. /\ sections'[k0] = x /\ Len(sections') = k0 /\ x.depth \in Nat
      /\ DOMAIN sections = 1..(k0 - 1) /\ DOMAIN sections' = 1..k0 /\ k0 \in DOMAIN sections'
      /\ DOMAIN stack = 1..m /\ DOMAIN stack' = 1..(m - 1 + l)
  BY <1>1, SectionsGrow DEF StackMoves
<1>3. \A q \in 1..(m - 1) : q \in 1..m /\ q < m /\ stack'[q] = stack[q] /\ stack[q].depth \in Nat
                            /\ stack[q].depth <= x.depth
  <2> SUFFICES ASSUME NEW q \in 1..(m - 1)
               PROVE  q \in 1..m /\ q < m /\ stack'[q] = stack[q] /\ stack[q].depth \in Nat
                      /\ stack[q].depth <= x.depth
    OBVIOUS
  <2>1. q \in 1..m /\ m \in 1..m /\ q < m
    BY DEF StackMoves
  <2>2. stack'[q] = stack[q] /\ stack[q].depth \in Nat /\ stack[m].depth = x.depth
    BY <2>1 DEF StackMoves
  <2>3. stack[q].depth <= stack[m].depth
    BY <1>2, <2>1 DEF StackFits
  <2> QED BY <2>1, <2>2, <2>3
<1>4. \A q \in m..(m - 1 + l) : stack'[q].depth = x.depth + 1
  BY DEF StackMoves
<1>5. ASSUME NEW p \in 1..(m - 1 + l), NEW q \in 1..(m - 1 + l), p < q
      PROVE  stack'[p].depth <= stack'[q].depth
  <2>1. CASE q \in 1..(m - 1)
    <3>1. p \in 1..(m - 1)
      BY <1>5, <2>1
    <3> QED BY <1>2, <1>3, <1>5, <2>1, <3>1 DEF StackFits
  <2>2. CASE q \in m..(m - 1 + l)
    <3>1. p \in 1..(m - 1) \/ p \in m..(m - 1 + l)
      BY <1>5
    <3> QED BY <1>2, <1>3, <1>4, <2>2, <3>1
  <2> QED BY <1>5, <2>1, <2>2
<1>6. ASSUME NEW q \in 1..(m - 1)
      PROVE  stack'[q].depth # 0 /\ \E i \in DOMAIN sections' : q \in Pending(i)'
  <2>1. m # 1 /\ Len(stack) = m /\ q # m
    BY <1>6 DEF StackMoves
  <2>2. stack[q].depth # 0 /\ \E i \in DOMAIN sections : q \in Pending(i)
    BY <1>2, <1>3, <2>1 DEF StackFits
  <2>3. PICK i \in DOMAIN sections : q \in Pending(i)
    BY <2>2
  <2>4. q \in Pending(i)' /\ i \in DOMAIN sections'
    BY <1>2, <2>1, <2>3, PendingOn
  <2> HIDE DEF Pending
  <2>5. stack'[q].depth # 0
    BY <1>3, <1>6, <2>2
  <2> QED BY <2>4, <2>5
<1>7. ASSUME NEW q \in m..(m - 1 + l)
      PROVE  stack'[q].depth # 0 /\ \E i \in DOMAIN sections' : q \in Pending(i)'
  <2>1. IsOpen(k0)' /\ q \in DOMAIN stack'
    BY <1>2, <1>7 DEF IsOpen, StackMoves
  <2>2. q \in Pending(k0)'
    BY <1>2, <1>4, <2>1 DEF Pending
  <2> HIDE DEF Pending
  <2> QED BY <1>2, <1>4, <2>2
<1>8. \A q \in 1..(m - 1 + l) : q \in 1..(m - 1) \/ q \in m..(m - 1 + l)
  OBVIOUS
<1> HIDE DEF Pending
<1> QED BY <1>2, <1>5, <1>6, <1>7, <1>8 DEF StackFits

LEMMA TreeFitsStep ==
    ASSUME SpineFits, WalkFits, TreeFits, CompileStep PROVE TreeFits'
<1>1. CASE StartCompile \/ Refuse413
  <2>1. phase' \in {"root", "refused"}
    BY <1>1 DEF StartCompile, Refuse413
  <2> QED BY <2>1 DEF TreeFits
<1>2. CASE FetchRoot
  <2>1. stack' = <<[raw |-> root, depth |-> 0, inherited |-> FALSE, origin |-> NoOrigin]>> /\ sections' = <<>>
        /\ phase' # "done"
    BY <1>2 DEF FetchRoot, WalkFits
  <2>2. DOMAIN stack' = {1} /\ Len(stack') = 1 /\ stack'[1].depth = 0 /\ DOMAIN sections' = {}
    BY <2>1
  <2>3. StackFits'
    BY <2>2 DEF StackFits
  <2> QED BY <2>1, <2>2, <2>3 DEF TreeFits
<1>3. CASE FetchStyle
  <2>1. UNCHANGED stack /\ phase = "style" /\ sections = <<>> /\ phase' # "done"
    BY <1>3, StyleIs DEF FetchStyle, WalkFits
  <2>2. StackFits /\ DOMAIN sections = {} /\ DOMAIN stack = 1..Len(stack) /\ Len(stack) \in Nat
    BY <2>1, LenProperties DEF TreeFits, WalkFits
  <2>3. \A q \in DOMAIN stack : stack[q].depth = 0 /\ Len(stack) = 1
    BY <2>2 DEF StackFits
  <2>4. StackFits'
    BY <2>1, <2>2, <2>3 DEF StackFits
  <2>5. CASE phase' \in {"refused", "walk"} /\ UNCHANGED sections
    BY <2>1, <2>2, <2>4, <2>5 DEF TreeFits
  <2>6. ASSUME NEW x, SectionOn(x), x.depth = 0, x.lists = <<>> PROVE TreeFits'
    <3>1. DOMAIN sections' = {1} /\ sections'[1] = x /\ Len(sections') = 1
      <4>1. Len(sections) = 0
        BY <2>1
      <4>2. 1..(0 + 1) = {1} /\ 0 + 1 = 1
        OBVIOUS
      <4> QED BY <2>6, <4>1, <4>2, SectionsGrow
    <3>2. ChildrenOf(1)' = {} /\ Pending(1)' = {}
      <4>1. (1 + 1)..1 = {}
        OBVIOUS
      <4> QED BY <2>1, <2>3, <2>6, <3>1, <4>1 DEF ChildrenOf, Pending
    <3>3. DOMAIN <<>> = {}
      OBVIOUS
    <3> HIDE DEF ChildrenOf, Pending
    <3>4. ListFits(1)'
      BY <2>6, <3>1, <3>2, <3>3 DEF ListFits
    <3> QED BY <2>1, <2>4, <3>1, <3>4 DEF TreeFits
  <2> QED BY <1>3, <2>5, <2>6, StyleIs
<1>4. CASE WalkStep
  <2>1. phase = "walk" /\ stack # <<>>
    BY <1>4, WalkStepIs
  <2>2. CASE phase' = "refused"
    BY <2>2 DEF TreeFits
  <2>3. ASSUME NEW x, SectionOn(x), StackOn(x), phase' = "walk" PROVE TreeFits'
    <3>1. x \in Sections /\ StackFits /\ \A i \in DOMAIN sections : ListFits(i)
      BY <2>1, <2>3 DEF SectionOn, TreeFits
    <3>2. PICK m \in Nat, l \in Nat : StackMoves(x, m, l)
      BY <2>1, <2>3, <3>1, StackMovesOn
    <3>3. PICK k0 : k0 = Len(sections) + 1
      OBVIOUS
    <3>4. StackFits' /\ ListFits(k0)' /\ \A i \in DOMAIN sections : ListFits(i)'
      BY <2>3, <3>1, <3>2, <3>3, StackGoesOn, ListStarts, ListGoesOn
    <3>5. \A i \in DOMAIN sections' : i \in DOMAIN sections \/ i = k0
      BY <2>3, <3>3, SectionsGrow
    <3> HIDE DEF ListFits, StackFits
    <3> QED BY <2>3, <3>4, <3>5 DEF TreeFits
  <2> QED BY <1>4, <2>2, <2>3, WalkStepIs
<1>5. CASE FinishCompile
  <2>1. UNCHANGED stack /\ stack = <<>> /\ phase = "walk"
    BY <1>5 DEF FinishCompile
  <2>2. /\ Len(sections') = Len(sections) /\ DOMAIN sections' = DOMAIN sections
        /\ DOMAIN sections = 1..Len(sections) /\ Len(sections) \in Nat
        /\ \A i \in DOMAIN sections :
                 /\ sections'[i].slug = sections[i].slug /\ sections'[i].depth = sections[i].depth
                 /\ sections'[i].origin = sections[i].origin /\ sections'[i].lists = sections[i].lists
    BY <1>5, FinishedIs, LenProperties DEF WalkFits
  <2>3. DOMAIN stack = {}
    BY <2>1
  <2>4. StackFits'
    BY <2>1, <2>3 DEF StackFits
  <2>5. ASSUME NEW i \in DOMAIN sections PROVE ListFits(i)'
    <3>1. \A k \in (i + 1)..Len(sections) : k \in DOMAIN sections /\ \A j \in (i + 1)..k : j \in DOMAIN sections
      BY <2>2
    <3>2. ChildrenOf(i)' = ChildrenOf(i) /\ ChildrenOf(i) \subseteq DOMAIN sections
      BY <2>2, <3>1 DEF ChildrenOf
    <3>3. Pending(i)' = {} /\ Pending(i) = {}
      BY <2>1, <2>3 DEF Pending
    <3>4. ListFits(i)
      BY <2>1 DEF TreeFits
    <3> HIDE DEF ChildrenOf, Pending
    <3> QED BY <2>2, <3>2, <3>3, <3>4 DEF ListFits, FollowsIn
  <2> HIDE DEF ListFits, StackFits
  <2> QED BY <2>1, <2>2, <2>4, <2>5 DEF TreeFits
<1> QED BY <1>1, <1>2, <1>3, <1>4, <1>5 DEF CompileStep, WalkStep

\* When nothing is to come any more every list is there.
LEMMA TreeIsCovered == ASSUME WalkFits, TreeFits PROVE ManifestCoversTheTree
<1> SUFFICES ASSUME phase = "done", NEW i \in DOMAIN sections PROVE ListIsBelow(i)
  BY DEF ManifestCoversTheTree
<1>1. ListFits(i) /\ stack = <<>>
  BY DEF TreeFits
<1>2. Pending(i) = {}
  BY <1>1 DEF Pending
<1> HIDE DEF Pending, ChildrenOf
<1> QED BY <1>1, <1>2 DEF ListFits, ListIsBelow, FollowsIn

-----------------------------------------------------------------------------
(* Where the texts are.                                                    *)

LEMMA DocumentGoesOn ==
    ASSUME WalkFits, DocumentFits, NEW x, SectionOn(x), TextOn(x) PROVE DocumentFits'
<1>1. PICK n \in Nat : n = Len(sections)
  BY SectionsGrow
<1>2. /\ DOMAIN sections = 1..n /\ DOMAIN sections' = 1..(n + 1) /\ Len(sections') = n + 1
      /\ sections'[n + 1] = x /\ x \in Sections
      /\ \A i \in 1..n : sections'[i] = sections[i] /\ sections[i] \in Sections
  BY <1>1, SectionsGrow
<1>3. PICK b \in Nat, a \in Nat : b = Len(out) /\ a = Len(out')
  <2>1. out \in Seq(Texts \cup {Blank}) /\ out' \in Seq(Texts \cup {Blank})
    BY DEF WalkFits, TextOn
  <2> QED BY <2>1, LenProperties
<1>4. x.offset \in Nat /\ x.words \in Nat
  BY <1>2 DEF Sections
<1>5. /\ x.length = x.words /\ a = x.offset + x.words /\ b <= x.offset
      /\ \A p \in 1..b : out'[p] = out[p]
      /\ \A p \in (b + 1)..x.offset : out'[p] = Blank
      /\ \A p \in (x.offset + 1)..a : out'[p] # Blank
  BY <1>3, ManuscriptBlank DEF TextOn
<1>6. ASSUME NEW i \in 1..n PROVE TextFits(i)'
  <2>1. PICK y \in Sections : y = sections[i]
    BY <1>2
  <2>2. PICK e : e = EndOf(i)
    OBVIOUS
  <2>3. /\ y.length = y.words /\ y.offset + y.words <= e /\ e <= b /\ y.offset \in Nat /\ y.words \in Nat
        /\ \A p \in (y.offset + 1)..(y.offset + y.words) : out[p] # Blank
        /\ \A p \in (y.offset + y.words + 1)..e : out[p] = Blank
    BY <1>2, <1>3, <2>1, <2>2 DEF DocumentFits, TextFits, Sections
  <2>4. e \in Nat
    <3>1. CASE i = n
      BY <1>1, <1>3, <2>2, <3>1 DEF EndOf
    <3>2. CASE i # n
      <4>1. i + 1 \in 1..n /\ e = sections[i + 1].offset
        BY <1>1, <2>2, <3>2 DEF EndOf
      <4> QED BY <1>2, <4>1 DEF Sections
    <3> QED BY <3>1, <3>2
  <2>5. PICK f \in Nat : /\ f = EndOf(i)' /\ e <= f /\ f <= a
                         /\ \A p \in (e + 1)..f : out'[p] = Blank
    <3>1. CASE i = n
      <4>1. EndOf(i)' = x.offset /\ e = b
        BY <1>1, <1>2, <1>3, <2>2, <3>1 DEF EndOf
      <4> QED BY <1>4, <1>5, <4>1
    <3>2. CASE i # n
      <4>1. i + 1 \in 1..n /\ i # n + 1
        BY <3>2
      <4>2. EndOf(i)' = e
        BY <1>1, <1>2, <2>2, <3>2, <4>1 DEF EndOf
      <4> QED BY <1>4, <1>5, <2>3, <2>4, <4>2
    <3> QED BY <3>1, <3>2
  <2>6. sections'[i] = y
    BY <1>2, <2>1
  <2>7. \A p \in (y.offset + 1)..(y.offset + y.words) : out'[p] # Blank
    BY <1>5, <2>3, <2>4
  <2>8. \A p \in (y.offset + y.words + 1)..f : out'[p] = Blank
    <3> SUFFICES ASSUME NEW p \in (y.offset + y.words + 1)..f PROVE out'[p] = Blank
      OBVIOUS
    <3>1. p \in (y.offset + y.words + 1)..e \/ p \in (e + 1)..f
      BY <2>3, <2>4
    <3>2. p \in (y.offset + y.words + 1)..e => p \in 1..b
      BY <2>3, <2>4
    <3> QED BY <1>5, <2>3, <2>5, <3>1, <3>2
  <2> QED BY <1>3, <2>3, <2>4, <2>5, <2>6, <2>7, <2>8 DEF TextFits
<1>7. TextFits(n + 1)'
  <2>1. EndOf(n + 1)' = a
    BY <1>2, <1>3 DEF EndOf
  <2>2. \A p \in (x.offset + x.words + 1)..a : FALSE
    BY <1>4, <1>5
  <2> QED BY <1>2, <1>3, <1>4, <1>5, <2>1, <2>2 DEF TextFits
<1>8. \A i \in 1..(n + 1) : i \in 1..n \/ i = n + 1
  OBVIOUS
<1> HIDE DEF TextFits
<1> QED BY <1>2, <1>6, <1>7, <1>8 DEF DocumentFits

\* The finished manifest has the words below each section.
SumsFit == phase = "done" =>
    \A i \in DOMAIN sections : \E g \in [i..Len(sections) -> Nat] : Runs(g, i) /\ sections[i].subtree = g[i]

LEMMA DocumentFitsStep ==
    ASSUME SpineFits, WalkFits, DocumentFits, SumsFit, CompileStep PROVE DocumentFits' /\ SumsFit'
<1>1. CASE StartCompile
  BY <1>1 DEF StartCompile, DocumentFits, SumsFit
<1>2. CASE FetchRoot \/ Refuse413
  <2>1. UNCHANGED <<sections, out>> /\ phase' # "done"
    BY <1>2 DEF FetchRoot, Refuse413
  <2> QED BY <2>1 DEF DocumentFits, TextFits, EndOf, SumsFit
<1>3. CASE FetchStyle \/ WalkStep
  <2>1. phase' # "done"
    BY <1>3, StyleIs, WalkStepIs
  <2>2. CASE UNCHANGED <<out, sections>>
    BY <2>1, <2>2 DEF DocumentFits, TextFits, EndOf, SumsFit
  <2>3. ASSUME NEW x, SectionOn(x), TextOn(x) PROVE DocumentFits' /\ SumsFit'
    BY <2>1, <2>3, DocumentGoesOn DEF SumsFit
  <2> QED BY <1>3, <2>2, <2>3, StyleIs, WalkStepIs
<1>4. CASE FinishCompile
  <2>1. UNCHANGED out
    BY <1>4 DEF FinishCompile
  <2>2. /\ Len(sections') = Len(sections) /\ DOMAIN sections' = DOMAIN sections
        /\ DOMAIN sections = 1..Len(sections) /\ Len(sections) \in Nat /\ sections \in Seq(Sections)
        /\ \A i \in DOMAIN sections :
                 /\ sections'[i].depth = sections[i].depth /\ sections'[i].words = sections[i].words
                 /\ sections'[i].offset = sections[i].offset /\ sections'[i].length = sections[i].length
                 /\ sections'[i].subtree = Subtree(i)
    BY <1>4, FinishedIs, LenProperties DEF WalkFits
  <2>3. DocumentFits'
    <3>1. ASSUME NEW i \in DOMAIN sections PROVE EndOf(i)' = EndOf(i)
      <4>1. i # Len(sections) => i + 1 \in DOMAIN sections
        BY <2>2
      <4> QED BY <2>1, <2>2, <4>1 DEF EndOf
    <3> QED BY <2>1, <2>2, <3>1 DEF DocumentFits, TextFits
  <2>4. ASSUME NEW i \in DOMAIN sections
        PROVE  \E g \in [i..Len(sections) -> Nat] : Runs(g, i)' /\ sections'[i].subtree = g[i]
    <3>1. PICK g \in [i..Len(sections) -> Nat] : Runs(g, i) /\ Subtree(i) = g[i]
      BY <2>2, SubtreeIs
    <3>2. /\ \A j \in i..Len(sections) : j \in DOMAIN sections
          /\ \A j \in i..Len(sections) : j < Len(sections) => j + 1 \in DOMAIN sections
      BY <2>2
    <3>3. Runs(g, i)'
      BY <2>2, <3>1, <3>2 DEF Runs
    <3> QED BY <2>2, <3>1, <3>3
  <2> QED BY <2>2, <2>3, <2>4 DEF SumsFit
<1> QED BY <1>1, <1>2, <1>3, <1>4 DEF CompileStep, WalkStep

\* What is known of the numbers.
LEMMA NumbersAre ==
    ASSUME WalkFits, DocumentFits, NEW i \in DOMAIN sections
    PROVE  /\ Len(sections) \in Nat /\ DOMAIN sections = 1..Len(sections)
           /\ sections[i].offset \in Nat /\ sections[i].words \in Nat /\ sections[i].depth \in Nat
           /\ Len(out) \in Nat /\ EndOf(i) \in Nat /\ EndOf(i) <= Len(out)
           /\ sections[i].length = sections[i].words
           /\ sections[i].offset + sections[i].words <= EndOf(i)
<1>1. Len(sections) \in Nat /\ DOMAIN sections = 1..Len(sections) /\ Len(out) \in Nat
      /\ \A k \in DOMAIN sections : sections[k] \in Sections
  <2>1. sections \in Seq(Sections) /\ out \in Seq(Texts \cup {Blank})
    BY DEF WalkFits
  <2> QED BY <2>1, LenProperties, ElementOfSeq
<1>2. EndOf(i) \in Nat
  <2>1. i # Len(sections) => i + 1 \in DOMAIN sections
    BY <1>1
  <2> QED BY <1>1, <2>1 DEF EndOf, Sections
<1> QED BY <1>1, <1>2 DEF DocumentFits, TextFits, Sections

LEMMA OffsetsGrow ==
    ASSUME WalkFits, DocumentFits, NEW i \in DOMAIN sections, NEW j \in DOMAIN sections, i < j
    PROVE  sections[i].offset + sections[i].words <= sections[j].offset
<1> DEFINE Good(k) == sections[i].offset + sections[i].words <= sections[k].offset
           Fails == {k \in Nat : k \in DOMAIN sections /\ i < k /\ ~Good(k)}
<1>1. PICK n \in Nat : n = Len(sections) /\ DOMAIN sections = 1..n
  BY NumbersAre
<1>2. \A k \in 1..n : sections[k].offset \in Nat /\ sections[k].words \in Nat
  BY <1>1, NumbersAre
<1>3. ASSUME NEW k \in 1..n, k + 1 \in 1..n
      PROVE  sections[k].offset + sections[k].words <= sections[k + 1].offset
  <2>1. EndOf(k) = sections[k + 1].offset
    BY <1>1, <1>3 DEF EndOf
  <2> QED BY <1>1, <2>1, NumbersAre
<1>4. Fails = {}
  <2> SUFFICES ASSUME Fails # {} PROVE FALSE
    OBVIOUS
  <2>1. PICK k \in Fails : \A k2 \in Nat : k2 < k => k2 \notin Fails
    BY LeastOf
  <2>2. k \in 1..n /\ i < k /\ ~Good(k) /\ i \in 1..n
    BY <1>1, <2>1
  <2>3. k - 1 \in 1..n /\ (k - 1) + 1 = k /\ k - 1 \in Nat /\ k - 1 < k
    BY <2>2
  <2>4. sections[k - 1].offset + sections[k - 1].words <= sections[k].offset
    BY <1>3, <2>2, <2>3
  <2>5. CASE i = k - 1
    BY <2>2, <2>4, <2>5
  <2>6. CASE i # k - 1
    <3>1. i < k - 1
      BY <2>2, <2>6
    <3>2. Good(k - 1)
      BY <1>1, <2>1, <2>3, <3>1
    <3> QED BY <1>2, <2>2, <2>3, <2>4, <3>2
  <2> QED BY <2>5, <2>6
<1> QED BY <1>1, <1>4

\* The texts of a section and of what is below it.
TextsFrom(j, end) == {p \in (sections[j].offset + 1)..end : out[p] # Blank}

LEMMA CountedIs ==
    ASSUME WalkFits, DocumentFits, NEW i \in DOMAIN sections, NEW e \in i..Len(sections),
           NEW g \in [i..Len(sections) -> Nat], Runs(g, i),
           \A k \in (i + 1)..e : sections[k].depth > sections[i].depth,
           e = Len(sections) \/ ~(sections[e + 1].depth > sections[i].depth)
    PROVE  g[i] = Cardinality(TextsFrom(i, EndOf(e)))
<1>1. PICK n \in Nat : n = Len(sections) /\ DOMAIN sections = 1..n
  BY NumbersAre
<1>2. PICK end \in Nat : end = EndOf(e)
  <2>1. e \in DOMAIN sections
    BY <1>1
  <2> QED BY <2>1, NumbersAre
<1>3. \A k \in 1..n : sections[k].offset \in Nat /\ sections[k].words \in Nat
  BY <1>1, NumbersAre
<1>4. \A j \in i..e : j \in i..n /\ j \in 1..n /\ j \in Nat
  BY <1>1
<1>5. \A j \in i..n : g[j] = sections[j].words + IF j < n /\ sections[j + 1].depth > sections[i].depth
                                                 THEN g[j + 1] ELSE 0
  BY <1>1 DEF Runs
<1> DEFINE Own(j) == (sections[j].offset + 1)..(sections[j].offset + sections[j].words)
           Good(j) == /\ IsFiniteSet(TextsFrom(j, end)) /\ g[j] = Cardinality(TextsFrom(j, end))
                      /\ sections[j].offset <= end
           Fails == {m \in Nat : \E j \in i..e : e - j = m /\ ~Good(j)}
<1>6. ASSUME NEW j \in i..e
      PROVE  /\ IsFiniteSet(Own(j)) /\ Cardinality(Own(j)) = sections[j].words
             /\ \A p \in Own(j) : out[p] # Blank
             /\ \A p \in (sections[j].offset + sections[j].words + 1)..EndOf(j) : out[p] = Blank
             /\ sections[j].offset + sections[j].words <= EndOf(j) /\ EndOf(j) \in Nat
  <2>1. sections[j].offset \in Nat /\ sections[j].words \in Nat
    BY <1>3, <1>4
  <2>2. sections[j].offset + 1 \in Int /\ sections[j].offset + sections[j].words \in Int
    BY <2>1
  <2>3. /\ IsFiniteSet(Own(j))
        /\ Cardinality(Own(j)) = IF sections[j].offset + 1 > sections[j].offset + sections[j].words THEN 0
              ELSE (sections[j].offset + sections[j].words) - (sections[j].offset + 1) + 1
    BY <2>2, FS_Interval
  <2>4. Cardinality(Own(j)) = sections[j].words
    <3>1. PICK a \in Nat, w \in Nat : a = sections[j].offset /\ w = sections[j].words
      BY <2>1
    <3>2. a + 1 > a + w => w = 0
      OBVIOUS
    <3>3. (a + w) - (a + 1) + 1 = w
      OBVIOUS
    <3> QED BY <2>3, <3>1, <3>2, <3>3
  <2>5. TextFits(j) /\ EndOf(j) \in Nat
    BY <1>1, <1>4, NumbersAre DEF DocumentFits
  <2> QED BY <2>3, <2>4, <2>5 DEF TextFits
<1>7. Good(e)
  <2>1. e \in i..e /\ e \in i..n
    BY <1>1
  <2>2. g[e] = sections[e].words
    <3>1. ~(e < n /\ sections[e + 1].depth > sections[i].depth)
      BY <1>1
    <3>2. sections[e].words \in Nat
      BY <1>3, <1>4, <2>1
    <3> QED BY <1>5, <2>1, <3>1, <3>2
  <2>3. TextsFrom(e, end) = Own(e)
    <3>1. PICK a \in Nat, w \in Nat : a = sections[e].offset /\ w = sections[e].words /\ a + w <= end
      BY <1>2, <1>3, <1>4, <1>6, <2>1
    <3>2. /\ \A p \in (a + 1)..(a + w) : out[p] # Blank
          /\ \A p \in (a + w + 1)..end : out[p] = Blank
      BY <1>2, <1>6, <2>1, <3>1
    <3>3. {p \in (a + 1)..end : out[p] # Blank} = (a + 1)..(a + w)
      BY <3>1, <3>2
    <3> QED BY <3>1, <3>3 DEF TextsFrom
  <2>4. sections[e].offset <= end
    BY <1>2, <1>3, <1>4, <1>6, <2>1
  <2> HIDE DEF Own
  <2> QED BY <1>6, <2>1, <2>2, <2>3, <2>4
<1>8. ASSUME NEW j \in i..e, j # e, Good(j + 1) PROVE Good(j)
  <2>1. j + 1 \in i..e /\ j + 1 \in 1..n /\ j \in i..n /\ j < n /\ j \in 1..n
    BY <1>1, <1>8
  <2>2. g[j] = sections[j].words + g[j + 1]
    <3>1. sections[j + 1].depth > sections[i].depth
      BY <2>1
    <3> QED BY <1>5, <2>1, <3>1
  <2>3. EndOf(j) = sections[j + 1].offset
    BY <1>1, <2>1 DEF EndOf
  <2>4. /\ sections[j].offset \in Nat /\ sections[j].words \in Nat /\ sections[j + 1].offset \in Nat
        /\ sections[j].offset + sections[j].words <= sections[j + 1].offset
        /\ sections[j + 1].offset <= end
    BY <1>3, <1>6, <1>8, <2>1, <2>3
  <2>5. TextsFrom(j, end) = Own(j) \cup TextsFrom(j + 1, end)
    <3>1. ASSUME NEW p \in (sections[j].offset + 1)..end, out[p] # Blank, p \notin Own(j)
          PROVE  p \in (sections[j + 1].offset + 1)..end
      <4>1. p \notin (sections[j].offset + sections[j].words + 1)..sections[j + 1].offset
        BY <1>6, <2>3, <3>1
      <4> QED BY <2>4, <3>1, <4>1
    <3>2. \A p \in Own(j) : p \in (sections[j].offset + 1)..end /\ out[p] # Blank
      BY <1>6, <2>4
    <3>3. \A p \in (sections[j + 1].offset + 1)..end : p \in (sections[j].offset + 1)..end
      <4>1. PICK a \in Nat, b \in Nat : a = sections[j].offset /\ b = sections[j + 1].offset /\ a <= b
        BY <2>4
      <4>2. \A p \in (b + 1)..end : p \in (a + 1)..end
        BY <4>1
      <4> QED BY <4>1, <4>2
    <3> HIDE DEF Own
    <3> QED BY <3>1, <3>2, <3>3 DEF TextsFrom
  <2>6. Own(j) \cap TextsFrom(j + 1, end) = {}
    BY <2>4 DEF TextsFrom
  <2>7. IsFiniteSet(Own(j)) /\ Cardinality(Own(j)) = sections[j].words
    BY <1>6
  <2> HIDE DEF Own
  <2>8. /\ IsFiniteSet(TextsFrom(j, end))
        /\ Cardinality(TextsFrom(j, end)) = sections[j].words + g[j + 1] - 0
    <3>1. PICK A, B, C : A = TextsFrom(j, end) /\ B = Own(j) /\ C = TextsFrom(j + 1, end)
      OBVIOUS
    <3>2. A = B \cup C /\ B \cap C = {} /\ IsFiniteSet(B) /\ Cardinality(B) = sections[j].words
      BY <2>5, <2>6, <2>7, <3>1
    <3>3. IsFiniteSet(C) /\ Cardinality(C) = g[j + 1]
      BY <1>8, <3>1
    <3>4. Cardinality(B \cap C) = 0
      BY <3>2, FS_EmptySet
    <3>5. IsFiniteSet(B \cup C) /\ Cardinality(B \cup C) = Cardinality(B) + Cardinality(C) - Cardinality(B \cap C)
      BY <3>2, <3>3, FS_Union
    <3> QED BY <3>1, <3>2, <3>3, <3>4, <3>5
  <2>9. g[j + 1] \in Nat /\ sections[j].offset <= end
    BY <1>1, <2>1, <2>4
  <2> QED BY <2>2, <2>4, <2>8, <2>9
<1> HIDE DEF Good
<1>9. Fails = {}
  <2> SUFFICES ASSUME Fails # {} PROVE FALSE
    OBVIOUS
  <2>1. PICK m \in Fails : \A k \in Nat : k < m => k \notin Fails
    BY LeastOf
  <2>2. PICK j \in i..e : e - j = m /\ ~Good(j)
    BY <2>1
  <2>3. j # e
    BY <1>7, <2>2
  <2>4. j + 1 \in i..e /\ e - (j + 1) \in Nat /\ e - (j + 1) < m
    BY <1>1, <2>2, <2>3
  <2>5. Good(j + 1)
    BY <2>1, <2>4
  <2> QED BY <1>8, <2>2, <2>3, <2>5
<1>10. Good(i)
  <2>1. i \in i..e /\ e - i \in Nat
    BY <1>1
  <2> QED BY <1>9, <2>1
<1> QED BY <1>2, <1>10 DEF Good

LEMMA DocumentIsMapped == ASSUME WalkFits, DocumentFits, SumsFit PROVE ManifestMapsTheDocument
<1> SUFFICES ASSUME phase = "done" PROVE ManifestMapsTheDocument
  BY DEF ManifestMapsTheDocument
<1>1. ASSUME NEW i \in DOMAIN sections, NEW j \in DOMAIN sections, i < j
      PROVE  sections[i].offset + sections[i].length <= sections[j].offset
  BY <1>1, OffsetsGrow, NumbersAre
<1>2. ASSUME NEW i \in DOMAIN sections
      PROVE  Blank \notin Range(SubSeq(out, sections[i].offset + 1, sections[i].offset + sections[i].length))
  <2>1. PICK a \in Nat, w \in Nat : a = sections[i].offset /\ w = sections[i].length /\ a + w <= Len(out)
    BY <1>2, NumbersAre
  <2>2. \A p \in (a + 1)..(a + w) : out[p] # Blank /\ p \in 1..Len(out)
    <3>1. TextFits(i) /\ Len(out) \in Nat
      BY <1>2, NumbersAre DEF DocumentFits
    <3> QED BY <2>1, <3>1 DEF TextFits
  <2>3. out \in Seq(Texts \cup {Blank})
    BY DEF WalkFits
  <2>4. \A p \in (a + 1)..(a + w) : out[p] \in Texts
    BY <2>2, <2>3, ElementOfSeq
  <2>5. SubSeq(out, a + 1, a + w) \in Seq(Texts)
    <3>1. a + 1 \in Int /\ a + w \in Int
      OBVIOUS
    <3> QED BY <2>4, <3>1, SubSeqProperties
  <2> QED BY <2>1, <2>5, ElementOfSeq, LenProperties, ManuscriptBlank DEF Range
<1>3. ASSUME NEW i \in DOMAIN sections
      PROVE  LET upper == {k \in DOMAIN sections : k > i /\ sections[k].depth <= sections[i].depth}
                 end == IF upper = {} THEN Len(out)
                        ELSE sections[CHOOSE k \in upper : \A k2 \in upper : k <= k2].offset
             IN sections[i].subtree = Cardinality({n \in (sections[i].offset + 1)..end : out[n] # Blank})
  <2> DEFINE upper == {k \in DOMAIN sections : k > i /\ sections[k].depth <= sections[i].depth}
             end == IF upper = {} THEN Len(out)
                    ELSE sections[CHOOSE k \in upper : \A k2 \in upper : k <= k2].offset
  <2>1. PICK n \in Nat : n = Len(sections) /\ DOMAIN sections = 1..n
    BY <1>3, NumbersAre
  <2>2. \A k \in 1..n : sections[k].depth \in Nat
    BY <2>1, NumbersAre
  <2>3. PICK g \in [i..n -> Nat] : Runs(g, i) /\ sections[i].subtree = g[i]
    BY <1>3, <2>1 DEF SumsFit
  <2>4. PICK e \in i..n : /\ end = EndOf(e) /\ \A k \in (i + 1)..e : sections[k].depth > sections[i].depth
                          /\ e = n \/ ~(sections[e + 1].depth > sections[i].depth)
    <3>1. CASE upper = {}
      <4>1. end = EndOf(n) /\ n \in i..n
        BY <1>3, <2>1, <3>1 DEF EndOf
      <4>2. \A k \in (i + 1)..n : sections[k].depth > sections[i].depth
        <5> SUFFICES ASSUME NEW k \in (i + 1)..n PROVE sections[k].depth > sections[i].depth
          OBVIOUS
        <5>1. k \in 1..n /\ k > i /\ k \notin upper /\ i \in 1..n
          BY <1>3, <2>1, <3>1
        <5>2. ~(sections[k].depth <= sections[i].depth)
          BY <2>1, <5>1
        <5> QED BY <2>2, <5>1, <5>2
      <4> QED BY <4>1, <4>2
    <3>2. CASE upper # {}
      <4>1. upper \subseteq Nat
        BY <2>1
      <4>2. PICK u \in upper : \A k \in Nat : k < u => k \notin upper
        BY <3>2, <4>1, LeastOf
      <4>3. \A k2 \in upper : u <= k2
        BY <4>1, <4>2
      <4>4. PICK v : v = CHOOSE k \in upper : \A k2 \in upper : k <= k2
        OBVIOUS
      <4>5. v \in upper /\ \A k2 \in upper : v <= k2
        BY <4>2, <4>3, <4>4
      <4>6. end = sections[v].offset
        BY <3>2, <4>4
      <4>7. v \in 1..n /\ v > i /\ sections[v].depth <= sections[i].depth /\ i \in 1..n
        BY <1>3, <2>1, <4>5
      <4>8. v - 1 \in i..n /\ (v - 1) + 1 = v /\ v - 1 # n
        BY <4>7
      <4>9. end = EndOf(v - 1)
        BY <2>1, <4>6, <4>8 DEF EndOf
      <4>10. \A k \in (i + 1)..(v - 1) : sections[k].depth > sections[i].depth
        <5> SUFFICES ASSUME NEW k \in (i + 1)..(v - 1) PROVE sections[k].depth > sections[i].depth
          OBVIOUS
        <5>1. k \in 1..n /\ k > i /\ ~(v <= k)
          BY <4>7
        <5>2. ~(sections[k].depth <= sections[i].depth)
          BY <2>1, <4>5, <5>1
        <5> QED BY <2>2, <4>7, <5>1, <5>2
      <4>11. ~(sections[(v - 1) + 1].depth > sections[i].depth)
        BY <2>2, <4>7, <4>8
      <4> HIDE DEF end, upper
      <4> QED BY <4>8, <4>9, <4>10, <4>11
    <3> QED BY <3>1, <3>2
  <2>5. g[i] = Cardinality(TextsFrom(i, EndOf(e)))
    BY <1>3, <2>1, <2>3, <2>4, CountedIs
  <2>6. sections[i].subtree = Cardinality(TextsFrom(i, end))
    BY <2>3, <2>4, <2>5
  <2> HIDE DEF end
  <2>7. sections[i].subtree = Cardinality({p \in (sections[i].offset + 1)..end : out[p] # Blank})
    BY <2>6 DEF TextsFrom
  <2> QED BY <2>7 DEF end
<1> QED BY <1>1, <1>2, <1>3 DEF ManifestMapsTheDocument

-----------------------------------------------------------------------------

ManifestFits == ManuscriptFits /\ OnceFits /\ TreeFits /\ DocumentFits /\ SumsFit

LEMMA ManifestStarts == ManuscriptInit => ManifestFits
<1> SUFFICES ASSUME ManuscriptInit PROVE ManifestFits
  OBVIOUS
<1>1. phase = "idle" /\ sections = <<>> /\ emitted = {} /\ DOMAIN sections = {}
  BY DEF ManuscriptInit, CompileInit
<1> QED BY <1>1, ManuscriptStarts
        DEF ManifestFits, OnceFits, EmittedFits, NothingTwice, TreeFits, DocumentFits, SumsFit

LEMMA ManifestFitsStep ==
    ASSUME ManifestFits, [ManuscriptNext]_manuscriptVars PROVE ManifestFits'
<1>1. ManuscriptFits'
  BY ManuscriptFitsStep DEF ManifestFits
<1>2. CASE CompileStep /\ UNCHANGED besideFiles
  BY <1>1, <1>2, OnceFitsStep, TreeFitsStep, DocumentFitsStep DEF ManifestFits, ManuscriptFits
<1>3. CASE UNCHANGED walkVars
  <2>1. OnceFits'
    BY <1>3 DEF ManifestFits, OnceFits, EmittedFits, NothingTwice, IsIncluded, IsPreamble, walkVars
  <2>2. TreeFits'
    BY <1>3 DEF ManifestFits, TreeFits, StackFits, ListFits, FollowsIn, Pending, IsOpen, ChildrenOf, walkVars
  <2>3. DocumentFits'
    BY <1>3 DEF ManifestFits, DocumentFits, TextFits, EndOf, walkVars
  <2>4. SumsFit'
    BY <1>3 DEF ManifestFits, SumsFit, Runs, walkVars
  <2> QED BY <1>1, <2>1, <2>2, <2>3, <2>4 DEF ManifestFits
<1>4. UNCHANGED manuscriptVars => UNCHANGED walkVars
  BY DEF manuscriptVars, walkVars
<1> QED BY <1>2, <1>3, <1>4 DEF ManuscriptNext

\* A compile's manifest is true of its document, whatever is split, merged or
\* lost while it walks: nothing is in the document twice, every list it walked
\* is there in its order below its page, every section's text is where its
\* offset says, and its subtree is the number of texts below it.
THEOREM ManifestsAreTrue == ManuscriptSpec => []ManifestIsTrue
<1>1. ManifestFits /\ [ManuscriptNext]_manuscriptVars => ManifestFits'
  BY ManifestFitsStep
<1>2. ManifestFits => ManifestIsTrue
  BY TreeIsCovered, DocumentIsMapped DEF ManifestFits, OnceFits, ManuscriptFits, ManifestIsTrue
<1> QED BY <1>1, <1>2, ManifestStarts, PTL DEF ManuscriptSpec

-----------------------------------------------------------------------------
(***************************************************************************)
(* With one request at a time, and a first wiki that has every text once,  *)
(* nothing is lost, doubled or left behind. Each of the files a request    *)
(* writes is what it read there or what it wrote there last (FilesFit), so *)
(* that the wiki without the one page that says again what another says    *)
(* has every text once (Settled); the index has been told of the files but *)
(* for those the request is about to index (RowsFit, IndexFits), the log   *)
(* of the rows but for those it lost or is about to hear of (TotalsFit);   *)
(* and the lists that still name a page merged away are those the request  *)
(* is still to rewrite (NamesFit).                                         *)
(***************************************************************************)

Single(body) == \A i, j \in DOMAIN body : body[i] = body[j] => i = j
Apart(wiki) ==
    /\ \A s \in Slugs : IsPage(wiki[s]) => Single(wiki[s].body)
    /\ \A s, q \in Slugs : s # q => TextsOf(wiki[s]) \cap TextsOf(wiki[q]) = {}

\* The wikis it may start with have every text once.
FirstApart == \A wiki \in FirstWikis : Apart(wiki)

\* Each file is what the request that is under way read there or wrote there.
FilesFit(t, wiki) ==
    /\ t.at \in {"check", "tail", "join", "head", "row joined", "unlink"} => wiki[t.from] = t.src
    /\ t.at = "check" /\ t.op = "merge" => t.from # t.to
    /\ t.at \notin {"rest", "read", "check"} => t.from # t.to
    /\ t.at = "tail" => wiki[t.to] = None
    /\ t.at = "join" => wiki[t.to] = t.dst
    /\ t.at \in SplitPlaces \ {"tail"} => wiki[t.to] = TailOf(t.src, t.cut)
    /\ t.at \in SplitPlaces \ {"tail", "head"} => wiki[t.from] = HeadOf(t.src, t.cut)
    /\ t.at \in MergePlaces \ {"join"} => wiki[t.to] = Joined(t.dst, t.src)
    /\ t.op = "merge" /\ t.at \in {"row gone", "unpin", "mark joined", "mark gone"} \cup ListPlaces =>
          wiki[t.from] = None
    /\ t.at = "rewrite" => /\ IsPage(wiki[t.parent]) /\ t.page.body = wiki[t.parent].body
                           /\ t.page.readers = wiki[t.parent].readers
    /\ t.at = "row parent" => wiki[t.parent] = t.page

\* The wiki without the one page that says again what another says.
Settled(t, wiki) ==
    IF t.at = "head" THEN [wiki EXCEPT ![t.to] = None]
    ELSE IF t.at \in {"row joined", "unlink"} THEN [wiki EXCEPT ![t.from] = None] ELSE wiki

\* What the index has been told by the time the request is somewhere.
RowsFit(t, wiki, index, pinned) ==
    /\ t.at \in {"row head", "mark head", "mark tail", "unlink", "row gone", "unpin", "mark joined"} =>
          index[t.to] = wiki[t.to]
    /\ t.at = "mark head" => index[t.from] = wiki[t.from]
    /\ t.op = "merge" /\ t.at \in {"unpin", "mark joined", "mark gone"} \cup ListPlaces => index[t.from] = None
    /\ t.op = "merge" /\ t.at \in {"mark joined", "mark gone"} \cup ListPlaces => t.from \notin pinned

\* The log is told of every row, but for those it has lost or is about to be told of.
TotalsFit(late, wiki, index, sums) == \A s \in Slugs \ late :
    /\ index[s] # None => sums[s] = Words(index[s])
    /\ wiki[s] = None => index[s] = None /\ sums[s] = None

\* Files the index is still to be told of.
Unindexed(t) ==
    CASE t.at = "head"                      -> {t.to}
      [] t.at = "row tail"                  -> {t.from, t.to}
      [] t.at \in {"row head", "row gone"}  -> {t.from}
      [] t.at = "row joined"                -> {t.to}
      [] t.at = "row parent"                -> {t.parent}
      [] OTHER                              -> {}
IndexFits(t, wiki, index, broken) == broken \/ \A s \in Slugs \ Unindexed(t) :
    index[s] = IF IsPage(wiki[s]) THEN wiki[s] ELSE None

\* The lists that still name the page merged away are the ones to be rewritten.
NamesFit(t, wiki, broken) ==
    t.op = "merge" =>
    /\ t.at \in {"next", "rewrite", "row parent"} =>
          \A p \in NamedIn(wiki, t.from) : \/ broken \/ ~Readable(wiki[p]) \/ p \in t.todo
                                           \/ t.at = "rewrite" /\ p = t.parent
    /\ t.at = "rewrite" => t.page.parts # None /\ t.from \notin Range(t.page.parts)

-----------------------------------------------------------------------------
(* What each step of the one request does.                                 *)

\* It goes on with what it has in hand.
Onward(t, u, where) ==
    /\ u.at = where /\ u.op = t.op /\ u.from = t.from /\ u.to = t.to /\ u.cut = t.cut
    /\ u.src = t.src /\ u.dst = t.dst /\ u.todo = t.todo /\ u.parent = t.parent /\ u.page = t.page

FilesStay == UNCHANGED <<disk, rows, total, pins, halved, unmarked>>

Ended(t, u) ==
    /\ u.at = "rest" /\ UNCHANGED <<disk, rows, total, pins>> /\ unmarked' = unmarked \cup Untold(t)
    /\ halved' \in BOOLEAN /\ (halved => halved') /\ (t.at \notin Untouched \cup {"next"} => halved')
AskedFor(t, u) == t.at = "rest" /\ u.at = "read" /\ FilesStay
SourceRead(t, u) ==
    /\ t.at = "read" /\ u.at = "check" /\ u.op = t.op /\ u.from = t.from /\ u.to = t.to /\ u.cut = t.cut
    /\ Readable(disk[t.from]) /\ u.src = disk[t.from] /\ (t.op = "merge" => t.from # t.to) /\ FilesStay
SplitChecked(t, u) == /\ t.at = "check" /\ t.op = "split" /\ disk[t.to] = None /\ Onward(t, u, "tail") /\ FilesStay
MergeChecked(t, u) ==
    /\ t.at = "check" /\ t.op = "merge" /\ u.at = "join" /\ u.op = t.op /\ u.from = t.from /\ u.to = t.to
    /\ u.cut = t.cut /\ u.src = t.src /\ u.dst = disk[t.to] /\ Readable(disk[t.to]) /\ FilesStay
Wrote(t, u, at, s, file, then) ==
    /\ t.at = at /\ Onward(t, u, then) /\ disk' = [disk EXCEPT ![s] = file]
    /\ UNCHANGED <<rows, total, pins, halved, unmarked>>
Indexed(t, u, at, s, row, then) ==
    /\ t.at = at /\ Onward(t, u, then) /\ rows' = [rows EXCEPT ![s] = row]
    /\ UNCHANGED <<disk, total, pins, halved, unmarked>>
Unpinned(t, u) ==
    /\ t.at = "unpin" /\ Onward(t, u, "mark joined") /\ pins' = pins \ {t.from}
    /\ UNCHANGED <<disk, rows, total, halved, unmarked>>
Told(t, u, at, s, n, then) ==
    /\ t.at = at /\ Onward(t, u, then) /\ UNCHANGED <<disk, rows, pins, halved>>
    /\ \/ total' = [total EXCEPT ![s] = n] /\ unmarked' = unmarked \ {s}
       \/ total' = total /\ unmarked' = unmarked \cup {s}
Sifted(t, u, where, todo) ==
    /\ t.at \in {"find", "next"} /\ u.at = where /\ u.op = t.op /\ u.from = t.from /\ u.to = t.to /\ u.cut = t.cut
    /\ u.src = t.src /\ u.dst = t.dst /\ u.todo = todo /\ FilesStay
Found(t, u) == t.at = "find" /\ Sifted(t, u, "next", ParentsNaming(t.from))
ParentPassed(t, u) == t.at = "next" /\ \E p \in t.todo : ~Changes(t, p) /\ Sifted(t, u, "next", t.todo \ {p})
ParentTaken(t, u) ==
    t.at = "next" /\ \E p \in t.todo, changed \in Pages :
        /\ Changes(t, p) /\ disk[p] \in Pages /\ Sifted(t, u, "rewrite", t.todo \ {p}) /\ p \in Slugs
        /\ changed = [disk[p] EXCEPT !.parts = Rewritten(t, disk[p].parts)] /\ u.parent = p /\ u.page = changed
ParentIndexed(t, u) ==
    /\ t.at = "row parent" /\ Onward(t, u, "next") /\ rows' = [rows EXCEPT ![t.parent] = t.page]
    /\ unmarked' = (IF rows[t.parent] # None /\ rows[t.parent].body = t.page.body
                    THEN unmarked ELSE unmarked \cup {t.parent})
    /\ UNCHANGED <<disk, total, pins, halved>>

SplitMoves(t, u) ==
    \/ Wrote(t, u, "tail", t.to, TailOf(t.src, t.cut), "head")
    \/ Wrote(t, u, "head", t.from, HeadOf(t.src, t.cut), "row tail")
    \/ Indexed(t, u, "row tail", t.to, TailOf(t.src, t.cut), "row head")
    \/ Indexed(t, u, "row head", t.from, HeadOf(t.src, t.cut), "mark head")
    \/ Told(t, u, "mark head", t.from, Words(HeadOf(t.src, t.cut)), "mark tail")
    \/ Told(t, u, "mark tail", t.to, Words(TailOf(t.src, t.cut)), "find")
MergeMoves(t, u) ==
    \/ Wrote(t, u, "join", t.to, Joined(t.dst, t.src), "row joined")
    \/ Indexed(t, u, "row joined", t.to, Joined(t.dst, t.src), "unlink")
    \/ Wrote(t, u, "unlink", t.from, None, "row gone")
    \/ Indexed(t, u, "row gone", t.from, None, "unpin")
    \/ Unpinned(t, u)
    \/ Told(t, u, "mark joined", t.to, Words(Joined(t.dst, t.src)), "mark gone")
    \/ Told(t, u, "mark gone", t.from, None, "find")
ListMoves(t, u) ==
    \/ Found(t, u) \/ ParentPassed(t, u) \/ ParentTaken(t, u)
    \/ Wrote(t, u, "rewrite", t.parent, t.page, "row parent")
    \/ ParentIndexed(t, u)
StartMoves(t, u) == AskedFor(t, u) \/ SourceRead(t, u) \/ SplitChecked(t, u) \/ MergeChecked(t, u)

LEMMA GoesTo ==
    ASSUME SpineFits, NEW c \in Clients, NEW t \in Hands, NEW where, Go(c, where, t)
    PROVE  Onward(t, task'[c], where)
<1>1. task'[c] = [t EXCEPT !.at = where]
  BY DEF Go, SpineFits
<1> QED BY <1>1 DEF Onward, Hands

LEMMA StartMovesAre ==
    ASSUME SpineFits, NEW c \in Clients, NEW t, t = task[c], NEW u, u = task'[c],
           Ask(c) \/ ReadSource(c) \/ CheckDestination(c)
    PROVE  StartMoves(t, u) \/ Ended(t, u)
<1>0. t \in Hands /\ HandFits(t) /\ DOMAIN task = Clients /\ halved \in BOOLEAN
  BY InHand DEF SpineFits
<1>1. ASSUME Refuse(c), t.at \in {"read", "check"}, UNCHANGED <<disk, rows, total, pins, unmarked>> PROVE Ended(t, u)
  <2>1. u.at = "rest" /\ halved' = halved
    BY <1>0, <1>1 DEF Refuse, Give, Rest
  <2>2. Untold(t) = {}
    BY <1>1 DEF Untold
  <2> QED BY <1>0, <1>1, <2>1, <2>2 DEF Ended, Untouched
<1>2. CASE Ask(c)
  <2>1. \E w : task' = [task EXCEPT ![c] = [w EXCEPT !.at = "read"]] /\ "at" \in DOMAIN w
    BY <1>2 DEF Ask, Go, Rest
  <2>2. u.at = "read"
    BY <1>0, <2>1
  <2> QED BY <1>2, <2>2 DEF Ask, At, AskedFor, StartMoves, FilesStay
<1>3. CASE ReadSource(c)
  <2>1. t.at = "read" /\ UNCHANGED <<disk, rows, total, pins, unmarked>>
    BY <1>3 DEF ReadSource, At
  <2>2. CASE Refuse(c)
    BY <1>1, <2>1, <2>2
  <2>3. CASE /\ Readable(disk[t.from]) /\ ~(t.op = "merge" /\ t.from = t.to)
             /\ Go(c, "check", [t EXCEPT !.src = disk[t.from]]) /\ UNCHANGED halved
    <3>1. t.from \in Slugs
      BY <1>0, <2>1 DEF HandFits
    <3>2. PICK src \in Pages : src = disk[t.from]
      BY <2>3, <3>1, FilesArePages DEF SpineFits, Readable
    <3>3. PICK w \in Hands : w = [t EXCEPT !.src = src]
      BY <1>0, HandsStay
    <3>4. w.op = t.op /\ w.from = t.from /\ w.to = t.to /\ w.cut = t.cut /\ w.src = src
      BY <1>0, <3>3 DEF Hands
    <3>5. Onward(w, u, "check")
      BY <2>3, <3>2, <3>3, GoesTo
    <3> QED BY <2>1, <2>3, <3>2, <3>4, <3>5 DEF Onward, SourceRead, StartMoves, FilesStay
  <2> QED BY <1>3, <2>2, <2>3 DEF ReadSource
<1>4. CASE CheckDestination(c)
  <2>1. t.at = "check" /\ UNCHANGED <<disk, rows, total, pins, unmarked>>
    BY <1>4 DEF CheckDestination, At
  <2>2. CASE Refuse(c)
    BY <1>1, <2>1, <2>2
  <2>3. CASE t.op = "split" /\ disk[t.to] = None /\ Go(c, "tail", t) /\ UNCHANGED halved
    <3>1. Onward(t, u, "tail")
      BY <1>0, <2>3, GoesTo
    <3> QED BY <2>1, <2>3, <3>1 DEF SplitChecked, StartMoves, FilesStay
  <2>4. CASE /\ t.op # "split" /\ Readable(disk[t.to])
             /\ Go(c, "join", [t EXCEPT !.dst = disk[t.to]]) /\ UNCHANGED halved
    <3>1. t.to \in Slugs /\ t.op = "merge"
      BY <1>0, <2>1, <2>4 DEF HandFits
    <3>2. PICK dst \in Pages : dst = disk[t.to]
      BY <2>4, <3>1, FilesArePages DEF SpineFits, Readable
    <3>3. PICK w \in Hands : w = [t EXCEPT !.dst = dst]
      BY <1>0, HandsStay
    <3>4. w.op = t.op /\ w.from = t.from /\ w.to = t.to /\ w.cut = t.cut /\ w.src = t.src /\ w.dst = dst
      BY <1>0, <3>3 DEF Hands
    <3>5. Onward(w, u, "join")
      BY <2>4, <3>2, <3>3, GoesTo
    <3> QED BY <2>1, <2>4, <3>1, <3>2, <3>4, <3>5 DEF Onward, MergeChecked, StartMoves, FilesStay
  <2> QED BY <1>4, <2>2, <2>3, <2>4 DEF CheckDestination
<1> QED BY <1>2, <1>3, <1>4

LEMMA SplitMovesAre ==
    ASSUME SpineFits, NEW c \in Clients, NEW t, t = task[c], NEW u, u = task'[c],
           \/ WriteTail(c) \/ WriteHead(c) \/ IndexTail(c) \/ IndexHead(c)
           \/ (Mark(c) \/ LoseMark(c)) /\ t.at \in {"mark head", "mark tail"}
    PROVE  SplitMoves(t, u)
<1>0. t \in Hands
  BY InHand
<1>1. CASE WriteTail(c)
  BY <1>0, <1>1, GoesTo DEF WriteTail, At, Save, Wrote, SplitMoves
<1>2. CASE WriteHead(c)
  BY <1>0, <1>2, GoesTo DEF WriteHead, At, Save, Wrote, SplitMoves
<1>3. CASE IndexTail(c)
  BY <1>0, <1>3, GoesTo DEF IndexTail, At, Index, Indexed, SplitMoves
<1>4. CASE IndexHead(c)
  BY <1>0, <1>4, GoesTo DEF IndexHead, At, Index, Indexed, SplitMoves
<1>5. CASE (Mark(c) \/ LoseMark(c)) /\ t.at = "mark head"
  <2>1. PICK n : n = Words(HeadOf(t.src, t.cut))
    OBVIOUS
  <2>2. PICK m : m = Marker(t)
    OBVIOUS
  <2>3. m = [slug |-> t.from, total |-> n, then |-> "mark tail"]
    BY <1>5, <2>1, <2>2 DEF Marker
  <2>4. m.slug = t.from /\ m.total = n /\ m.then = "mark tail"
    BY ONLY <2>3
  <2>5. Go(c, "mark tail", t)
    BY <1>5, <2>2, <2>4 DEF Mark, LoseMark
  <2>6. Onward(t, u, "mark tail")
    BY <1>0, <2>5, GoesTo
  <2> QED BY <1>5, <2>1, <2>2, <2>4, <2>6 DEF Mark, LoseMark, Told, SplitMoves
<1>6. CASE (Mark(c) \/ LoseMark(c)) /\ t.at = "mark tail"
  <2>1. PICK n : n = Words(TailOf(t.src, t.cut))
    OBVIOUS
  <2>2. PICK m : m = Marker(t)
    OBVIOUS
  <2>3. m = [slug |-> t.to, total |-> n, then |-> "find"]
    BY <1>6, <2>1, <2>2 DEF Marker
  <2>4. m.slug = t.to /\ m.total = n /\ m.then = "find"
    BY ONLY <2>3
  <2>5. Go(c, "find", t)
    BY <1>6, <2>2, <2>4 DEF Mark, LoseMark
  <2>6. Onward(t, u, "find")
    BY <1>0, <2>5, GoesTo
  <2> QED BY <1>6, <2>1, <2>2, <2>4, <2>6 DEF Mark, LoseMark, Told, SplitMoves
<1> QED BY <1>1, <1>2, <1>3, <1>4, <1>5, <1>6

LEMMA MergeMovesAre ==
    ASSUME SpineFits, NEW c \in Clients, NEW t, t = task[c], NEW u, u = task'[c], FilesFit(t, disk),
           \/ WriteJoined(c) \/ IndexJoined(c) \/ Unlink(c) \/ RemoveRow(c) \/ Unpin(c)
           \/ (Mark(c) \/ LoseMark(c)) /\ t.at \in {"mark joined", "mark gone"}
    PROVE  MergeMoves(t, u)
<1>0. t \in Hands
  BY InHand
<1>1. CASE WriteJoined(c)
  BY <1>0, <1>1, GoesTo DEF WriteJoined, At, Save, Wrote, MergeMoves
<1>2. CASE IndexJoined(c)
  BY <1>0, <1>2, GoesTo DEF IndexJoined, At, Index, Indexed, MergeMoves
<1>3. CASE Unlink(c)
  <2>1. t.at = "unlink" /\ t.src \in Pages
    BY <1>3, InHand DEF Unlink, At, MergePlaces
  <2>2. disk[t.from] # None
    BY <2>1, PagesApart DEF FilesFit
  <2>3. Go(c, "row gone", t)
    BY <1>3, <2>2 DEF Unlink
  <2> QED BY <1>0, <1>3, <2>1, <2>2, <2>3, GoesTo DEF Unlink, Wrote, MergeMoves
<1>4. CASE RemoveRow(c)
  BY <1>0, <1>4, GoesTo DEF RemoveRow, At, Index, Indexed, MergeMoves
<1>5. CASE Unpin(c)
  BY <1>0, <1>5, GoesTo DEF Unpin, At, Unpinned, MergeMoves
<1>6. CASE (Mark(c) \/ LoseMark(c)) /\ t.at = "mark joined"
  <2>1. PICK n : n = Words(Joined(t.dst, t.src))
    OBVIOUS
  <2>2. PICK m : m = Marker(t)
    OBVIOUS
  <2>3. m = [slug |-> t.to, total |-> n, then |-> "mark gone"]
    BY <1>6, <2>1, <2>2 DEF Marker
  <2>4. m.slug = t.to /\ m.total = n /\ m.then = "mark gone"
    BY ONLY <2>3
  <2>5. Go(c, "mark gone", t)
    BY <1>6, <2>2, <2>4 DEF Mark, LoseMark
  <2>6. Onward(t, u, "mark gone")
    BY <1>0, <2>5, GoesTo
  <2> QED BY <1>6, <2>1, <2>2, <2>4, <2>6 DEF Mark, LoseMark, Told, MergeMoves
<1>7. CASE (Mark(c) \/ LoseMark(c)) /\ t.at = "mark gone"
  <2>1. PICK m : m = Marker(t)
    OBVIOUS
  <2>2. m = [slug |-> t.from, total |-> None, then |-> "find"]
    BY <1>7, <2>1 DEF Marker
  <2>3. m.slug = t.from /\ m.total = None /\ m.then = "find"
    BY ONLY <2>2
  <2>4. Go(c, "find", t)
    BY <1>7, <2>1, <2>3 DEF Mark, LoseMark
  <2>5. Onward(t, u, "find")
    BY <1>0, <2>4, GoesTo
  <2> QED BY <1>7, <2>1, <2>3, <2>5 DEF Mark, LoseMark, Told, MergeMoves
<1> QED BY <1>1, <1>2, <1>3, <1>4, <1>5, <1>6, <1>7

LEMMA ListMovesAre ==
    ASSUME SpineFits, NEW c \in Clients, NEW t, t = task[c], NEW u, u = task'[c],
           Find(c) \/ ReadParent(c) \/ WriteParent(c) \/ IndexParent(c)
    PROVE  ListMoves(t, u)
<1>0. t \in Hands /\ DOMAIN task = Clients
  BY InHand DEF SpineFits
<1>1. CASE Find(c)
  <2>1. PICK todo \in SUBSET Slugs : todo = ParentsNaming(t.from)
    BY DEF ParentsNaming
  <2>2. PICK w \in Hands : w = [t EXCEPT !.todo = todo]
    BY <1>0, HandsStay
  <2>3. /\ w.op = t.op /\ w.from = t.from /\ w.to = t.to /\ w.cut = t.cut /\ w.src = t.src /\ w.dst = t.dst
        /\ w.todo = todo
    BY <1>0, <2>2 DEF Hands
  <2>4. Go(c, "next", w)
    BY <1>1, <2>1, <2>2 DEF Find
  <2>5. Onward(w, u, "next")
    BY <2>4, GoesTo
  <2> QED BY <1>1, <2>1, <2>3, <2>5 DEF Find, At, Onward, Sifted, Found, ListMoves, FilesStay
<1>2. CASE ReadParent(c)
  <2>1. t.at = "next" /\ UNCHANGED <<disk, rows, total, pins, halved, unmarked>>
    BY <1>2 DEF ReadParent, At
  <2>2. PICK p \in t.todo : t.todo \subseteq Slugs /\ (Passed(c, t, p) \/ ToRewrite(c, t, p))
    BY <1>2, ParentRead
  <2>3. PICK w \in Hands : w = [t EXCEPT !.todo = @ \ {p}]
    <3>1. t.todo \ {p} \in SUBSET Slugs
      BY <2>2
    <3> QED BY <1>0, <3>1, HandsStay
  <2>4. /\ w.op = t.op /\ w.from = t.from /\ w.to = t.to /\ w.cut = t.cut /\ w.src = t.src /\ w.dst = t.dst
        /\ w.todo = t.todo \ {p}
    BY <1>0, <2>3 DEF Hands
  <2>5. CASE Passed(c, t, p)
    <3>1. Go(c, "next", w) /\ ~Changes(t, p)
      BY <2>3, <2>5 DEF Passed, Go
    <3>2. Onward(w, u, "next")
      BY <3>1, GoesTo
    <3>3. Sifted(t, u, "next", t.todo \ {p})
      BY <2>1, <2>4, <3>2 DEF Onward, Sifted, FilesStay
    <3> QED BY <2>1, <2>2, <3>1, <3>3 DEF ParentPassed, ListMoves
  <2>6. CASE ToRewrite(c, t, p)
    <3>1. Changes(t, p) /\ disk[p] \in Pages /\ p \in Slugs
      BY <2>2, <2>6 DEF ToRewrite
    <3>2. PICK file \in Pages :
            /\ file = [disk[p] EXCEPT !.parts = Rewritten(t, disk[p].parts)]
            /\ task' = [task EXCEPT ![c] = [[w EXCEPT !.parent = p, !.page = file] EXCEPT !.at = "rewrite"]]
      BY <2>3, <2>6 DEF ToRewrite
    <3>3. PICK v \in Hands : v = [w EXCEPT !.parent = p, !.page = file]
      BY <3>1, HandsStay
    <3>4. /\ v.op = w.op /\ v.from = w.from /\ v.to = w.to /\ v.cut = w.cut /\ v.src = w.src /\ v.dst = w.dst
          /\ v.todo = w.todo /\ v.parent = p /\ v.page = file
      BY <3>3 DEF Hands
    <3>5. Go(c, "rewrite", v)
      BY <3>2, <3>3 DEF Go
    <3>6. Onward(v, u, "rewrite")
      BY <3>5, GoesTo
    <3>7. Sifted(t, u, "rewrite", t.todo \ {p}) /\ u.parent = p /\ u.page = file
      BY <2>1, <2>4, <3>4, <3>6 DEF Onward, Sifted, FilesStay
    <3>8. ParentTaken(t, u)
      BY <2>1, <2>2, <3>1, <3>2, <3>7 DEF ParentTaken
    <3> QED BY <3>8 DEF ListMoves
  <2> QED BY <2>2, <2>5, <2>6
<1>3. CASE WriteParent(c)
  BY <1>0, <1>3, GoesTo DEF WriteParent, At, Save, Wrote, ListMoves
<1>4. CASE IndexParent(c)
  BY <1>0, <1>4, GoesTo DEF IndexParent, At, ParentIndexed, ListMoves
<1> QED BY <1>1, <1>2, <1>3, <1>4

LEMMA EndsAre ==
    ASSUME SpineFits, NEW c \in Clients, NEW t, t = task[c], NEW u, u = task'[c], Answer(c) \/ Fail(c)
    PROVE  Ended(t, u)
<1>0. DOMAIN task = Clients /\ halved \in BOOLEAN
  BY DEF SpineFits
<1>1. u.at = "rest"
  BY <1>0 DEF Answer, Fail, Refuse, Give, Rest
<1>2. CASE Answer(c)
  <2>1. t.at = "next" /\ Untold(t) = {}
    BY <1>2 DEF Answer, At, Untold
  <2> QED BY <1>0, <1>1, <1>2, <2>1 DEF Answer, Refuse, Ended, Untouched
<1>3. CASE Fail(c)
  BY <1>0, <1>1, <1>3 DEF Fail, Ended, Halfway
<1> QED BY <1>2, <1>3

\* Every step a request takes is one of these.
Moves(t, u) == StartMoves(t, u) \/ SplitMoves(t, u) \/ MergeMoves(t, u) \/ ListMoves(t, u) \/ Ended(t, u)

LEMMA StepIs ==
    ASSUME SpineFits, NEW c \in Clients, FilesFit(task[c], disk), SpineStep(c)
    PROVE  Moves(task[c], task'[c]) /\ first' = first
<1>1. PICK t, u : t = task[c] /\ u = task'[c]
  OBVIOUS
<1>0. first' = first
  BY DEF SpineStep, Ask, ReadSource, CheckDestination, WriteTail, WriteHead, IndexTail, IndexHead, WriteJoined,
         IndexJoined, Unlink, RemoveRow, Unpin, Mark, LoseMark, Find, ReadParent, WriteParent, IndexParent,
         Answer, Fail, Save, Index
<1>2. CASE Ask(c) \/ ReadSource(c) \/ CheckDestination(c)
  BY <1>0, <1>1, <1>2, StartMovesAre DEF Moves
<1>3. CASE WriteTail(c) \/ WriteHead(c) \/ IndexTail(c) \/ IndexHead(c)
  BY <1>0, <1>1, <1>3, SplitMovesAre DEF Moves
<1>4. CASE WriteJoined(c) \/ IndexJoined(c) \/ Unlink(c) \/ RemoveRow(c) \/ Unpin(c)
  BY <1>0, <1>1, <1>4, MergeMovesAre DEF Moves
<1>5. CASE Mark(c) \/ LoseMark(c)
  <2>1. t.at \in {"mark head", "mark tail"} \/ t.at \in {"mark joined", "mark gone"}
    BY <1>1, <1>5 DEF Mark, LoseMark, Marking
  <2> QED BY <1>0, <1>1, <1>5, <2>1, SplitMovesAre, MergeMovesAre DEF Moves
<1>6. CASE Find(c) \/ ReadParent(c) \/ WriteParent(c) \/ IndexParent(c)
  BY <1>0, <1>1, <1>6, ListMovesAre DEF Moves
<1>7. CASE Answer(c) \/ Fail(c)
  BY <1>0, <1>1, <1>7, EndsAre DEF Moves
<1> QED BY <1>2, <1>3, <1>4, <1>5, <1>6, <1>7 DEF SpineStep

-----------------------------------------------------------------------------
(* The files are what the request read or wrote there.                     *)

LEMMA FilesFitMoves ==
    ASSUME SpineFits, NEW c \in Clients, NEW t, t = task[c], NEW u, FilesFit(t, disk), Moves(t, u)
    PROVE  FilesFit(u, disk')
<1>0. HandFits(t) /\ (t.at # "rest" => t.from \in Slugs /\ t.to \in Slugs) /\ DOMAIN disk = Slugs
  BY InHand DEF SpineFits
<1>1. CASE Ended(t, u) \/ AskedFor(t, u)
  <2>1. u.at \in {"rest", "read"}
    BY <1>1 DEF Ended, AskedFor
  <2> QED BY <2>1 DEF FilesFit, SplitPlaces, MergePlaces, ListPlaces
<1>2. CASE SourceRead(t, u)
  BY <1>2 DEF SourceRead, FilesStay, FilesFit, SplitPlaces, MergePlaces, ListPlaces
<1>3. CASE SplitChecked(t, u)
  <2>1. disk[t.from] = t.src /\ t.src \in Pages
    BY <1>0, <1>3 DEF SplitChecked, FilesFit, HandFits
  <2>2. t.from # t.to
    BY <1>3, <2>1, PagesApart DEF SplitChecked
  <2> QED BY <1>3, <2>1, <2>2 DEF SplitChecked, Onward, FilesStay, FilesFit, SplitPlaces, MergePlaces, ListPlaces
<1>4. CASE MergeChecked(t, u)
  BY <1>4 DEF MergeChecked, FilesStay, FilesFit, SplitPlaces, MergePlaces, ListPlaces
<1>5. CASE SplitMoves(t, u)
  <2>1. t.at \in SplitPlaces
    BY <1>5 DEF SplitMoves, Wrote, Indexed, Told, SplitPlaces
  <2>2. t.op = "split" /\ t.from \in Slugs /\ t.to \in Slugs /\ t.from # t.to
    BY <1>0, <2>1 DEF HandFits, SplitPlaces, FilesFit
  <2>5. CASE Wrote(t, u, "tail", t.to, TailOf(t.src, t.cut), "head")
    BY <1>0, <2>2, <2>5 DEF Wrote, Onward, FilesFit, SplitPlaces, MergePlaces, ListPlaces
  <2>6. CASE Wrote(t, u, "head", t.from, HeadOf(t.src, t.cut), "row tail")
    BY <1>0, <2>2, <2>6 DEF Wrote, Onward, FilesFit, SplitPlaces, MergePlaces, ListPlaces
  <2>7. CASE Indexed(t, u, "row tail", t.to, TailOf(t.src, t.cut), "row head")
    BY <1>0, <2>2, <2>7 DEF Indexed, Onward, FilesFit, SplitPlaces, MergePlaces, ListPlaces
  <2>8. CASE Indexed(t, u, "row head", t.from, HeadOf(t.src, t.cut), "mark head")
    BY <1>0, <2>2, <2>8 DEF Indexed, Onward, FilesFit, SplitPlaces, MergePlaces, ListPlaces
  <2>9. CASE Told(t, u, "mark head", t.from, Words(HeadOf(t.src, t.cut)), "mark tail")
    BY <1>0, <2>2, <2>9 DEF Told, Onward, FilesFit, SplitPlaces, MergePlaces, ListPlaces
  <2>10. CASE Told(t, u, "mark tail", t.to, Words(TailOf(t.src, t.cut)), "find")
    BY <1>0, <2>2, <2>10 DEF Told, Onward, FilesFit, SplitPlaces, MergePlaces, ListPlaces
  <2> QED BY <1>5, <2>5, <2>6, <2>7, <2>8, <2>9, <2>10 DEF SplitMoves
<1>6. CASE MergeMoves(t, u)
  <2>1. t.at \in MergePlaces
    BY <1>6 DEF MergeMoves, Wrote, Indexed, Told, Unpinned, MergePlaces
  <2>2. t.op = "merge" /\ t.from \in Slugs /\ t.to \in Slugs /\ t.from # t.to
    BY <1>0, <2>1 DEF HandFits, MergePlaces, FilesFit
  <2>6. CASE Wrote(t, u, "join", t.to, Joined(t.dst, t.src), "row joined")
    BY <1>0, <2>2, <2>6 DEF Wrote, Onward, FilesFit, SplitPlaces, MergePlaces, ListPlaces
  <2>7. CASE Indexed(t, u, "row joined", t.to, Joined(t.dst, t.src), "unlink")
    BY <1>0, <2>2, <2>7 DEF Indexed, Onward, FilesFit, SplitPlaces, MergePlaces, ListPlaces
  <2>8. CASE Wrote(t, u, "unlink", t.from, None, "row gone")
    BY <1>0, <2>2, <2>8 DEF Wrote, Onward, FilesFit, SplitPlaces, MergePlaces, ListPlaces
  <2>9. CASE Indexed(t, u, "row gone", t.from, None, "unpin")
    BY <1>0, <2>2, <2>9 DEF Indexed, Onward, FilesFit, SplitPlaces, MergePlaces, ListPlaces
  <2>10. CASE Unpinned(t, u)
    BY <1>0, <2>2, <2>10 DEF Unpinned, Onward, FilesFit, SplitPlaces, MergePlaces, ListPlaces
  <2>11. CASE Told(t, u, "mark joined", t.to, Words(Joined(t.dst, t.src)), "mark gone")
    BY <1>0, <2>2, <2>11 DEF Told, Onward, FilesFit, SplitPlaces, MergePlaces, ListPlaces
  <2>12. CASE Told(t, u, "mark gone", t.from, None, "find")
    BY <1>0, <2>2, <2>12 DEF Told, Onward, FilesFit, SplitPlaces, MergePlaces, ListPlaces
  <2> QED BY <1>6, <2>6, <2>7, <2>8, <2>9, <2>10, <2>11, <2>12 DEF MergeMoves
<1>7. CASE ListMoves(t, u)
  <2>1. CASE Found(t, u)
    BY <2>1 DEF Found, Sifted, FilesStay, FilesFit, SplitPlaces, MergePlaces, ListPlaces
  <2>2. CASE ParentPassed(t, u)
    BY <2>2 DEF ParentPassed, Sifted, FilesStay, FilesFit, SplitPlaces, MergePlaces, ListPlaces
  <2>3. CASE ParentTaken(t, u)
    <3>1. PICK p \in t.todo, kept \in Pages :
            /\ Changes(t, p) /\ disk[p] \in Pages /\ Sifted(t, u, "rewrite", t.todo \ {p}) /\ p \in Slugs
            /\ kept = [disk[p] EXCEPT !.parts = Rewritten(t, disk[p].parts)] /\ u.parent = p /\ u.page = kept
      BY <2>3 DEF ParentTaken
    <3>2. kept.body = disk[p].body /\ kept.readers = disk[p].readers /\ IsPage(disk[p])
      BY <3>1 DEF Pages, Changes, Readable
    <3>3. t.at = "next"
      BY <2>3 DEF ParentTaken
    <3> QED BY <3>1, <3>2, <3>3 DEF Sifted, FilesStay, FilesFit, SplitPlaces, MergePlaces, ListPlaces
  <2>4. CASE Wrote(t, u, "rewrite", t.parent, t.page, "row parent")
    <3>1. /\ t.at = "rewrite" /\ u.at = "row parent" /\ disk' = [disk EXCEPT ![t.parent] = t.page]
          /\ u.op = t.op /\ u.from = t.from /\ u.to = t.to /\ u.parent = t.parent /\ u.page = t.page
      BY <2>4 DEF Wrote, Onward
    <3>2. t.parent \in Slugs /\ t.from # t.to /\ (t.op = "merge" => disk[t.from] = None /\ t.from # t.parent)
      BY <1>0, <3>1 DEF HandFits, FilesFit, ListPlaces, IsPage
    <3> QED BY <1>0, <3>1, <3>2 DEF FilesFit, SplitPlaces, MergePlaces, ListPlaces
  <2>5. CASE ParentIndexed(t, u)
    BY <2>5 DEF ParentIndexed, Onward, FilesFit, SplitPlaces, MergePlaces, ListPlaces
  <2> QED BY <1>7, <2>1, <2>2, <2>3, <2>4, <2>5 DEF ListMoves
<1> QED BY <1>1, <1>2, <1>3, <1>4, <1>5, <1>6, <1>7 DEF Moves, StartMoves

-----------------------------------------------------------------------------
(* The texts.                                                              *)

\* What a cut and a joining do to the texts of the pages they are made of.
LEMMA HalvesTexts ==
    ASSUME NEW src \in Pages, NEW cut \in Nat, Divides(src.body, cut),
           NEW head, head = HeadOf(src, cut), NEW tail, tail = TailOf(src, cut)
    PROVE  /\ head \in Pages /\ tail \in Pages
           /\ head.readers = src.readers /\ tail.readers = src.readers
           /\ TextsOf(head) \cup TextsOf(tail) = TextsOf(src)
           /\ Single(src.body) => /\ Single(head.body) /\ Single(tail.body)
                                  /\ TextsOf(head) \cap TextsOf(tail) = {}
<1>1. head \in Pages /\ tail \in Pages
  BY HalvesArePages
<1>2. head.readers = src.readers /\ tail.readers = src.readers
  BY DEF HeadOf, TailOf, Pages
<1>3. PICK b \in Seq(Texts) : b = src.body
  BY DEF Pages
<1>4. Len(b) \in Nat /\ DOMAIN b = 1..Len(b) /\ cut \in 1..(Len(b) - 1)
  BY <1>3, LenProperties DEF Divides
<1>5. PICK h, g : h = head.body /\ g = tail.body
  OBVIOUS
<1>6. h = SubSeq(b, 1, cut) /\ g = SubSeq(b, cut + 1, Len(b))
  BY <1>3, <1>5 DEF HeadOf, TailOf, Head1, Tail1, Pages
<1>7. DOMAIN h = 1..cut /\ \A i \in 1..cut : h[i] = b[i]
  <2>1. \A i \in 1..cut : b[i] \in Texts
    BY <1>3, <1>4, ElementOfSeq
  <2> QED BY <1>4, <1>6, <2>1, SubSeqProperties
<1>8. DOMAIN g = 1..(Len(b) - cut) /\ \A i \in 1..(Len(b) - cut) : g[i] = b[i + cut]
  <2>1. \A i \in (cut + 1)..Len(b) : b[i] \in Texts
    BY <1>3, <1>4, ElementOfSeq
  <2>2. Len(g) = Len(b) - cut /\ g \in Seq(Texts) /\ \A i \in 1..(Len(b) - cut) : g[i] = b[cut + 1 + i - 1]
    BY <1>4, <1>6, <2>1, SubSeqProperties
  <2> QED BY <1>4, <2>2, LenProperties
<1>9. TextsOf(head) = Range(h) /\ TextsOf(tail) = Range(g) /\ TextsOf(src) = Range(b)
  BY <1>1, <1>3, <1>5, PagesApart DEF TextsOf, IsPage
<1>10. Range(h) \cup Range(g) = Range(b)
  <2>1. \A x \in Range(b) : x \in Range(h) \cup Range(g)
    <3> SUFFICES ASSUME NEW i \in 1..Len(b) PROVE b[i] \in Range(h) \cup Range(g)
      BY <1>4 DEF Range
    <3>1. CASE i <= cut
      BY <1>4, <1>7, <3>1 DEF Range
    <3>2. CASE i > cut
      <4>1. i - cut \in 1..(Len(b) - cut) /\ g[i - cut] = b[i]
        BY <1>4, <1>8, <3>2
      <4> QED BY <1>8, <4>1 DEF Range
    <3> QED BY <1>4, <3>1, <3>2
  <2>2. \A i \in 1..(Len(b) - cut) : i + cut \in 1..Len(b)
    BY <1>4
  <2>3. \A i \in 1..cut : i \in 1..Len(b)
    BY <1>4
  <2> QED BY <1>4, <1>7, <1>8, <2>1, <2>2, <2>3 DEF Range
<1>11. ASSUME Single(b) PROVE Single(h) /\ Single(g) /\ Range(h) \cap Range(g) = {}
  <2>1. Single(h)
    BY <1>4, <1>7, <1>11 DEF Single
  <2>2. Single(g)
    <3> SUFFICES ASSUME NEW i \in 1..(Len(b) - cut), NEW k \in 1..(Len(b) - cut), b[i + cut] = b[k + cut]
                 PROVE i = k
      BY <1>8 DEF Single
    <3>1. i + cut \in DOMAIN b /\ k + cut \in DOMAIN b
      BY <1>4
    <3>2. i + cut = k + cut
      BY <1>11, <3>1 DEF Single
    <3> QED BY <1>4, <3>2
  <2>3. \A i \in DOMAIN h, j \in DOMAIN g : h[i] # g[j]
    <3> SUFFICES ASSUME NEW i \in 1..cut, NEW k \in 1..(Len(b) - cut), b[i] = b[k + cut] PROVE FALSE
      BY <1>7, <1>8
    <3>1. i \in DOMAIN b /\ k + cut \in DOMAIN b /\ i # k + cut
      BY <1>4
    <3> QED BY <1>11, <3>1 DEF Single
  <2> QED BY <2>1, <2>2, <2>3 DEF Range
<1> QED BY <1>1, <1>2, <1>3, <1>5, <1>9, <1>10, <1>11

LEMMA JoinedTexts ==
    ASSUME NEW src \in Pages, NEW dst \in Pages, NEW joined, joined = Joined(dst, src)
    PROVE  /\ joined \in Pages /\ joined.readers = dst.readers
           /\ TextsOf(joined) = TextsOf(dst) \cup TextsOf(src)
           /\ Single(dst.body) /\ Single(src.body) /\ TextsOf(dst) \cap TextsOf(src) = {} => Single(joined.body)
<1>1. joined \in Pages
  BY JoinedIsPage
<1>2. PICK a \in Seq(Texts), b \in Seq(Texts) : a = dst.body /\ b = src.body
  BY DEF Pages
<1>3. joined.body = a \o b /\ joined.readers = dst.readers
  BY <1>2 DEF Joined, Join, Pages
<1>4. PICK j : j = a \o b
  OBVIOUS
<1>5. TextsOf(joined) = Range(j) /\ TextsOf(dst) = Range(a) /\ TextsOf(src) = Range(b)
  BY <1>1, <1>2, <1>3, <1>4, PagesApart DEF TextsOf, IsPage
<1>6. Range(j) = Range(a) \cup Range(b)
  BY <1>2, <1>4, RangeConcatenation
<1>7. ASSUME Single(a), Single(b), Range(a) \cap Range(b) = {} PROVE Single(j)
  <2>1. /\ Len(a) \in Nat /\ Len(b) \in Nat /\ DOMAIN a = 1..Len(a) /\ DOMAIN b = 1..Len(b)
        /\ DOMAIN j = 1..(Len(a) + Len(b))
        /\ \A i \in 1..(Len(a) + Len(b)) : j[i] = IF i <= Len(a) THEN a[i] ELSE b[i - Len(a)]
    <3>1. /\ j \in Seq(Texts) /\ Len(j) = Len(a) + Len(b)
          /\ \A i \in 1..(Len(a) + Len(b)) : j[i] = IF i <= Len(a) THEN a[i] ELSE b[i - Len(a)]
      BY <1>2, <1>4, ConcatProperties
    <3> QED BY <1>2, <3>1, LenProperties
  <2>2. \A i \in 1..Len(a), k \in 1..Len(b) : a[i] # b[k]
    BY <1>7, <2>1 DEF Range
  <2> SUFFICES ASSUME NEW i \in DOMAIN j, NEW k \in DOMAIN j, j[i] = j[k] PROVE i = k
    BY DEF Single
  <2>3. CASE i <= Len(a) /\ k <= Len(a)
    BY <1>7, <2>1, <2>3 DEF Single
  <2>4. CASE i > Len(a) /\ k > Len(a)
    <3>1. i - Len(a) \in DOMAIN b /\ k - Len(a) \in DOMAIN b /\ b[i - Len(a)] = b[k - Len(a)]
      BY <2>1, <2>4
    <3>2. i - Len(a) = k - Len(a)
      BY <1>7, <3>1 DEF Single
    <3> QED BY <2>1, <3>2
  <2>5. CASE i <= Len(a) /\ k > Len(a)
    <3>1. i \in 1..Len(a) /\ k - Len(a) \in 1..Len(b) /\ a[i] = b[k - Len(a)]
      BY <2>1, <2>5
    <3> QED BY <2>2, <3>1
  <2>6. CASE i > Len(a) /\ k <= Len(a)
    <3>1. k \in 1..Len(a) /\ i - Len(a) \in 1..Len(b) /\ a[k] = b[i - Len(a)]
      BY <2>1, <2>6
    <3> QED BY <2>2, <3>1
  <2> QED BY <2>1, <2>3, <2>4, <2>5, <2>6
<1> QED BY <1>1, <1>2, <1>3, <1>4, <1>5, <1>6, <1>7

\* A page that says nothing twice has as many texts as words.
LEMMA SinglesCount ==
    ASSUME NEW file \in Pages, Single(file.body) PROVE Cardinality(TextsOf(file)) = Words(file)
<1>1. PICK b \in Seq(Texts) : b = file.body
  BY DEF Pages
<1>2. Len(b) \in Nat /\ DOMAIN b = 1..Len(b) /\ b \in [1..Len(b) -> Texts]
  BY <1>1, LenProperties
<1>3. TextsOf(file) = Range(b) /\ Words(file) = Len(b)
  BY <1>1, PagesApart DEF TextsOf, IsPage, Words
<1>4. b \in Surjection(1..Len(b), Range(b)) /\ b \in Injection(1..Len(b), Range(b))
  <2>1. b \in [1..Len(b) -> Range(b)]
    BY <1>2 DEF Range
  <2>2. \A i, j \in 1..Len(b) : b[i] = b[j] => i = j
    BY <1>1, <1>2 DEF Single
  <2>3. \A x \in Range(b) : \E i \in 1..Len(b) : b[i] = x
    BY <1>2 DEF Range
  <2> QED BY <2>1, <2>2, <2>3 DEF Surjection, Injection, IsInjective
<1>5. IsFiniteSet(1..Len(b)) /\ Cardinality(1..Len(b)) = Len(b)
  BY <1>2, FS_Interval
<1>6. Cardinality(Range(b)) = Cardinality(1..Len(b))
  BY <1>4, <1>5, FS_Surjection
<1> QED BY <1>3, <1>5, <1>6

\* A file may be written where its texts are nowhere else.
LEMMA ApartWith ==
    ASSUME NEW wiki \in [Slugs -> Files], Apart(wiki), NEW s \in Slugs, NEW file \in Files,
           IsPage(file) => Single(file.body),
           \A q \in Slugs \ {s} : TextsOf(file) \cap TextsOf(wiki[q]) = {},
           NEW new, new = [wiki EXCEPT ![s] = file]
    PROVE  Apart(new) /\ new \in [Slugs -> Files]
<1>1. new[s] = file /\ \A q \in Slugs \ {s} : new[q] = wiki[q]
  OBVIOUS
<1>2. \A q \in Slugs : IsPage(new[q]) => Single(new[q].body)
  BY <1>1 DEF Apart
<1>3. \A p, q \in Slugs : p # q => TextsOf(new[p]) \cap TextsOf(new[q]) = {}
  <2> SUFFICES ASSUME NEW p \in Slugs, NEW q \in Slugs, p # q PROVE TextsOf(new[p]) \cap TextsOf(new[q]) = {}
    OBVIOUS
  <2>1. CASE p = s
    BY <1>1, <2>1
  <2>2. CASE q = s
    BY <1>1, <2>2
  <2>3. CASE p # s /\ q # s
    BY <1>1, <2>3 DEF Apart
  <2> QED BY <2>1, <2>2, <2>3
<1> QED BY <1>2, <1>3 DEF Apart

\* The steps that write files, and the others.
Writes(t, u) ==
    \/ Wrote(t, u, "tail", t.to, TailOf(t.src, t.cut), "head")
    \/ Wrote(t, u, "head", t.from, HeadOf(t.src, t.cut), "row tail")
    \/ Wrote(t, u, "join", t.to, Joined(t.dst, t.src), "row joined")
    \/ Wrote(t, u, "unlink", t.from, None, "row gone")
    \/ Wrote(t, u, "rewrite", t.parent, t.page, "row parent")

LEMMA WritesAre ==
    ASSUME NEW t, NEW u, Moves(t, u)
    PROVE  disk' = disk \/ Writes(t, u)
BY DEF Moves, StartMoves, SplitMoves, MergeMoves, ListMoves, Ended, AskedFor, SourceRead, SplitChecked, MergeChecked,
       Indexed, Told, Unpinned, Found, ParentPassed, ParentTaken, ParentIndexed, Sifted, FilesStay, Writes

\* What the request has in hand when it writes.
LEMMA AtWriting ==
    ASSUME SpineFits, NEW c \in Clients, NEW t, t = task[c], FilesFit(t, disk)
    PROVE  /\ DOMAIN disk = Slugs
           /\ t.at \in {"tail", "head"} =>
                /\ t.from \in Slugs /\ t.to \in Slugs /\ t.from # t.to /\ t.src = disk[t.from]
                /\ t.src \in Pages /\ t.cut \in Nat /\ Divides(t.src.body, t.cut)
                /\ disk[t.to] = IF t.at = "tail" THEN None ELSE TailOf(t.src, t.cut)
           /\ t.at \in {"join", "row joined", "unlink"} =>
                /\ t.from \in Slugs /\ t.to \in Slugs /\ t.from # t.to /\ t.src = disk[t.from]
                /\ t.src \in Pages /\ t.dst \in Pages
                /\ disk[t.to] = IF t.at = "join" THEN t.dst ELSE Joined(t.dst, t.src)
           /\ t.at = "rewrite" => /\ t.parent \in Slugs /\ t.page \in Pages /\ disk[t.parent] \in Pages
                                  /\ t.page.body = disk[t.parent].body /\ t.page.readers = disk[t.parent].readers
<1>1. HandFits(t) /\ t.cut \in Nat /\ disk \in [Slugs -> Files]
  <2>1. t \in Hands /\ HandFits(t) /\ disk \in [Slugs -> Files]
    BY InHand DEF SpineFits
  <2>2. t.cut \in Nat
    BY <2>1 DEF Hands
  <2> QED BY <2>1, <2>2
<1>2. ASSUME t.at \in {"tail", "head"}
      PROVE  /\ t.from \in Slugs /\ t.to \in Slugs /\ t.from # t.to /\ t.src = disk[t.from]
             /\ t.src \in Pages /\ t.cut \in Nat /\ Divides(t.src.body, t.cut)
             /\ disk[t.to] = IF t.at = "tail" THEN None ELSE TailOf(t.src, t.cut)
  BY <1>1, <1>2 DEF HandFits, FilesFit, SplitPlaces
<1>3. ASSUME t.at \in {"join", "row joined", "unlink"}
      PROVE  /\ t.from \in Slugs /\ t.to \in Slugs /\ t.from # t.to /\ t.src = disk[t.from]
             /\ t.src \in Pages /\ t.dst \in Pages
             /\ disk[t.to] = IF t.at = "join" THEN t.dst ELSE Joined(t.dst, t.src)
  BY <1>1, <1>3 DEF HandFits, FilesFit, MergePlaces
<1>4. ASSUME t.at = "rewrite"
      PROVE  /\ t.parent \in Slugs /\ t.page \in Pages /\ disk[t.parent] \in Pages
             /\ t.page.body = disk[t.parent].body /\ t.page.readers = disk[t.parent].readers
  BY <1>1, <1>4, FilesArePages DEF HandFits, FilesFit
<1> QED BY <1>1, <1>2, <1>3, <1>4

\* No step loses a text.
LEMMA TextsStay ==
    ASSUME SpineFits, NEW c \in Clients, NEW t, t = task[c], NEW u, FilesFit(t, disk), Moves(t, u)
    PROVE  TextsIn(disk) \subseteq TextsIn(disk')
<1>0. TextsOf(None) = {} /\ DOMAIN disk = Slugs
  BY DEF TextsOf, IsPage, SpineFits
<1>1. PICK head, tail, joined : head = HeadOf(t.src, t.cut) /\ tail = TailOf(t.src, t.cut) /\ joined = Joined(t.dst, t.src)
  OBVIOUS
<1>7. ASSUME NEW s \in Slugs, NEW other \in Slugs \ {s}, NEW file, disk' = [disk EXCEPT ![s] = file],
             TextsOf(disk[s]) \subseteq TextsOf(file) \cup TextsOf(disk[other])
      PROVE  TextsIn(disk) \subseteq TextsIn(disk')
  <2>1. PICK after : after = disk'
    OBVIOUS
  <2>2. after[s] = file /\ \A q \in Slugs \ {s} : after[q] = disk[q]
    BY <1>0, <1>7, <2>1
  <2>3. ASSUME NEW q \in Slugs, NEW x \in TextsOf(disk[q])
        PROVE  \E r \in Slugs : x \in TextsOf(after[r])
    <3>1. CASE q = s
      <4>1. x \in TextsOf(file) \/ x \in TextsOf(disk[other])
        BY <1>7, <2>3, <3>1
      <4>2. after[other] = disk[other]
        BY <2>2
      <4> QED BY <2>2, <4>1, <4>2
    <3>2. CASE q # s
      BY <2>2, <2>3, <3>2
    <3> QED BY <3>1, <3>2
  <2>4. TextsIn(disk) \subseteq TextsIn(after)
    BY <2>3 DEF TextsIn
  <2> QED BY <2>1, <2>4
<1>2. CASE Wrote(t, u, "tail", t.to, TailOf(t.src, t.cut), "head")
  <2>1. t.at = "tail" /\ disk' = [disk EXCEPT ![t.to] = tail]
    BY <1>1, <1>2 DEF Wrote
  <2>2. t.to \in Slugs /\ t.from \in Slugs \ {t.to} /\ TextsOf(disk[t.to]) = {}
    BY <1>0, <2>1, AtWriting
  <2> QED BY <1>0, <2>1, <2>2, <1>7
<1>3. CASE Wrote(t, u, "head", t.from, HeadOf(t.src, t.cut), "row tail")
  <2>1. t.at = "head" /\ disk' = [disk EXCEPT ![t.from] = head]
    BY <1>1, <1>3 DEF Wrote
  <2>2. /\ t.from \in Slugs /\ t.to \in Slugs \ {t.from} /\ disk[t.from] = t.src /\ disk[t.to] = tail
        /\ t.src \in Pages /\ t.cut \in Nat /\ Divides(t.src.body, t.cut)
    BY <1>1, <2>1, AtWriting
  <2>3. TextsOf(disk[t.from]) \subseteq TextsOf(head) \cup TextsOf(disk[t.to])
    BY <1>1, <2>2, HalvesTexts
  <2> QED BY <1>0, <2>1, <2>2, <2>3, <1>7
<1>4. CASE Wrote(t, u, "join", t.to, Joined(t.dst, t.src), "row joined")
  <2>1. t.at = "join" /\ disk' = [disk EXCEPT ![t.to] = joined]
    BY <1>1, <1>4 DEF Wrote
  <2>2. t.to \in Slugs /\ t.from \in Slugs \ {t.to} /\ disk[t.to] = t.dst /\ t.src \in Pages /\ t.dst \in Pages
    BY <2>1, AtWriting
  <2>3. TextsOf(disk[t.to]) \subseteq TextsOf(joined) \cup TextsOf(disk[t.from])
    BY <1>1, <2>2, JoinedTexts
  <2> QED BY <1>0, <2>1, <2>2, <2>3, <1>7
<1>5. CASE Wrote(t, u, "unlink", t.from, None, "row gone")
  <2>1. t.at = "unlink" /\ disk' = [disk EXCEPT ![t.from] = None]
    BY <1>5 DEF Wrote
  <2>2. /\ t.from \in Slugs /\ t.to \in Slugs \ {t.from} /\ disk[t.from] = t.src /\ disk[t.to] = joined
        /\ t.src \in Pages /\ t.dst \in Pages
    BY <1>1, <2>1, AtWriting
  <2>3. TextsOf(disk[t.from]) \subseteq TextsOf(None) \cup TextsOf(disk[t.to])
    BY <1>1, <2>2, JoinedTexts
  <2> QED BY <1>0, <2>1, <2>2, <2>3, <1>7
<1>6. CASE Wrote(t, u, "rewrite", t.parent, t.page, "row parent")
  <2>1. /\ t.parent \in Slugs /\ disk' = [disk EXCEPT ![t.parent] = t.page] /\ t.page \in Pages
        /\ disk[t.parent] \in Pages /\ t.page.body = disk[t.parent].body
    BY <1>6, AtWriting DEF Wrote
  <2>2. TextsOf(t.page) = TextsOf(disk[t.parent])
    BY <2>1, PagesApart DEF TextsOf, IsPage
  <2>3. disk'[t.parent] = t.page /\ \A q \in Slugs \ {t.parent} : disk'[q] = disk[q]
    BY <1>0, <2>1
  <2>4. \A q \in Slugs : TextsOf(disk'[q]) = TextsOf(disk[q])
    BY <2>2, <2>3
  <2> QED BY <2>4 DEF TextsIn
<1> QED BY <1>2, <1>3, <1>4, <1>5, <1>6, WritesAre DEF Writes

\* Where a step writes no file, the wiki is as settled as it was, or a request
\* has ended half done.
LEMMA SettledStays ==
    ASSUME NEW t, NEW u, Moves(t, u), ~Writes(t, u)
    PROVE  disk' = disk /\ (halved \/ halved' \/ Settled(u, disk') = Settled(t, disk))
<1>0. disk' = disk
  BY WritesAre
<1>1. CASE Ended(t, u)
  BY <1>0, <1>1 DEF Ended, Settled, Untouched
<1>2. CASE StartMoves(t, u)
  BY <1>0, <1>2 DEF StartMoves, AskedFor, SourceRead, SplitChecked, MergeChecked, Onward, FilesStay, Settled
<1>3. CASE SplitMoves(t, u)
  BY <1>0, <1>3 DEF SplitMoves, Writes, Indexed, Told, Onward, Settled
<1>4. CASE MergeMoves(t, u)
  BY <1>0, <1>4 DEF MergeMoves, Writes, Indexed, Told, Unpinned, Onward, Settled
<1>5. CASE ListMoves(t, u)
  BY <1>0, <1>5 DEF ListMoves, Writes, Found, ParentPassed, ParentTaken, ParentIndexed, Sifted, Onward, FilesStay, Settled
<1> QED BY <1>0, <1>1, <1>2, <1>3, <1>4, <1>5 DEF Moves

\* What has been halved stays so.
LEMMA HalvedStays == ASSUME NEW t, NEW u, Moves(t, u), halved PROVE halved'
BY DEF Moves, StartMoves, SplitMoves, MergeMoves, ListMoves, Ended, AskedFor, SourceRead, SplitChecked, MergeChecked,
       Wrote, Indexed, Told, Unpinned, Found, ParentPassed, ParentTaken, ParentIndexed, Sifted, FilesStay

\* A wiki that has every text once still does when a step has been taken.
LEMMA ApartStays ==
    ASSUME SpineFits, NEW c \in Clients, NEW t, t = task[c], NEW u, FilesFit(t, disk), Moves(t, u),
           halved \/ Apart(Settled(t, disk))
    PROVE  halved' \/ Apart(Settled(u, disk'))
<1> SUFFICES ASSUME ~halved, Writes(t, u) PROVE Apart(Settled(u, disk'))
  BY SettledStays, HalvedStays
<1>0. disk \in [Slugs -> Files] /\ None \in Files /\ TextsOf(None) = {} /\ ~IsPage(None)
  BY DEF TextsOf, IsPage, SpineFits, Files
<1>1. PICK wiki, after, now : wiki = disk /\ after = disk' /\ now = Settled(u, disk')
  OBVIOUS
<1>2. PICK head, tail, joined : head = HeadOf(t.src, t.cut) /\ tail = TailOf(t.src, t.cut) /\ joined = Joined(t.dst, t.src)
  OBVIOUS
<1>3. wiki \in [Slugs -> Files] /\ Apart(Settled(t, wiki))
  BY <1>0, <1>1
<1>4. CASE Wrote(t, u, "tail", t.to, TailOf(t.src, t.cut), "head")
  <2>1. t.at = "tail" /\ u.at = "head" /\ u.to = t.to /\ after = [wiki EXCEPT ![t.to] = tail]
    BY <1>1, <1>2, <1>4 DEF Wrote, Onward
  <2>2. t.to \in Slugs /\ wiki[t.to] = None
    BY <1>1, <2>1, AtWriting
  <2>3. now = [after EXCEPT ![t.to] = None]
    BY <1>1, <2>1 DEF Settled
  <2>4. now = wiki
    BY <1>3, <2>1, <2>2, <2>3
  <2> QED BY <1>1, <1>3, <2>1, <2>4 DEF Settled
<1>5. CASE Wrote(t, u, "head", t.from, HeadOf(t.src, t.cut), "row tail")
  <2>1. t.at = "head" /\ u.at = "row tail" /\ after = [wiki EXCEPT ![t.from] = head]
    BY <1>1, <1>2, <1>5 DEF Wrote, Onward
  <2>2. /\ t.from \in Slugs /\ t.to \in Slugs /\ t.from # t.to /\ wiki[t.from] = t.src /\ wiki[t.to] = tail
        /\ t.src \in Pages /\ t.cut \in Nat /\ Divides(t.src.body, t.cut)
    BY <1>1, <1>2, <2>1, AtWriting
  <2>3. PICK w : w = [wiki EXCEPT ![t.to] = None]
    OBVIOUS
  <2>4. w \in [Slugs -> Files] /\ Apart(w) /\ w[t.from] = t.src /\ w[t.to] = None
    BY <1>0, <1>3, <2>1, <2>2, <2>3 DEF Settled
  <2>5. IsPage(t.src) /\ Single(t.src.body)
    BY <2>2, <2>4, PagesApart DEF Apart, IsPage
  <2>6. /\ head \in Pages /\ tail \in Pages /\ Single(head.body) /\ Single(tail.body)
        /\ TextsOf(head) \subseteq TextsOf(t.src) /\ TextsOf(tail) \subseteq TextsOf(t.src)
        /\ TextsOf(head) \cap TextsOf(tail) = {}
    BY <1>2, <2>2, <2>5, HalvesTexts
  <2>7. \A q \in Slugs \ {t.from} : TextsOf(t.src) \cap TextsOf(w[q]) = {}
    BY <2>2, <2>4 DEF Apart
  <2>8. PICK v : v = [w EXCEPT ![t.from] = head]
    OBVIOUS
  <2>9. Apart(v) /\ v \in [Slugs -> Files]
    <3>1. \A q \in Slugs \ {t.from} : TextsOf(head) \cap TextsOf(w[q]) = {}
      BY <2>6, <2>7
    <3>2. head \in Files
      BY <2>6 DEF Files
    <3> QED BY <2>2, <2>4, <2>6, <2>8, <3>1, <3>2, ApartWith
  <2>10. after = [v EXCEPT ![t.to] = tail]
    BY <1>3, <2>1, <2>2, <2>3, <2>8
  <2>11. \A q \in Slugs \ {t.to} : TextsOf(tail) \cap TextsOf(v[q]) = {}
    <3>1. v[t.from] = head /\ \A q \in Slugs \ {t.from} : v[q] = w[q]
      BY <2>2, <2>4, <2>8
    <3> QED BY <2>6, <2>7, <3>1
  <2>12. tail \in Files
    BY <2>6 DEF Files
  <2>13. Apart(after)
    BY <2>2, <2>6, <2>9, <2>10, <2>11, <2>12, ApartWith
  <2> QED BY <1>1, <2>1, <2>13 DEF Settled
<1>6. CASE Wrote(t, u, "join", t.to, Joined(t.dst, t.src), "row joined")
  <2>1. t.at = "join" /\ u.at = "row joined" /\ u.from = t.from /\ after = [wiki EXCEPT ![t.to] = joined]
    BY <1>1, <1>2, <1>6 DEF Wrote, Onward
  <2>2. /\ t.from \in Slugs /\ t.to \in Slugs /\ t.from # t.to /\ wiki[t.from] = t.src /\ wiki[t.to] = t.dst
        /\ t.src \in Pages /\ t.dst \in Pages /\ Apart(wiki)
    BY <1>1, <1>2, <1>3, <2>1, AtWriting DEF Settled
  <2>3. PICK w : w = [wiki EXCEPT ![t.from] = None]
    OBVIOUS
  <2>4. w \in [Slugs -> Files] /\ Apart(w)
    <3>1. \A q \in Slugs \ {t.from} : TextsOf(None) \cap TextsOf(wiki[q]) = {}
      BY <1>0
    <3> QED BY <1>0, <1>3, <2>2, <2>3, <3>1, ApartWith
  <2>5. /\ Single(t.src.body) /\ Single(t.dst.body) /\ TextsOf(t.dst) \cap TextsOf(t.src) = {}
        /\ \A q \in Slugs \ {t.from} : TextsOf(t.src) \cap TextsOf(wiki[q]) = {}
        /\ \A q \in Slugs \ {t.to} : TextsOf(t.dst) \cap TextsOf(wiki[q]) = {}
    BY <2>2, PagesApart DEF Apart, IsPage
  <2>6. joined \in Pages /\ Single(joined.body) /\ TextsOf(joined) = TextsOf(t.dst) \cup TextsOf(t.src)
    BY <1>2, <2>2, <2>5, JoinedTexts
  <2>7. \A q \in Slugs \ {t.to} : TextsOf(joined) \cap TextsOf(w[q]) = {}
    <3>1. w[t.from] = None /\ \A q \in Slugs \ {t.from} : w[q] = wiki[q]
      BY <1>3, <2>2, <2>3
    <3> QED BY <1>0, <2>5, <2>6, <3>1
  <2>8. joined \in Files
    BY <2>6 DEF Files
  <2>9. now = [after EXCEPT ![t.from] = None]
    BY <1>1, <2>1 DEF Settled
  <2>10. now = [w EXCEPT ![t.to] = joined]
    BY <1>3, <2>1, <2>2, <2>3, <2>9
  <2>11. Apart(now)
    BY <2>2, <2>4, <2>6, <2>7, <2>8, <2>10, ApartWith
  <2> QED BY <1>1, <2>11
<1>7. CASE Wrote(t, u, "unlink", t.from, None, "row gone")
  <2>1. t.at = "unlink" /\ u.at = "row gone" /\ after = [wiki EXCEPT ![t.from] = None]
    BY <1>1, <1>7 DEF Wrote, Onward
  <2> QED BY <1>1, <1>3, <2>1 DEF Settled
<1>8. CASE Wrote(t, u, "rewrite", t.parent, t.page, "row parent")
  <2>1. t.at = "rewrite" /\ u.at = "row parent" /\ after = [wiki EXCEPT ![t.parent] = t.page]
    BY <1>1, <1>8 DEF Wrote, Onward
  <2>2. /\ t.parent \in Slugs /\ t.page \in Pages /\ wiki[t.parent] \in Pages
        /\ t.page.body = wiki[t.parent].body /\ Apart(wiki)
    BY <1>1, <1>3, <2>1, AtWriting DEF Settled
  <2>3. TextsOf(t.page) = TextsOf(wiki[t.parent]) /\ Single(t.page.body)
    BY <2>2, PagesApart DEF TextsOf, IsPage, Apart
  <2>4. \A q \in Slugs \ {t.parent} : TextsOf(t.page) \cap TextsOf(wiki[q]) = {}
    BY <2>2, <2>3 DEF Apart
  <2>5. t.page \in Files
    BY <2>2 DEF Files
  <2>6. Apart(after)
    BY <1>3, <2>1, <2>2, <2>3, <2>4, <2>5, ApartWith
  <2> QED BY <1>1, <2>1, <2>6 DEF Settled
<1> QED BY <1>4, <1>5, <1>6, <1>7, <1>8 DEF Writes

-----------------------------------------------------------------------------
(* The index, the log and the lists.                                       *)

LEMMA RowsFitMoves ==
    ASSUME SpineFits, NEW c \in Clients, NEW t, t = task[c], NEW u, FilesFit(t, disk), Moves(t, u),
           RowsFit(t, disk, rows, pins)
    PROVE  RowsFit(u, disk', rows', pins')
<1>0. /\ HandFits(t) /\ (t.at # "rest" => t.from \in Slugs /\ t.to \in Slugs)
      /\ DOMAIN disk = Slugs /\ DOMAIN rows = Slugs
  BY InHand DEF SpineFits
<1>1. CASE Ended(t, u) \/ StartMoves(t, u)
  <2>1. u.at \in {"rest", "read", "check", "tail", "join"}
    BY <1>1 DEF Ended, StartMoves, AskedFor, SourceRead, SplitChecked, MergeChecked, Onward
  <2> QED BY <2>1 DEF RowsFit, ListPlaces
<1>2. CASE SplitMoves(t, u)
  <2>1. t.at \in SplitPlaces
    BY <1>2 DEF SplitMoves, Wrote, Indexed, Told, SplitPlaces
  <2>2. t.op = "split" /\ t.from \in Slugs /\ t.to \in Slugs /\ t.from # t.to
    BY <1>0, <2>1 DEF HandFits, SplitPlaces, FilesFit
  <2>3. CASE Wrote(t, u, "tail", t.to, TailOf(t.src, t.cut), "head")
    BY <1>0, <2>2, <2>3 DEF Wrote, Onward, RowsFit, ListPlaces
  <2>4. CASE Wrote(t, u, "head", t.from, HeadOf(t.src, t.cut), "row tail")
    BY <1>0, <2>2, <2>4 DEF Wrote, Onward, RowsFit, ListPlaces
  <2>5. CASE Indexed(t, u, "row tail", t.to, TailOf(t.src, t.cut), "row head")
    BY <1>0, <2>2, <2>5 DEF Indexed, Onward, RowsFit, ListPlaces, FilesFit, SplitPlaces
  <2>6. CASE Indexed(t, u, "row head", t.from, HeadOf(t.src, t.cut), "mark head")
    BY <1>0, <2>2, <2>6 DEF Indexed, Onward, RowsFit, ListPlaces, FilesFit, SplitPlaces
  <2>7. CASE Told(t, u, "mark head", t.from, Words(HeadOf(t.src, t.cut)), "mark tail")
    BY <1>0, <2>2, <2>7 DEF Told, Onward, RowsFit, ListPlaces
  <2>8. CASE Told(t, u, "mark tail", t.to, Words(TailOf(t.src, t.cut)), "find")
    BY <1>0, <2>2, <2>8 DEF Told, Onward, RowsFit, ListPlaces
  <2> QED BY <1>2, <2>3, <2>4, <2>5, <2>6, <2>7, <2>8 DEF SplitMoves
<1>3. CASE MergeMoves(t, u)
  <2>1. t.at \in MergePlaces
    BY <1>3 DEF MergeMoves, Wrote, Indexed, Told, Unpinned, MergePlaces
  <2>2. t.op = "merge" /\ t.from \in Slugs /\ t.to \in Slugs /\ t.from # t.to
    BY <1>0, <2>1 DEF HandFits, MergePlaces, FilesFit
  <2>3. CASE Wrote(t, u, "join", t.to, Joined(t.dst, t.src), "row joined")
    BY <1>0, <2>2, <2>3 DEF Wrote, Onward, RowsFit, ListPlaces
  <2>4. CASE Indexed(t, u, "row joined", t.to, Joined(t.dst, t.src), "unlink")
    BY <1>0, <2>2, <2>4 DEF Indexed, Onward, RowsFit, ListPlaces, FilesFit, MergePlaces
  <2>5. CASE Wrote(t, u, "unlink", t.from, None, "row gone")
    BY <1>0, <2>2, <2>5 DEF Wrote, Onward, RowsFit, ListPlaces
  <2>6. CASE Indexed(t, u, "row gone", t.from, None, "unpin")
    BY <1>0, <2>2, <2>6 DEF Indexed, Onward, RowsFit, ListPlaces
  <2>7. CASE Unpinned(t, u)
    BY <1>0, <2>2, <2>7 DEF Unpinned, Onward, RowsFit, ListPlaces
  <2>8. CASE Told(t, u, "mark joined", t.to, Words(Joined(t.dst, t.src)), "mark gone")
    BY <1>0, <2>2, <2>8 DEF Told, Onward, RowsFit, ListPlaces
  <2>9. CASE Told(t, u, "mark gone", t.from, None, "find")
    BY <1>0, <2>2, <2>9 DEF Told, Onward, RowsFit, ListPlaces
  <2> QED BY <1>3, <2>3, <2>4, <2>5, <2>6, <2>7, <2>8, <2>9 DEF MergeMoves
<1>4. CASE ListMoves(t, u)
  <2>1. CASE Found(t, u)
    BY <2>1 DEF Found, Sifted, FilesStay, RowsFit, ListPlaces
  <2>2. CASE ParentPassed(t, u)
    BY <2>2 DEF ParentPassed, Sifted, FilesStay, RowsFit, ListPlaces
  <2>3. CASE ParentTaken(t, u)
    BY <2>3 DEF ParentTaken, Sifted, FilesStay, RowsFit, ListPlaces
  <2>4. CASE Wrote(t, u, "rewrite", t.parent, t.page, "row parent")
    BY <2>4 DEF Wrote, Onward, RowsFit, ListPlaces
  <2>5. CASE ParentIndexed(t, u)
    <3>1. /\ t.at = "row parent" /\ u.at = "next" /\ u.op = t.op /\ u.from = t.from
          /\ rows' = [rows EXCEPT ![t.parent] = t.page] /\ pins' = pins
      BY <2>5 DEF ParentIndexed, Onward
    <3>2. t.parent \in Slugs /\ (t.op = "merge" => t.from # t.parent)
      BY <1>0, <3>1, PagesApart DEF HandFits, FilesFit, ListPlaces
    <3> QED BY <1>0, <3>1, <3>2 DEF RowsFit, ListPlaces
  <2> QED BY <1>4, <2>1, <2>2, <2>3, <2>4, <2>5 DEF ListMoves
<1> QED BY <1>1, <1>2, <1>3, <1>4 DEF Moves

\* A slug the log is told of, or is not, is all that changes there.
LEMMA TellingFits ==
    ASSUME DOMAIN total = Slugs, NEW t, NEW u, NEW at, NEW then, NEW s \in Slugs, NEW n, Told(t, u, at, s, n, then),
           TotalsFit(unmarked \cup Untold(t), disk, rows, total), Untold(t) \subseteq Untold(u) \cup {s},
           rows[s] # None => n = Words(rows[s]), disk[s] = None => rows[s] = None /\ n = None
    PROVE  TotalsFit(unmarked' \cup Untold(u), disk', rows', total')
<1>1. UNCHANGED <<disk, rows>>
  BY DEF Told
<1>2. CASE total' = [total EXCEPT ![s] = n] /\ unmarked' = unmarked \ {s}
  <2>1. total'[s] = n /\ \A q \in Slugs \ {s} : total'[q] = total[q]
    BY <1>2
  <2>2. \A q \in Slugs \ (unmarked' \cup Untold(u)) : q # s => q \notin unmarked \cup Untold(t)
    BY <1>2
  <2> QED BY <1>1, <2>1, <2>2 DEF TotalsFit
<1>3. CASE total' = total /\ unmarked' = unmarked \cup {s}
  <2>1. \A q \in Slugs \ (unmarked' \cup Untold(u)) : q \notin unmarked \cup Untold(t)
    BY <1>3
  <2> QED BY <1>1, <1>3, <2>1 DEF TotalsFit
<1> QED BY <1>2, <1>3 DEF Told

LEMMA TotalsFitMoves ==
    ASSUME SpineFits, NEW c \in Clients, NEW t, t = task[c], NEW u, FilesFit(t, disk), Moves(t, u),
           RowsFit(t, disk, rows, pins), TotalsFit(unmarked \cup Untold(t), disk, rows, total)
    PROVE  TotalsFit(unmarked' \cup Untold(u), disk', rows', total')
<1>0. /\ HandFits(t) /\ (t.at # "rest" => t.from \in Slugs /\ t.to \in Slugs)
      /\ DOMAIN disk = Slugs /\ DOMAIN rows = Slugs /\ DOMAIN total = Slugs
  BY InHand DEF SpineFits
<1>1. CASE Ended(t, u)
  BY <1>1 DEF Ended, Untold, TotalsFit
<1>2. CASE StartMoves(t, u)
  BY <1>2 DEF StartMoves, AskedFor, SourceRead, SplitChecked, MergeChecked, Onward, FilesStay, Untold, TotalsFit
<1>3. CASE SplitMoves(t, u)
  <2>1. t.at \in SplitPlaces
    BY <1>3 DEF SplitMoves, Wrote, Indexed, Told, SplitPlaces
  <2>2. /\ t.op = "split" /\ t.from \in Slugs /\ t.to \in Slugs /\ t.from # t.to
        /\ TailOf(t.src, t.cut) # None /\ HeadOf(t.src, t.cut) # None
    BY <1>0, <2>1, InHand, PagesApart DEF HandFits, SplitPlaces, FilesFit
  <2>3. CASE Wrote(t, u, "tail", t.to, TailOf(t.src, t.cut), "head")
    BY <1>0, <2>2, <2>3 DEF Wrote, Onward, Untold, TotalsFit
  <2>4. CASE Wrote(t, u, "head", t.from, HeadOf(t.src, t.cut), "row tail")
    BY <1>0, <2>2, <2>4 DEF Wrote, Onward, Untold, TotalsFit
  <2>5. CASE Indexed(t, u, "row tail", t.to, TailOf(t.src, t.cut), "row head")
    BY <1>0, <2>2, <2>5 DEF Indexed, Onward, Untold, TotalsFit
  <2>6. CASE Indexed(t, u, "row head", t.from, HeadOf(t.src, t.cut), "mark head")
    BY <1>0, <2>2, <2>6 DEF Indexed, Onward, Untold, TotalsFit
  <2>7. CASE Told(t, u, "mark head", t.from, Words(HeadOf(t.src, t.cut)), "mark tail")
    <3>1. /\ rows[t.from] = disk[t.from] /\ disk[t.from] = HeadOf(t.src, t.cut)
          /\ Untold(t) = {t.from, t.to} /\ Untold(u) = {t.to}
      BY <2>7 DEF Told, Onward, RowsFit, FilesFit, SplitPlaces, Untold
    <3> QED BY <1>0, <2>2, <2>7, <3>1, TellingFits
  <2>8. CASE Told(t, u, "mark tail", t.to, Words(TailOf(t.src, t.cut)), "find")
    <3>1. /\ rows[t.to] = disk[t.to] /\ disk[t.to] = TailOf(t.src, t.cut)
          /\ Untold(t) = {t.to} /\ Untold(u) = {}
      BY <2>8 DEF Told, Onward, RowsFit, FilesFit, SplitPlaces, Untold
    <3> QED BY <1>0, <2>2, <2>8, <3>1, TellingFits
  <2> QED BY <1>3, <2>3, <2>4, <2>5, <2>6, <2>7, <2>8 DEF SplitMoves
<1>4. CASE MergeMoves(t, u)
  <2>1. t.at \in MergePlaces
    BY <1>4 DEF MergeMoves, Wrote, Indexed, Told, Unpinned, MergePlaces
  <2>2. /\ t.op = "merge" /\ t.from \in Slugs /\ t.to \in Slugs /\ t.from # t.to
        /\ Joined(t.dst, t.src) # None
    BY <1>0, <2>1, InHand, PagesApart DEF HandFits, MergePlaces, FilesFit
  <2>3. CASE Wrote(t, u, "join", t.to, Joined(t.dst, t.src), "row joined")
    BY <1>0, <2>2, <2>3 DEF Wrote, Onward, Untold, TotalsFit
  <2>4. CASE Indexed(t, u, "row joined", t.to, Joined(t.dst, t.src), "unlink")
    BY <1>0, <2>2, <2>4 DEF Indexed, Onward, Untold, TotalsFit
  <2>5. CASE Wrote(t, u, "unlink", t.from, None, "row gone")
    BY <1>0, <2>2, <2>5 DEF Wrote, Onward, Untold, TotalsFit
  <2>6. CASE Indexed(t, u, "row gone", t.from, None, "unpin")
    BY <1>0, <2>2, <2>6 DEF Indexed, Onward, Untold, TotalsFit
  <2>7. CASE Unpinned(t, u)
    BY <1>0, <2>2, <2>7 DEF Unpinned, Onward, Untold, TotalsFit
  <2>8. CASE Told(t, u, "mark joined", t.to, Words(Joined(t.dst, t.src)), "mark gone")
    <3>1. /\ rows[t.to] = disk[t.to] /\ disk[t.to] = Joined(t.dst, t.src)
          /\ Untold(t) = {t.from, t.to} /\ Untold(u) = {t.from}
      BY <2>8 DEF Told, Onward, RowsFit, FilesFit, MergePlaces, Untold
    <3> QED BY <1>0, <2>2, <2>8, <3>1, TellingFits
  <2>9. CASE Told(t, u, "mark gone", t.from, None, "find")
    <3>1. rows[t.from] = None /\ disk[t.from] = None /\ Untold(t) = {t.from} /\ Untold(u) = {}
      BY <2>2, <2>9 DEF Told, Onward, RowsFit, FilesFit, MergePlaces, ListPlaces, Untold
    <3> QED BY <1>0, <2>2, <2>9, <3>1 DEF Told, TotalsFit
  <2> QED BY <1>4, <2>3, <2>4, <2>5, <2>6, <2>7, <2>8, <2>9 DEF MergeMoves
<1>5. CASE ListMoves(t, u)
  <2>1. CASE Found(t, u) \/ ParentPassed(t, u) \/ ParentTaken(t, u)
    <3>1. t.at \in {"find", "next"} /\ u.at \in {"next", "rewrite"} /\ FilesStay
      BY <2>1 DEF Found, ParentPassed, ParentTaken, Sifted
    <3>2. Untold(t) = {} /\ Untold(u) = {}
      BY <3>1 DEF Untold
    <3> QED BY <3>1, <3>2 DEF FilesStay
  <2>2. CASE Wrote(t, u, "rewrite", t.parent, t.page, "row parent")
    <3>1. t.parent \in Slugs /\ t.page # None
      BY <2>2, InHand, PagesApart DEF Wrote
    <3> QED BY <1>0, <2>2, <3>1 DEF Wrote, Onward, Untold, TotalsFit
  <2>3. CASE ParentIndexed(t, u)
    <3>1. /\ t.parent \in Slugs /\ t.page # None /\ disk[t.parent] = t.page
          /\ rows' = [rows EXCEPT ![t.parent] = t.page] /\ UNCHANGED <<disk, total>>
          /\ Untold(t) = {} /\ Untold(u) = {}
      BY <2>3, InHand, PagesApart DEF ParentIndexed, Onward, FilesFit, Untold
    <3>2. CASE rows[t.parent] # None /\ rows[t.parent].body = t.page.body
      <4>1. unmarked' = unmarked /\ Words(t.page) = Words(rows[t.parent])
        BY <2>3, <3>2 DEF ParentIndexed, Words
      <4> QED BY <1>0, <3>1, <3>2, <4>1 DEF TotalsFit
    <3>3. CASE ~(rows[t.parent] # None /\ rows[t.parent].body = t.page.body)
      <4>1. unmarked' = unmarked \cup {t.parent}
        BY <2>3, <3>3 DEF ParentIndexed
      <4> QED BY <1>0, <3>1, <4>1 DEF TotalsFit
    <3> QED BY <3>2, <3>3
  <2> QED BY <1>5, <2>1, <2>2, <2>3 DEF ListMoves
<1> QED BY <1>1, <1>2, <1>3, <1>4, <1>5 DEF Moves

LEMMA IndexFitsMoves ==
    ASSUME SpineFits, NEW c \in Clients, NEW t, t = task[c], NEW u, FilesFit(t, disk), Moves(t, u),
           IndexFits(t, disk, rows, halved)
    PROVE  IndexFits(u, disk', rows', halved')
<1> SUFFICES ASSUME ~halved PROVE IndexFits(u, disk', rows', halved')
  BY HalvedStays DEF IndexFits
<1>0. /\ HandFits(t) /\ (t.at # "rest" => t.from \in Slugs /\ t.to \in Slugs)
      /\ DOMAIN disk = Slugs /\ DOMAIN rows = Slugs /\ ~IsPage(None)
  BY InHand DEF SpineFits, IsPage
<1>1. CASE Ended(t, u)
  BY <1>1 DEF Ended, Unindexed, Untouched, IndexFits
<1>2. CASE StartMoves(t, u)
  BY <1>2 DEF StartMoves, AskedFor, SourceRead, SplitChecked, MergeChecked, Onward, FilesStay, Unindexed, IndexFits
<1>3. CASE SplitMoves(t, u)
  <2>1. t.at \in SplitPlaces
    BY <1>3 DEF SplitMoves, Wrote, Indexed, Told, SplitPlaces
  <2>2. /\ t.op = "split" /\ t.from \in Slugs /\ t.to \in Slugs /\ t.from # t.to
        /\ IsPage(TailOf(t.src, t.cut)) /\ IsPage(HeadOf(t.src, t.cut))
    BY <1>0, <2>1, InHand, PagesApart DEF HandFits, SplitPlaces, FilesFit, IsPage
  <2>3. CASE Wrote(t, u, "tail", t.to, TailOf(t.src, t.cut), "head")
    BY <1>0, <2>2, <2>3 DEF Wrote, Onward, Unindexed, IndexFits
  <2>4. CASE Wrote(t, u, "head", t.from, HeadOf(t.src, t.cut), "row tail")
    BY <1>0, <2>2, <2>4 DEF Wrote, Onward, Unindexed, IndexFits
  <2>5. CASE Indexed(t, u, "row tail", t.to, TailOf(t.src, t.cut), "row head")
    <3>1. disk[t.to] = TailOf(t.src, t.cut) /\ Unindexed(t) = {t.from, t.to} /\ Unindexed(u) = {t.from}
      BY <2>5 DEF Indexed, Onward, FilesFit, SplitPlaces, Unindexed
    <3> QED BY <1>0, <2>2, <2>5, <3>1 DEF Indexed, IndexFits
  <2>6. CASE Indexed(t, u, "row head", t.from, HeadOf(t.src, t.cut), "mark head")
    <3>1. disk[t.from] = HeadOf(t.src, t.cut) /\ Unindexed(t) = {t.from} /\ Unindexed(u) = {}
      BY <2>6 DEF Indexed, Onward, FilesFit, SplitPlaces, Unindexed
    <3> QED BY <1>0, <2>2, <2>6, <3>1 DEF Indexed, IndexFits
  <2>7. CASE Told(t, u, "mark head", t.from, Words(HeadOf(t.src, t.cut)), "mark tail")
    BY <2>7 DEF Told, Onward, Unindexed, IndexFits
  <2>8. CASE Told(t, u, "mark tail", t.to, Words(TailOf(t.src, t.cut)), "find")
    BY <2>8 DEF Told, Onward, Unindexed, IndexFits
  <2> QED BY <1>3, <2>3, <2>4, <2>5, <2>6, <2>7, <2>8 DEF SplitMoves
<1>4. CASE MergeMoves(t, u)
  <2>1. t.at \in MergePlaces
    BY <1>4 DEF MergeMoves, Wrote, Indexed, Told, Unpinned, MergePlaces
  <2>2. /\ t.op = "merge" /\ t.from \in Slugs /\ t.to \in Slugs /\ t.from # t.to
        /\ IsPage(Joined(t.dst, t.src))
    <3>1. Joined(t.dst, t.src) \in Pages
      BY <2>1, InHand
    <3> QED BY <1>0, <2>1, <3>1, PagesApart DEF HandFits, MergePlaces, FilesFit, IsPage
  <2>3. CASE Wrote(t, u, "join", t.to, Joined(t.dst, t.src), "row joined")
    BY <1>0, <2>2, <2>3 DEF Wrote, Onward, Unindexed, IndexFits
  <2>4. CASE Indexed(t, u, "row joined", t.to, Joined(t.dst, t.src), "unlink")
    <3>1. disk[t.to] = Joined(t.dst, t.src) /\ Unindexed(t) = {t.to} /\ Unindexed(u) = {}
      BY <2>4 DEF Indexed, Onward, FilesFit, MergePlaces, Unindexed
    <3> QED BY <1>0, <2>2, <2>4, <3>1 DEF Indexed, IndexFits
  <2>5. CASE Wrote(t, u, "unlink", t.from, None, "row gone")
    BY <1>0, <2>2, <2>5 DEF Wrote, Onward, Unindexed, IndexFits
  <2>6. CASE Indexed(t, u, "row gone", t.from, None, "unpin")
    <3>1. disk[t.from] = None /\ Unindexed(t) = {t.from} /\ Unindexed(u) = {}
      BY <2>2, <2>6 DEF Indexed, Onward, FilesFit, Unindexed
    <3> QED BY <1>0, <2>2, <2>6, <3>1 DEF Indexed, IndexFits
  <2>7. CASE Unpinned(t, u)
    BY <2>7 DEF Unpinned, Onward, Unindexed, IndexFits
  <2>8. CASE Told(t, u, "mark joined", t.to, Words(Joined(t.dst, t.src)), "mark gone")
    BY <2>8 DEF Told, Onward, Unindexed, IndexFits
  <2>9. CASE Told(t, u, "mark gone", t.from, None, "find")
    BY <2>9 DEF Told, Onward, Unindexed, IndexFits
  <2> QED BY <1>4, <2>3, <2>4, <2>5, <2>6, <2>7, <2>8, <2>9 DEF MergeMoves
<1>5. CASE ListMoves(t, u)
  <2>1. CASE Found(t, u) \/ ParentPassed(t, u) \/ ParentTaken(t, u)
    <3>1. t.at \in {"find", "next"} /\ u.at \in {"next", "rewrite"} /\ FilesStay
      BY <2>1 DEF Found, ParentPassed, ParentTaken, Sifted
    <3>2. Unindexed(t) = {} /\ Unindexed(u) = {}
      BY <3>1 DEF Unindexed
    <3> QED BY <3>1, <3>2 DEF FilesStay, IndexFits
  <2>2. CASE Wrote(t, u, "rewrite", t.parent, t.page, "row parent")
    <3>1. t.parent \in Slugs /\ Unindexed(t) = {} /\ Unindexed(u) = {t.parent}
      BY <2>2, InHand DEF Wrote, Onward, Unindexed
    <3> QED BY <1>0, <2>2, <3>1 DEF Wrote, IndexFits
  <2>3. CASE ParentIndexed(t, u)
    <3>1. /\ t.parent \in Slugs /\ IsPage(t.page) /\ disk[t.parent] = t.page
          /\ Unindexed(t) = {t.parent} /\ Unindexed(u) = {}
      BY <2>3, InHand, PagesApart DEF ParentIndexed, Onward, FilesFit, Unindexed, IsPage
    <3> QED BY <1>0, <2>3, <3>1 DEF ParentIndexed, IndexFits
  <2> QED BY <1>5, <2>1, <2>2, <2>3 DEF ListMoves
<1> QED BY <1>1, <1>2, <1>3, <1>4, <1>5 DEF Moves

\* The lists of pages are lists.
LEMMA NamedAre ==
    ASSUME NEW wiki \in [Slugs -> Files], NEW s, NEW p
    PROVE  p \in NamedIn(wiki, s) <=> p \in Slugs /\ wiki[p] \in Pages /\ wiki[p].parts \in Lists /\ s \in Range(wiki[p].parts)
<1>1. p \in Slugs => (IsPage(wiki[p]) <=> wiki[p] \in Pages)
  BY FilesArePages
<1>2. p \in Slugs /\ wiki[p] \in Pages => (wiki[p].parts # None <=> wiki[p].parts \in Lists)
  BY SpineNoList DEF Pages, Lists
<1> QED BY <1>1, <1>2 DEF NamedIn

LEMMA NamesFitMoves ==
    ASSUME SpineFits, NEW c \in Clients, NEW t, t = task[c], NEW u, FilesFit(t, disk), Moves(t, u),
           IndexFits(t, disk, rows, halved), NamesFit(t, disk, halved)
    PROVE  NamesFit(u, disk', halved')
<1>0. HandFits(t) /\ t \in Hands /\ (t.at # "rest" => t.from \in Slugs /\ t.to \in Slugs) /\ disk \in [Slugs -> Files]
  BY InHand DEF SpineFits
<1>1. CASE ~ListMoves(t, u)
  <2>1. u.at \notin {"next", "rewrite", "row parent"}
    BY <1>1 DEF Moves, StartMoves, SplitMoves, MergeMoves, Ended, AskedFor, SourceRead, SplitChecked, MergeChecked,
                Wrote, Indexed, Told, Unpinned, Onward
  <2> QED BY <2>1 DEF NamesFit
<1>2. CASE ListMoves(t, u)
  <2> SUFFICES ASSUME t.op = "merge" PROVE NamesFit(u, disk', halved')
    BY <1>2 DEF ListMoves, Found, ParentPassed, ParentTaken, Wrote, ParentIndexed, Sifted, Onward, NamesFit
  <2>0. t.from \in Slugs /\ t.to \in Slugs
    BY <1>0, <1>2 DEF ListMoves, Found, ParentPassed, ParentTaken, Wrote, ParentIndexed
  <2>1. CASE Found(t, u)
    <3>1. t.at = "find" /\ u.at = "next" /\ u.op = t.op /\ u.from = t.from /\ u.todo = ParentsNaming(t.from) /\ FilesStay
      BY <2>1 DEF Found, Sifted
    <3>2. ASSUME NEW p \in NamedIn(disk, t.from), ~halved PROVE p \in ParentsNaming(t.from)
      <4>1. p \in Slugs /\ disk[p] \in Pages /\ disk[p].parts \in Lists /\ t.from \in Range(disk[p].parts)
        BY <1>0, <3>2, NamedAre
      <4>2. Unindexed(t) = {}
        BY <3>1 DEF Unindexed
      <4>3. rows[p] = disk[p]
        BY <1>0, <3>2, <4>1, <4>2, FilesArePages DEF IndexFits
      <4> QED BY <4>1, <4>3, PagesApart, SpineNoList DEF ParentsNaming, Lists
    <3> QED BY <3>1, <3>2 DEF NamesFit, FilesStay
  <2>2. CASE ParentPassed(t, u)
    <3>1. t.at = "next" /\ u.at = "next" /\ u.op = t.op /\ u.from = t.from /\ FilesStay
      BY <2>2 DEF ParentPassed, Sifted
    <3>2. PICK p \in t.todo : ~Changes(t, p) /\ u.todo = t.todo \ {p}
      BY <2>2 DEF ParentPassed, Sifted
    <3>3. ASSUME NEW q \in NamedIn(disk, t.from) PROVE halved \/ ~Readable(disk[q]) \/ q \in u.todo
      <4>1. halved \/ ~Readable(disk[q]) \/ q \in t.todo
        BY <3>1 DEF NamesFit
      <4>2. CASE q = p /\ Readable(disk[p])
        <5>1. disk[p].parts \in Lists /\ t.from \in Range(disk[p].parts)
          BY <1>0, <3>3, <4>2, NamedAre
        <5>2. Rewritten(t, disk[p].parts) = None
          BY <3>2, <4>2, <5>1, SpineNoList DEF Changes, Lists
        <5> QED BY <1>0, <5>1, <5>2, RewrittenIsNone
      <4> QED BY <3>2, <4>1, <4>2
    <3> QED BY <3>1, <3>3 DEF NamesFit, FilesStay
  <2>3. CASE ParentTaken(t, u)
    <3>1. PICK p \in t.todo, kept \in Pages :
            /\ Changes(t, p) /\ disk[p] \in Pages /\ Sifted(t, u, "rewrite", t.todo \ {p}) /\ p \in Slugs
            /\ kept = [disk[p] EXCEPT !.parts = Rewritten(t, disk[p].parts)] /\ u.parent = p /\ u.page = kept
      BY <2>3 DEF ParentTaken
    <3>2. /\ t.at = "next" /\ u.at = "rewrite" /\ u.op = t.op /\ u.from = t.from /\ u.todo = t.todo \ {p} /\ FilesStay
      BY <2>3, <3>1 DEF ParentTaken, Sifted
    <3>3. kept.parts = Rewritten(t, disk[p].parts) /\ disk[p].parts \in Lists /\ kept.parts # None
      BY <3>1 DEF Changes, Pages, Lists
    <3>4. t.from \notin Range(kept.parts)
      BY <1>0, <2>0, <3>3, RewrittenIsList
    <3>5. ASSUME NEW q \in NamedIn(disk, t.from)
          PROVE  halved \/ ~Readable(disk[q]) \/ q \in u.todo \/ (u.at = "rewrite" /\ q = u.parent)
      BY <3>1, <3>2 DEF NamesFit
    <3> QED BY <3>1, <3>2, <3>3, <3>4, <3>5 DEF NamesFit, FilesStay
  <2>4. CASE Wrote(t, u, "rewrite", t.parent, t.page, "row parent")
    <3>1. /\ t.at = "rewrite" /\ u.at = "row parent" /\ u.op = t.op /\ u.from = t.from /\ u.todo = t.todo
          /\ disk' = [disk EXCEPT ![t.parent] = t.page] /\ halved' = halved
      BY <2>4 DEF Wrote, Onward
    <3>2. t.parent \in Slugs /\ t.page \in Pages /\ t.from \notin Range(t.page.parts)
      BY <1>0, <3>1 DEF HandFits, NamesFit
    <3>3. disk' \in [Slugs -> Files]
      BY <1>0, <3>1, <3>2 DEF Files
    <3>4. disk'[t.parent] = t.page /\ \A q \in Slugs \ {t.parent} : disk'[q] = disk[q]
      BY <1>0, <3>1, <3>2
    <3>5. ASSUME NEW q \in NamedIn(disk', t.from) PROVE halved \/ ~Readable(disk'[q]) \/ q \in t.todo
      <4>1. q \in Slugs /\ disk'[q] \in Pages /\ disk'[q].parts \in Lists /\ t.from \in Range(disk'[q].parts)
        BY <3>3, <3>5, NamedAre
      <4>2. q # t.parent
        BY <3>2, <3>4, <4>1
      <4>3. disk'[q] = disk[q]
        BY <3>4, <4>1, <4>2
      <4>4. q \in NamedIn(disk, t.from)
        BY <1>0, <4>1, <4>3, NamedAre
      <4> QED BY <3>1, <4>2, <4>3, <4>4 DEF NamesFit
    <3> QED BY <3>1, <3>5 DEF NamesFit
  <2>5. CASE ParentIndexed(t, u)
    BY <2>5 DEF ParentIndexed, Onward, NamesFit
  <2> QED BY <1>2, <2>1, <2>2, <2>3, <2>4, <2>5 DEF ListMoves
<1> QED BY <1>1, <1>2

-----------------------------------------------------------------------------
(* Together.                                                               *)

OneClient == \E c : Clients = {c}

AloneFits(t, wiki, index, sums, pinned, late, broken) ==
    /\ FilesFit(t, wiki) /\ RowsFit(t, wiki, index, pinned) /\ TotalsFit(late \cup Untold(t), wiki, index, sums)
    /\ IndexFits(t, wiki, index, broken) /\ NamesFit(t, wiki, broken)
    /\ FirstApart => broken \/ Apart(Settled(t, wiki))
AloneInv ==
    /\ SpineFits /\ NoTextLost
    /\ \A c \in Clients : AloneFits(task[c], disk, rows, total, pins, unmarked, halved)

LEMMA AloneStarts == ManuscriptInit => AloneInv
<1> SUFFICES ASSUME ManuscriptInit PROVE AloneInv
  OBVIOUS
<1>1. SpineFits
  BY ManuscriptStarts DEF ManuscriptFits
<1>2. NoTextLost
  BY DEF ManuscriptInit, SpineInit, NoTextLost
<1>3. ASSUME NEW c \in Clients PROVE AloneFits(task[c], disk, rows, total, pins, unmarked, halved)
  <2>1. PICK t : t = task[c]
    OBVIOUS
  <2>2. t.at = "rest" /\ t.op = "none"
    BY <2>1 DEF ManuscriptInit, SpineInit, Rest
  <2>3. FilesFit(t, disk) /\ RowsFit(t, disk, rows, pins) /\ NamesFit(t, disk, halved)
    BY <2>2 DEF FilesFit, RowsFit, NamesFit, SplitPlaces, MergePlaces, ListPlaces
  <2>4. IndexFits(t, disk, rows, halved) /\ TotalsFit(unmarked \cup Untold(t), disk, rows, total)
    <3>1. \A s \in Slugs : /\ rows[s] = IF IsPage(disk[s]) THEN disk[s] ELSE None
                           /\ total[s] = IF IsPage(disk[s]) THEN Words(disk[s]) ELSE None
      BY DEF ManuscriptInit, SpineInit
    <3> QED BY <3>1 DEF IndexFits, TotalsFit, IsPage
  <2>5. FirstApart => Apart(Settled(t, disk))
    BY <2>2 DEF Settled, FirstApart, ManuscriptInit, SpineInit
  <2> QED BY <2>1, <2>3, <2>4, <2>5 DEF AloneFits
<1> QED BY <1>1, <1>2, <1>3 DEF AloneInv

LEMMA AloneSpineStep ==
    ASSUME OneClient, AloneInv, NEW c \in Clients, SpineStep(c) PROVE AloneInv'
<1>1. SpineFits /\ SpineFits' /\ Clients = {c}
  BY SpineFitsStep DEF AloneInv, SpineNext, OneClient
<1>2. PICK t, u : t = task[c] /\ u = task'[c]
  OBVIOUS
<1>3. AloneFits(t, disk, rows, total, pins, unmarked, halved)
  BY <1>2 DEF AloneInv
<1>4. FilesFit(t, disk)
  BY <1>3 DEF AloneFits
<1>5. Moves(t, u) /\ first' = first
  BY <1>1, <1>2, <1>4, StepIs
<1>6. FilesFit(u, disk') /\ RowsFit(u, disk', rows', pins')
  BY <1>1, <1>2, <1>3, <1>5, FilesFitMoves, RowsFitMoves DEF AloneFits
<1>7. TotalsFit(unmarked' \cup Untold(u), disk', rows', total')
  BY <1>1, <1>2, <1>3, <1>5, TotalsFitMoves DEF AloneFits
<1>8. IndexFits(u, disk', rows', halved') /\ NamesFit(u, disk', halved')
  BY <1>1, <1>2, <1>3, <1>5, IndexFitsMoves, NamesFitMoves DEF AloneFits
<1>9. FirstApart => halved' \/ Apart(Settled(u, disk'))
  BY <1>1, <1>2, <1>3, <1>5, ApartStays DEF AloneFits
<1>10. TextsIn(first') \subseteq TextsIn(disk')
  BY <1>1, <1>2, <1>4, <1>5, TextsStay DEF AloneInv, NoTextLost
<1>11. AloneFits(u, disk', rows', total', pins', unmarked', halved')
  BY <1>6, <1>7, <1>8, <1>9 DEF AloneFits
<1> QED BY <1>1, <1>2, <1>10, <1>11 DEF AloneInv, NoTextLost

LEMMA AloneRestart ==
    ASSUME AloneInv, Restart PROVE AloneInv'
<1>1. SpineFits /\ SpineFits'
  BY SpineFitsStep DEF AloneInv, SpineNext
<1>2. NoTextLost'
  BY DEF AloneInv, NoTextLost, Restart
<1>3. ASSUME NEW c \in Clients PROVE AloneFits(task'[c], disk', rows', total', pins', unmarked', halved')
  <2>1. PICK t, u : t = task[c] /\ u = task'[c]
    OBVIOUS
  <2>2. u.at = "rest" /\ u.op = "none" /\ disk' = disk
    BY <2>1 DEF Restart, Rest
  <2>3. FilesFit(u, disk') /\ RowsFit(u, disk', rows', pins') /\ NamesFit(u, disk', halved')
    BY <2>2 DEF FilesFit, RowsFit, NamesFit, SplitPlaces, MergePlaces, ListPlaces
  <2>4. AloneFits(t, disk, rows, total, pins, unmarked, halved)
    BY <2>1 DEF AloneInv
  <2>5. \A s \in Slugs : /\ rows'[s] = IF IsPage(disk[s]) THEN disk[s] ELSE None
                         /\ total'[s] = IF IsPage(disk[s]) /\ rows[s] # disk[s] THEN Words(disk[s])
                                        ELSE IF disk[s] = None /\ rows[s] # None THEN None ELSE total[s]
    BY DEF Restart, Weighed, Vanished
  <2>6. IndexFits(u, disk', rows', halved')
    BY <2>2, <2>5 DEF IndexFits
  <2>7. ASSUME NEW s \in Slugs \ unmarked'
        PROVE  /\ rows'[s] # None => total'[s] = Words(rows'[s])
               /\ disk[s] = None => rows'[s] = None /\ total'[s] = None
    <3>1. CASE IsPage(disk[s]) /\ rows[s] # disk[s]
      BY <2>5, <3>1 DEF IsPage
    <3>2. CASE disk[s] = None /\ rows[s] # None
      BY <2>5, <3>2 DEF IsPage
    <3>3. CASE ~(IsPage(disk[s]) /\ rows[s] # disk[s]) /\ ~(disk[s] = None /\ rows[s] # None)
      <4>1. s \notin unmarked \cup Untold(t)
        BY <2>1, <2>7, <3>3 DEF Restart, Weighed, Vanished
      <4>2. /\ rows[s] # None => total[s] = Words(rows[s])
            /\ disk[s] = None => rows[s] = None /\ total[s] = None
        BY <2>4, <4>1 DEF AloneFits, TotalsFit
      <4> QED BY <2>5, <3>3, <4>2 DEF IsPage
    <3> QED BY <3>1, <3>2, <3>3
  <2>8. TotalsFit(unmarked' \cup Untold(u), disk', rows', total')
    BY <2>2, <2>7 DEF TotalsFit
  <2>9. FirstApart => halved' \/ Apart(Settled(u, disk'))
    <3>1. halved' \/ (~halved /\ t.at \in Untouched)
      BY <2>1 DEF Restart, Halfway
    <3> QED BY <2>2, <2>4, <3>1 DEF AloneFits, Settled, Untouched
  <2> QED BY <2>1, <2>3, <2>6, <2>8, <2>9 DEF AloneFits
<1> QED BY <1>1, <1>2, <1>3 DEF AloneInv

LEMMA AloneWatch ==
    ASSUME AloneInv, NEW s \in Slugs, Watch(s) PROVE AloneInv'
<1>1. SpineFits /\ SpineFits' /\ disk' = disk /\ pins' = pins /\ task' = task /\ halved' = halved /\ first' = first
  BY SpineFitsStep DEF AloneInv, SpineNext, Watch
<1>2. NoTextLost'
  BY <1>1 DEF AloneInv, NoTextLost
<1>3. PICK row : row = IF IsPage(disk[s]) THEN disk[s] ELSE None
  OBVIOUS
<1>4. rows' = [rows EXCEPT ![s] = row] /\ rows[s] # row /\ unmarked' = unmarked \ {s}
  BY <1>3 DEF Watch
<1>5. /\ DOMAIN rows = Slugs /\ DOMAIN total = Slugs
      /\ rows'[s] = row /\ \A q \in Slugs \ {s} : rows'[q] = rows[q] /\ total'[q] = total[q]
      /\ IsPage(disk[s]) => total'[s] = Words(disk[s])
      /\ disk[s] = None => total'[s] = None
  BY <1>1, <1>4 DEF Watch, SpineFits, IsPage
<1>6. ASSUME NEW c \in Clients PROVE AloneFits(task[c], disk, rows', total', pins, unmarked', halved)
  <2>1. PICK t : t = task[c]
    OBVIOUS
  <2>2. AloneFits(t, disk, rows, total, pins, unmarked, halved) /\ HandFits(t)
    BY <2>1, InHand, <1>1 DEF AloneInv
  <2>3. t.at # "rest" => t.from \in Slugs /\ t.to \in Slugs
    BY <2>2 DEF HandFits
  <2>4. RowsFit(t, disk, rows', pins)
    <3>1. ASSUME t.at \in {"row head", "mark head", "mark tail", "unlink", "row gone", "unpin", "mark joined"}
          PROVE  rows'[t.to] = disk[t.to]
      <4>1. rows[t.to] = disk[t.to] /\ IsPage(disk[t.to])
        <5>1. rows[t.to] = disk[t.to]
          BY <2>2, <3>1 DEF AloneFits, RowsFit
        <5>2. disk[t.to] \in Pages
          BY <1>1, <2>1, <2>2, <3>1, InHand DEF AloneFits, FilesFit, SplitPlaces, MergePlaces
        <5> QED BY <5>1, <5>2, PagesApart DEF IsPage
      <4> QED BY <1>3, <1>5, <2>3, <3>1, <4>1
    <3>2. t.at = "mark head" => rows'[t.from] = disk[t.from]
      <4> SUFFICES ASSUME t.at = "mark head" PROVE rows'[t.from] = disk[t.from]
        OBVIOUS
      <4>1. rows[t.from] = disk[t.from] /\ disk[t.from] \in Pages
        BY <1>1, <2>1, <2>2, InHand DEF AloneFits, RowsFit, FilesFit, SplitPlaces
      <4> QED BY <1>3, <1>5, <2>3, <4>1, PagesApart DEF IsPage
    <3>3. ASSUME t.op = "merge", t.at \in {"unpin", "mark joined", "mark gone"} \cup ListPlaces
          PROVE  rows'[t.from] = None
      <4>1. rows[t.from] = None /\ disk[t.from] = None /\ t.from \in Slugs
        BY <2>2, <2>3, <3>3 DEF AloneFits, RowsFit, FilesFit, ListPlaces
      <4> QED BY <1>3, <1>5, <4>1 DEF IsPage
    <3> QED BY <2>2, <3>1, <3>2, <3>3 DEF AloneFits, RowsFit
  <2>5. TotalsFit(unmarked' \cup Untold(t), disk, rows', total')
    <3> SUFFICES ASSUME NEW q \in Slugs \ (unmarked' \cup Untold(t))
                 PROVE  /\ rows'[q] # None => total'[q] = Words(rows'[q])
                        /\ disk[q] = None => rows'[q] = None /\ total'[q] = None
      BY DEF TotalsFit
    <3>1. CASE q = s
      BY <1>3, <1>5, <3>1 DEF IsPage
    <3>2. CASE q # s
      <4>1. q \notin unmarked \cup Untold(t)
        BY <1>4, <3>2
      <4> QED BY <1>5, <2>2, <3>2, <4>1 DEF AloneFits, TotalsFit
    <3> QED BY <3>1, <3>2
  <2>6. IndexFits(t, disk, rows', halved)
    BY <1>3, <1>5, <2>2 DEF AloneFits, IndexFits
  <2> QED BY <2>1, <2>2, <2>4, <2>5, <2>6 DEF AloneFits
<1> QED BY <1>1, <1>2, <1>6 DEF AloneInv

LEMMA AloneStep ==
    ASSUME OneClient, AloneInv, [ManuscriptNext]_manuscriptVars PROVE AloneInv'
<1>1. CASE SpineNext
  BY <1>1, AloneSpineStep, AloneRestart, AloneWatch DEF SpineNext
<1>2. CASE (CompileStep /\ UNCHANGED besideFiles) \/ UNCHANGED manuscriptVars
  <2>1. UNCHANGED <<disk, rows, total, pins, task, first, halved, unmarked>>
    BY <1>2, CompilesReadOnly DEF besideFiles, manuscriptVars
  <2> QED BY <2>1 DEF AloneInv, SpineFits, NoTextLost
<1> QED BY <1>1, <1>2 DEF ManuscriptNext

\* With one request at a time a text that was in the wiki is never in no place,
\* each is in one place once every split and merge has run to its end, and the
\* log has every page's length but where a marker of it was lost or never
\* reached: however often a write fails, the process stops or the watcher looks.
THEOREM KeepsTheTexts ==
    ASSUME OneClient, FirstApart PROVE ManuscriptSpec => []TextsAreKept
<1>1. AloneInv /\ [ManuscriptNext]_manuscriptVars => AloneInv'
  BY AloneStep
<1>2. AloneInv => TextsAreKept
  <2> SUFFICES ASSUME AloneInv PROVE TextsOnce /\ SeriesTellLengths
    BY DEF AloneInv, TextsAreKept
  <2>1. PICK c : Clients = {c}
    BY DEF OneClient
  <2>2. PICK t : t = task[c]
    OBVIOUS
  <2>3. AloneFits(t, disk, rows, total, pins, unmarked, halved) /\ disk \in [Slugs -> Files]
    BY <2>1, <2>2 DEF AloneInv, SpineFits
  <2>4. ASSUME AtRest, ~halved PROVE Apart(disk)
    BY <2>1, <2>2, <2>3, <2>4 DEF AtRest, At, AloneFits, Settled
  <2>5. TextsOnce
    <3> SUFFICES ASSUME AtRest, ~halved
                 PROVE  \A s \in Slugs : Cardinality(TextsOf(disk[s])) = IF IsPage(disk[s]) THEN Words(disk[s]) ELSE 0
      BY <2>4 DEF TextsOnce, Apart
    <3> SUFFICES ASSUME NEW s \in Slugs
                 PROVE  Cardinality(TextsOf(disk[s])) = IF IsPage(disk[s]) THEN Words(disk[s]) ELSE 0
      OBVIOUS
    <3>1. CASE IsPage(disk[s])
      <4>1. disk[s] \in Pages /\ Single(disk[s].body)
        BY <2>3, <2>4, <3>1, FilesArePages DEF Apart
      <4> QED BY <3>1, <4>1, SinglesCount
    <3>2. CASE ~IsPage(disk[s])
      BY <3>2, FS_EmptySet DEF TextsOf
    <3> QED BY <3>1, <3>2
  <2>6. SeriesTellLengths
    <3> SUFFICES ASSUME AtRest, NEW s \in Slugs \ unmarked
                 PROVE  /\ IsPage(disk[s]) /\ rows[s] = disk[s] => total[s] = Words(disk[s])
                        /\ disk[s] = None /\ rows[s] = None => total[s] = None
      BY DEF SeriesTellLengths
    <3>1. Untold(t) = {}
      BY <2>1, <2>2 DEF AtRest, At, Untold
    <3> QED BY <2>3, <3>1 DEF AloneFits, TotalsFit, IsPage
  <2> QED BY <2>5, <2>6
<1> QED BY <1>1, <1>2, AloneStarts, PTL DEF ManuscriptSpec

\* With one request at a time a merge that has run to its end leaves nothing of
\* the page behind: no file, row, pin or total, and no entry in a list that
\* whoever merged may read, whatever the wiki was.
THEOREM MergesAreClean ==
    ASSUME OneClient PROVE ManuscriptSpec => NothingLeftBehind
<1> DEFINE Leaves == \A c \in Clients :
                        LET t == task[c] IN
                        (t.op = "merge" /\ t.at = "next" /\ t.todo = {} /\ task'[c].at = "rest") =>
                          /\ disk[t.from] = None /\ rows[t.from] = None /\ t.from \notin pins
                          /\ t.from \notin unmarked => total[t.from] = None
                          /\ \A p \in NamedIn(disk, t.from) : halved \/ ~Readable(disk[p])
<1>1. AloneInv /\ [ManuscriptNext]_manuscriptVars => AloneInv'
  BY AloneStep
<1>2. AloneInv => Leaves
  <2> SUFFICES ASSUME AloneInv, NEW c \in Clients, NEW t, t = task[c],
                      t.op = "merge", t.at = "next", t.todo = {}
               PROVE  /\ disk[t.from] = None /\ rows[t.from] = None /\ t.from \notin pins
                      /\ t.from \notin unmarked => total[t.from] = None
                      /\ \A p \in NamedIn(disk, t.from) : halved \/ ~Readable(disk[p])
    OBVIOUS
  <2>1. AloneFits(t, disk, rows, total, pins, unmarked, halved) /\ t.from \in Slugs /\ Untold(t) = {}
    BY InHand DEF AloneInv, Untold
  <2>2. disk[t.from] = None /\ rows[t.from] = None /\ t.from \notin pins
    BY <2>1 DEF AloneFits, FilesFit, RowsFit, ListPlaces
  <2>3. t.from \notin unmarked => total[t.from] = None
    BY <2>1, <2>2 DEF AloneFits, TotalsFit
  <2>4. \A p \in NamedIn(disk, t.from) : halved \/ ~Readable(disk[p])
    BY <2>1 DEF AloneFits, NamesFit
  <2> QED BY <2>2, <2>3, <2>4
<1>3. ManuscriptSpec => [][Leaves]_manuscriptVars
  BY <1>1, <1>2, AloneStarts, PTL DEF ManuscriptSpec
<1> QED BY <1>3 DEF NothingLeftBehind

-----------------------------------------------------------------------------
(* Who may read.                                                           *)

\* What everybody may read of a file.
OpenOf(file) == IF IsPage(file) /\ file.readers = "all" THEN TextsOf(file) ELSE {}

LEMMA OpenWith ==
    ASSUME NEW wiki, DOMAIN wiki = Slugs, NEW s \in Slugs, NEW file, NEW new, new = [wiki EXCEPT ![s] = file],
           NEW other \in Slugs, OpenOf(file) \subseteq OpenOf(wiki[other])
    PROVE  OpenTexts(new) \subseteq OpenTexts(wiki)
<1>1. new[s] = file /\ \A q \in Slugs \ {s} : new[q] = wiki[q]
  OBVIOUS
<1>2. \A q \in Slugs : \E r \in Slugs : OpenOf(new[q]) \subseteq OpenOf(wiki[r])
  BY <1>1
<1>3. ASSUME NEW x, x \in OpenTexts(new) PROVE x \in OpenTexts(wiki)
  <2>1. PICK q \in Slugs : x \in OpenOf(new[q])
    BY <1>3 DEF OpenTexts, OpenOf
  <2>2. PICK r \in Slugs : x \in OpenOf(wiki[r])
    BY <1>2, <2>1
  <2> QED BY <2>2 DEF OpenTexts, OpenOf
<1> QED BY <1>3

\* With one request at a time no step but a merge's own writing puts a text
\* before readers it was not open to: a tail inherits who may read it, and a
\* list that is rewritten keeps its page's readers.
THEOREM SplitsAreDiscreet ==
    ASSUME OneClient PROVE ManuscriptSpec => SplitsPublishNothing
<1> DEFINE Publishes == (\A c \in Clients : task[c].at # "join") => OpenTexts(disk') \subseteq OpenTexts(disk)
<1>1. AloneInv /\ [ManuscriptNext]_manuscriptVars => AloneInv'
  BY AloneStep
<1>2. AloneInv /\ [ManuscriptNext]_manuscriptVars => Publishes
  <2> SUFFICES ASSUME AloneInv, [ManuscriptNext]_manuscriptVars, \A c \in Clients : task[c].at # "join", disk' # disk
               PROVE  OpenTexts(disk') \subseteq OpenTexts(disk)
    OBVIOUS
  <2>1. PICK c \in Clients : SpineStep(c)
    BY CompilesReadOnly DEF ManuscriptNext, SpineNext, Restart, Watch, manuscriptVars
  <2>2. PICK t, u : t = task[c] /\ u = task'[c]
    OBVIOUS
  <2>3. SpineFits /\ FilesFit(t, disk) /\ t.at # "join" /\ DOMAIN disk = Slugs
    BY <2>2 DEF AloneInv, AloneFits, SpineFits
  <2>4. Writes(t, u)
    BY <2>1, <2>2, <2>3, StepIs, WritesAre
  <2>5. PICK wiki, after, head, tail :
          wiki = disk /\ after = disk' /\ head = HeadOf(t.src, t.cut) /\ tail = TailOf(t.src, t.cut)
    OBVIOUS
  <2>6. ASSUME NEW s \in Slugs, NEW file, after = [wiki EXCEPT ![s] = file],
               NEW other \in Slugs, OpenOf(file) \subseteq OpenOf(wiki[other])
        PROVE  OpenTexts(disk') \subseteq OpenTexts(disk)
    <3>1. DOMAIN wiki = Slugs
      BY <2>3, <2>5
    <3>2. OpenTexts(after) \subseteq OpenTexts(wiki)
      BY <2>6, <3>1, OpenWith
    <3> QED BY <2>5, <3>2
  <2>7. ASSUME t.at \in {"tail", "head"}
        PROVE  /\ t.from \in Slugs /\ t.to \in Slugs /\ OpenOf(head) \subseteq OpenOf(wiki[t.from])
               /\ OpenOf(tail) \subseteq OpenOf(wiki[t.from])
    <3>1. /\ t.from \in Slugs /\ t.to \in Slugs /\ t.src = wiki[t.from]
          /\ t.src \in Pages /\ t.cut \in Nat /\ Divides(t.src.body, t.cut)
      BY <2>2, <2>3, <2>5, <2>7, AtWriting
    <3>2. /\ head.readers = t.src.readers /\ tail.readers = t.src.readers
          /\ TextsOf(head) \cup TextsOf(tail) = TextsOf(t.src)
      BY <2>5, <3>1, HalvesTexts
    <3> QED BY <3>1, <3>2, PagesApart DEF OpenOf, IsPage
  <2>8. CASE Wrote(t, u, "tail", t.to, TailOf(t.src, t.cut), "head")
    <3>1. t.at = "tail" /\ after = [wiki EXCEPT ![t.to] = tail]
      BY <2>5, <2>8 DEF Wrote
    <3> QED BY <2>6, <2>7, <3>1
  <2>9. CASE Wrote(t, u, "head", t.from, HeadOf(t.src, t.cut), "row tail")
    <3>1. t.at = "head" /\ after = [wiki EXCEPT ![t.from] = head]
      BY <2>5, <2>9 DEF Wrote
    <3> QED BY <2>6, <2>7, <3>1
  <2>10. CASE Wrote(t, u, "unlink", t.from, None, "row gone")
    <3>1. t.from \in Slugs /\ after = [wiki EXCEPT ![t.from] = None]
      BY <2>2, <2>3, <2>5, <2>10, AtWriting DEF Wrote
    <3>2. OpenOf(None) \subseteq OpenOf(wiki[t.from])
      BY DEF OpenOf, IsPage
    <3> QED BY <2>6, <3>1, <3>2
  <2>11. CASE Wrote(t, u, "rewrite", t.parent, t.page, "row parent")
    <3>1. /\ t.parent \in Slugs /\ after = [wiki EXCEPT ![t.parent] = t.page] /\ t.page \in Pages
          /\ wiki[t.parent] \in Pages /\ t.page.body = wiki[t.parent].body
          /\ t.page.readers = wiki[t.parent].readers
      BY <2>2, <2>3, <2>5, <2>11, AtWriting DEF Wrote
    <3>2. OpenOf(t.page) \subseteq OpenOf(wiki[t.parent])
      BY <3>1, PagesApart DEF OpenOf, TextsOf, IsPage
    <3> QED BY <2>6, <3>1, <3>2
  <2> QED BY <2>3, <2>4, <2>8, <2>9, <2>10, <2>11 DEF Writes, Wrote
<1>3. ManuscriptSpec => [][Publishes]_manuscriptVars
  BY <1>1, <1>2, AloneStarts, PTL DEF ManuscriptSpec
<1> QED BY <1>3 DEF SplitsPublishNothing
=============================================================================
