--------------------------- MODULE FileServerProofs ---------------------------
(***************************************************************************)
(* Proofs about FileServer for every number of slots, connections, names   *)
(* and bodies, with or without power cuts.                                 *)
(***************************************************************************)
EXTENDS FileServer, FiniteSetTheorems, FunctionTheorems, SequenceTheorems,
        WellFoundedInduction, TLAPS

(***************************************************************************)
(* The operators of AppFs, for every size of the partition: what listing   *)
(* returns, and that creating, deleting, writing and renaming turn a well- *)
(* formed table into a well-formed table.                                  *)
(***************************************************************************)

File(N, P) == [name : N, slots : SUBSET Slots, data : Seq(P)]

\* A table of files with names in N and content in P: the handle is one of the
\* file's slots, there is one part for every slot, names are unique and no
\* slot belongs to two files.
IsTable(t, N, P) ==
  /\ DOMAIN t \subseteq Slots
  /\ t \in [DOMAIN t -> File(N, P)]
  /\ \A h \in DOMAIN t : h \in t[h].slots /\ Len(t[h].data) = Cardinality(t[h].slots)
  /\ \A g, h \in DOMAIN t : t[g].name = t[h].name => g = h
  /\ \A g, h \in DOMAIN t : g # h => t[g].slots \cap t[h].slots = {}

(***************************************************************************)
(* Sets of numbers.                                                        *)
(***************************************************************************)

\* Every non-empty set of naturals has a least element: the finite initial
\* segments are well-founded.
LEMMA LeastNat ==
  ASSUME NEW T \in SUBSET Nat, T # {} PROVE \E x \in T : \A y \in T : x <= y
<1> DEFINE B == {0..(x-1) : x \in T}
<1>1. B \subseteq FiniteSubsetsOf(Nat) /\ B # {}
  <2>1. \A x \in T : 0..(x-1) \subseteq Nat /\ IsFiniteSet(0..(x-1))
    BY FS_Interval
  <2> QED BY <2>1 DEF FiniteSubsetsOf
<1>2. PICK b \in B : \A d \in B : <<d, b>> \notin StrictSubsetOrdering(Nat)
  <2>1. IsWellFoundedOn(StrictSubsetOrdering(Nat), FiniteSubsetsOf(Nat))
    BY FS_StrictSubsetOrderingWellFounded
  <2> HIDE DEF B
  <2> QED BY <1>1, <2>1, WFMin
<1>3. PICK x \in T : b = 0..(x-1)
  BY <1>2
<1>4. ASSUME NEW y \in T, y < x PROVE FALSE
  <2>1. 0..(y-1) \in B /\ 0..(y-1) \subseteq b /\ 0..(y-1) # b /\ b \subseteq Nat
    BY <1>3, <1>4
  <2>2. <<0..(y-1), b>> \in StrictSubsetOrdering(Nat)
    BY <2>1 DEF StrictSubsetOrdering
  <2> QED BY <1>2, <2>1, <2>2
<1> QED BY <1>4

LEMMA SlotsFacts == Slots \subseteq Nat /\ IsFiniteSet(Slots) /\ INVALID \notin Slots
  BY NumSlotsAssumption, FS_Interval DEF Slots, INVALID

LEMMA LowestIs ==
  ASSUME NEW S \in SUBSET Slots, S # {}
  PROVE  Lowest(S) \in S /\ \A y \in S : Lowest(S) <= y
<1>1. \E x \in S : \A y \in S : x <= y
  BY LeastNat, SlotsFacts
<1> QED BY <1>1 DEF Lowest

\* appfsNextEntry returns the next handle in use, or INVALID after the last.
LEMMA NextEntryIs ==
  ASSUME NEW t, DOMAIN t \subseteq Slots, NEW h \in Int
  PROVE  \/ NextEntry(t, h) = INVALID /\ \A x \in DOMAIN t : x <= h
         \/ /\ NextEntry(t, h) \in DOMAIN t /\ NextEntry(t, h) > h
            /\ \A x \in DOMAIN t : x > h => NextEntry(t, h) <= x
<1> DEFINE later == {x \in DOMAIN t : x > h}
<1>1. CASE later = {}
  <2>1. NextEntry(t, h) = INVALID
    BY <1>1 DEF NextEntry
  <2>2. ASSUME NEW x \in DOMAIN t PROVE x <= h
    <3>1. x \in Nat /\ x \notin later
      BY <1>1, SlotsFacts
    <3> QED BY <3>1
  <2> QED BY <2>1, <2>2
<1>2. CASE later # {}
  <2>1. NextEntry(t, h) = Lowest(later)
    BY <1>2 DEF NextEntry
  <2>2. Lowest(later) \in later /\ \A y \in later : Lowest(later) <= y
    BY <1>2, LowestIs
  <2> QED BY <2>1, <2>2
<1> QED BY <1>1, <1>2

\* The len lowest members of a set of slots are len many: the number of
\* smaller members numbers the set without gaps.
LEMMA LowestMembers ==
  ASSUME NEW S \in SUBSET Slots, NEW len \in Nat \ {0}, Cardinality(S) >= len
  PROVE  LET taken == {s \in S : Cardinality({x \in S : x < s}) < len}
         IN  Cardinality(taken) = len /\ S # {} /\ Lowest(S) \in taken
<1> DEFINE Below(s) == {x \in S : x < s}
           rank == [s \in S |-> Cardinality(Below(s))]
           n == Cardinality(S)
           taken == {s \in S : Cardinality(Below(s)) < len}
<1>0. S \subseteq Nat /\ IsFiniteSet(S) /\ n \in Nat
  BY SlotsFacts, FS_Subset, FS_CardinalityType
<1>1. ASSUME NEW s \in S PROVE Cardinality(Below(s)) \in 0..(n-1)
  <2>1. Below(s) \in SUBSET S /\ s \notin Below(s)
    BY <1>0
  <2>2. IsFiniteSet(Below(s)) /\ Cardinality(Below(s)) <= n /\ Cardinality(Below(s)) # n
    <3> HIDE DEF Below
    <3> QED BY <1>0, <2>1, FS_Subset
  <2>3. Cardinality(Below(s)) \in Nat
    BY <2>2, FS_CardinalityType
  <2> QED BY <1>0, <2>2, <2>3
<1>2. ASSUME NEW s \in S, NEW t \in S, s < t
      PROVE  Cardinality(Below(s)) < Cardinality(Below(t))
  <2>1. /\ Below(s) \in SUBSET Below(t) /\ Below(t) \in SUBSET S
        /\ s \in Below(t) /\ s \notin Below(s)
    <3>1. s \in Nat /\ t \in Nat /\ \A x \in S : x \in Nat
      BY <1>0
    <3>2. s < t /\ ~(s < s) /\ \A x \in S : x < s => x < t
      BY <1>2, <3>1
    <3> QED BY <3>2, Zenon
  <2>2. Below(s) # Below(t)
    BY <2>1
  <2> HIDE DEF Below
  <2>3. IsFiniteSet(Below(t)) /\ IsFiniteSet(Below(s))
    BY <1>0, <2>1, FS_Subset
  <2>4. /\ Cardinality(Below(s)) <= Cardinality(Below(t))
        /\ Cardinality(Below(t)) # Cardinality(Below(s))
    BY <2>1, <2>2, <2>3, FS_Subset
  <2>5. Cardinality(Below(s)) \in Nat /\ Cardinality(Below(t)) \in Nat
    BY <2>3, FS_CardinalityType
  <2> QED BY <2>4, <2>5
<1>3. /\ rank \in [S -> 0..(n-1)]
      /\ \A s \in S : rank[s] = Cardinality(Below(s))
      /\ \A s, t \in S : s < t => rank[s] < rank[t]
  BY <1>1, <1>2
<1>4. taken = {s \in S : rank[s] < len} /\ taken \in SUBSET S
  BY <1>3
<1> HIDE DEF rank, taken
<1>5. \A s, t \in S : rank[s] = rank[t] => s = t
  <2> SUFFICES ASSUME NEW s \in S, NEW t \in S, s # t PROVE rank[s] # rank[t]
    OBVIOUS
  <2>1. s < t \/ t < s
    BY <1>0
  <2>2. rank[s] \in Int /\ rank[t] \in Int
    BY <1>3
  <2> QED BY <1>3, <2>1, <2>2
<1>6. rank \in Injection(S, 0..(n-1))
  BY <1>3, <1>5, Fun_IsInj
<1>7. IsFiniteSet(0..(n-1)) /\ Cardinality(0..(n-1)) = n
  <2>1. 0 \in Int /\ n - 1 \in Int /\ (IF 0 > n - 1 THEN 0 ELSE (n - 1) - 0 + 1) = n
    BY <1>0
  <2> HIDE DEF n
  <2> QED BY <2>1, FS_Interval
<1>8. rank \in Surjection(S, 0..(n-1))
  BY <1>6, <1>7, FS_Injection
<1>9. \A i \in 0..(len-1) : \E s \in S : rank[s] = i
  BY <1>0, <1>8 DEF Surjection
<1> DEFINE part == [s \in taken |-> rank[s]]
<1>10. ExistsBijection(taken, 0..(len-1))
  <2>1. part \in [taken -> 0..(len-1)]
    BY <1>3, <1>4
  <2>2. \A i \in 0..(len-1) : \E s \in taken : part[s] = i
    BY <1>4, <1>9
  <2>3. \A s, t \in taken : part[s] = part[t] => s = t
    BY <1>4, <1>5
  <2> HIDE DEF part
  <2>4. part \in Bijection(taken, 0..(len-1))
    BY <2>1, <2>2, <2>3, Fun_IsBij
  <2> QED BY <2>4 DEF ExistsBijection
<1>11. Cardinality(taken) = len
  <2>1. IsFiniteSet(taken)
    BY <1>0, <1>4, FS_Subset
  <2>2. Cardinality(0..(len-1)) = Cardinality(taken)
    BY <1>10, <2>1, FS_Bijection
  <2> QED BY <2>2, FS_Interval
<1>12. S # {}
  BY <1>9
<1>13. Lowest(S) \in S /\ Below(Lowest(S)) = {}
  <2>1. Lowest(S) \in S /\ \A y \in S : Lowest(S) <= y
    BY <1>12, LowestIs
  <2>2. ASSUME NEW y \in S PROVE ~(y < Lowest(S))
    <3>1. y \in Nat /\ Lowest(S) \in Nat /\ Lowest(S) <= y
      BY <1>0, <2>1
    <3> QED BY <3>1
  <2> QED BY <2>1, <2>2
<1>14. rank[Lowest(S)] = 0
  BY <1>3, <1>13, FS_EmptySet
<1>15. Lowest(S) \in taken
  BY <1>4, <1>13, <1>14
<1> QED BY <1>11, <1>12, <1>15 DEF taken

(***************************************************************************)
(* Tables.                                                                 *)
(***************************************************************************)

\* The fields of a file.
LEMMA FileIs ==
  ASSUME NEW N, NEW P, NEW t, IsTable(t, N, P), NEW h \in DOMAIN t
  PROVE  /\ t[h] \in File(N, P) /\ h \in Slots
         /\ t[h].name \in N /\ t[h].slots \in SUBSET Slots /\ t[h].data \in Seq(P)
         /\ h \in t[h].slots /\ Len(t[h].data) = Cardinality(t[h].slots)
         /\ Len(t[h].data) \in Nat \ {0}
<1>1. t[h] \in File(N, P) /\ h \in Slots /\ h \in t[h].slots
      /\ Len(t[h].data) = Cardinality(t[h].slots)
  BY DEF IsTable
<1>2. t[h].name \in N /\ t[h].slots \in SUBSET Slots /\ t[h].data \in Seq(P)
  BY <1>1 DEF File
<1>3. IsFiniteSet(t[h].slots)
  BY <1>2, SlotsFacts, FS_Subset
<1>4. Cardinality(t[h].slots) \in Nat \ {0}
  BY <1>1, <1>3, FS_CardinalityType, FS_EmptySet
<1> QED BY <1>1, <1>2, <1>4

\* Removing files leaves a table.
LEMMA RestrictIsTable ==
  ASSUME NEW N, NEW P, NEW t, IsTable(t, N, P), NEW D \in SUBSET DOMAIN t
  PROVE  IsTable([h \in D |-> t[h]], N, P)
  BY DEF IsTable

\* appfsDeleteFile removes the file of that name and nothing else.
LEMMA DeleteFileIs ==
  ASSUME NEW N, NEW P, NEW t, IsTable(t, N, P), NEW name
  PROVE  /\ IsTable(DeleteFile(t, name), N, P)
         /\ \A h : h \in DOMAIN DeleteFile(t, name) <=> h \in DOMAIN t /\ t[h].name # name
         /\ \A h \in DOMAIN DeleteFile(t, name) : DeleteFile(t, name)[h] = t[h]
<1> DEFINE D == {h \in DOMAIN t : t[h].name # name}
<1>1. DeleteFile(t, name) = [h \in D |-> t[h]] /\ D \in SUBSET DOMAIN t
  BY DEF DeleteFile
<1> HIDE DEF D
<1>2. IsTable(DeleteFile(t, name), N, P)
  BY <1>1, RestrictIsTable
<1>3. DOMAIN DeleteFile(t, name) = D /\ \A h \in D : DeleteFile(t, name)[h] = t[h]
  BY <1>1
<1> QED BY <1>2, <1>3 DEF D

\* The content of a new file.
Blank(len) == [i \in 1..len |-> Junk]

\* appfsCreateFile, if there is room: one new file with as many slots as it has
\* parts, all of them free before; the other files stay as they are.
LEMMA CreateFileIs ==
  ASSUME NEW N, NEW P, NEW t, IsTable(t, N, P), NEW name \in N, Junk \in P,
         NEW len \in Nat \ {0}, HasRoom(t, name, len)
  PROVE  /\ IsTable(CreateFile(t, name, len), N, P)
         /\ CreatedHandle(t, name) \in Slots
         /\ CreatedHandle(t, name) \notin DOMAIN DeleteFile(t, name)
         /\ \A x : x \in DOMAIN CreateFile(t, name, len) <=>
                    x \in DOMAIN DeleteFile(t, name) \/ x = CreatedHandle(t, name)
         /\ CreateFile(t, name, len)[CreatedHandle(t, name)].name = name
         /\ CreateFile(t, name, len)[CreatedHandle(t, name)].data = Blank(len)
         /\ \A x : x \in DOMAIN DeleteFile(t, name) => CreateFile(t, name, len)[x] = t[x]
<1> DEFINE rest  == DeleteFile(t, name)
           free  == FreeSlots(rest)
           taken == {s \in free : Cardinality({x \in free : x < s}) < len}
           h == Lowest(free)
           data == Blank(len)
           file == [name |-> name, slots |-> taken, data |-> data]
           D == DOMAIN rest
           u == CreateFile(t, name, len)
<1>1. /\ IsTable(rest, N, P) /\ \A x : x \in D <=> x \in DOMAIN t /\ t[x].name # name
      /\ \A x \in D : rest[x] = t[x]
  BY DeleteFileIs
<1>2. h = CreatedHandle(t, name) /\ Cardinality(free) >= len
  BY DEF CreatedHandle, HasRoom
<1>3. u = [x \in D \cup {h} |-> IF x = h THEN file ELSE rest[x]]
  BY DEF CreateFile, Blank
<1>4. free \in SUBSET Slots
  BY DEF FreeSlots
<1>5. \A x \in D : rest[x].slots \cap free = {}
  BY DEF FreeSlots
<1>6. data \in Seq(P) /\ Len(data) = len
  BY DEF Blank
<1> HIDE DEF rest, free, data
<1>7. Cardinality(taken) = len /\ h \in taken
  BY <1>2, <1>4, LowestMembers
<1>8. taken \in SUBSET free
  OBVIOUS
<1> HIDE DEF taken, h, u
<1>9. file \in File(N, P)
  BY <1>4, <1>6, <1>8 DEF File
<1>10. h \in Slots /\ h \notin D
  BY <1>1, <1>4, <1>5, <1>7, <1>8, FileIs
<1>11. DOMAIN u = D \cup {h} /\ u[h] = file /\ \A x \in D : u[x] = rest[x]
  BY <1>3, <1>10
<1>12. IsTable(u, N, P)
  <2>1. u \in [DOMAIN u -> File(N, P)] /\ DOMAIN u \subseteq Slots
    <3>1. \A x \in D : rest[x] \in File(N, P) /\ x \in Slots
      BY <1>1, FileIs
    <3> HIDE DEF file
    <3> QED BY <1>3, <1>9, <1>10, <1>11, <3>1
  <2>2. \A x \in DOMAIN u : x \in u[x].slots /\ Len(u[x].data) = Cardinality(u[x].slots)
    <3>1. \A x \in D : x \in rest[x].slots /\ Len(rest[x].data) = Cardinality(rest[x].slots)
      BY <1>1, FileIs
    <3>2. h \in file.slots /\ Len(file.data) = Cardinality(file.slots)
      BY <1>6, <1>7
    <3> HIDE DEF file
    <3> QED BY <1>11, <3>1, <3>2
  <2>3. \A x, y \in DOMAIN u : u[x].name = u[y].name => x = y
    <3>1. \A x \in D : rest[x].name # name
      BY <1>1
    <3>2. \A x, y \in D : rest[x].name = rest[y].name => x = y
      BY <1>1 DEF IsTable
    <3>3. file.name = name
      OBVIOUS
    <3> HIDE DEF file
    <3> QED BY <1>11, <3>1, <3>2, <3>3
  <2>4. \A x, y \in DOMAIN u : x # y => u[x].slots \cap u[y].slots = {}
    <3>1. \A x, y \in D : x # y => rest[x].slots \cap rest[y].slots = {}
      BY <1>1 DEF IsTable
    <3>2. \A x \in D : rest[x].slots \cap file.slots = {}
      BY <1>5, <1>8
    <3> HIDE DEF file
    <3> QED BY <1>11, <3>1, <3>2
  <2> QED BY <2>1, <2>2, <2>3, <2>4 DEF IsTable
<1>13. u[h].name = name /\ u[h].data = data /\ \A x \in D : u[x] = t[x]
  BY <1>1, <1>11
<1> QED BY <1>2, <1>10, <1>11, <1>12, <1>13 DEF rest, data, u

\* A write inside a file changes one part of it.
LEMMA WritePartIs ==
  ASSUME NEW N, NEW P, NEW t, IsTable(t, N, P), NEW h, NEW i, InFile(t, h, i), NEW part \in P
  PROVE  LET u == WritePart(t, h, i, part)
         IN  /\ IsTable(u, N, P) /\ DOMAIN u = DOMAIN t
             /\ u[h].data = [t[h].data EXCEPT ![i] = part]
             /\ \A x \in DOMAIN t : u[x].name = t[x].name /\ (x # h => u[x] = t[x])
<1> DEFINE u == WritePart(t, h, i, part)
           data == [t[h].data EXCEPT ![i] = part]
           file == [t[h] EXCEPT !.data = data]
<1>1. h \in DOMAIN t /\ i \in 1..Len(t[h].data) /\ t[h] \in File(N, P) /\ t[h].data \in Seq(P)
      /\ h \in t[h].slots /\ Len(t[h].data) = Cardinality(t[h].slots)
  BY FileIs DEF InFile
<1>2. u = [t EXCEPT ![h] = file]
  BY DEF WritePart
<1>3. data \in Seq(P) /\ Len(data) = Len(t[h].data)
  BY <1>1, ExceptSeq
<1> HIDE DEF data, u
<1>4. file \in File(N, P) /\ file.name = t[h].name /\ file.slots = t[h].slots /\ file.data = data
  BY <1>1, <1>3 DEF File
<1> HIDE DEF file
<1>5. DOMAIN u = DOMAIN t /\ u[h] = file /\ \A x \in DOMAIN t : x # h => u[x] = t[x]
  BY <1>1, <1>2 DEF IsTable
<1>6. IsTable(u, N, P)
  <2>1. u \in [DOMAIN u -> File(N, P)] /\ DOMAIN u \subseteq Slots
    BY <1>1, <1>2, <1>4, <1>5 DEF IsTable
  <2>2. \A x \in DOMAIN u : /\ u[x].name = t[x].name /\ u[x].slots = t[x].slots
                            /\ Len(u[x].data) = Len(t[x].data)
    BY <1>3, <1>4, <1>5
  <2> QED BY <1>5, <2>1, <2>2 DEF IsTable
<1> QED BY <1>4, <1>5, <1>6 DEF u, data

\* appfsRename replaces the file that had the new name; data stays.
LEMMA RenameIs ==
  ASSUME NEW N, NEW P, NEW t, IsTable(t, N, P), NEW from, NEW to \in N
  PROVE  LET u == Rename(t, from, to)
         IN  /\ IsTable(u, N, P) /\ (\A h : h \in DOMAIN u <=> h \in DOMAIN t /\ t[h].name # to)
             /\ \A h \in DOMAIN u : /\ u[h].data = t[h].data
                                    /\ u[h].name = IF t[h].name = from THEN to ELSE t[h].name
<1> DEFINE rest == DeleteFile(t, to)
           D == DOMAIN rest
           New(h) == IF rest[h].name = from THEN [rest[h] EXCEPT !.name = to] ELSE rest[h]
           u == Rename(t, from, to)
<1>1. /\ IsTable(rest, N, P) /\ \A x : x \in D <=> x \in DOMAIN t /\ t[x].name # to
      /\ \A x \in D : rest[x] = t[x]
  BY DeleteFileIs
<1>2. u = [h \in D |-> New(h)]
  BY DEF Rename
<1> HIDE DEF rest, u
<1>3. ASSUME NEW h \in D
      PROVE  /\ New(h) \in File(N, P) /\ New(h).data = rest[h].data
             /\ New(h).slots = rest[h].slots
             /\ New(h).name = IF rest[h].name = from THEN to ELSE rest[h].name
  <2>1. rest[h] \in File(N, P)
    BY <1>1, FileIs
  <2> QED BY <2>1 DEF File
<1> HIDE DEF New
<1>4. /\ DOMAIN u = D /\ u \in [D -> File(N, P)]
      /\ \A h \in D : /\ u[h].data = rest[h].data /\ u[h].slots = rest[h].slots
                      /\ u[h].name = IF rest[h].name = from THEN to ELSE rest[h].name
  BY <1>2, <1>3
<1>5. \A x, y \in D : u[x].name = u[y].name => x = y
  <2>1. \A x, y \in D : rest[x].name = rest[y].name => x = y
    BY <1>1 DEF IsTable
  <2>2. \A x \in D : rest[x].name # to
    BY <1>1
  <2> QED BY <1>4, <2>1, <2>2
<1>6. IsTable(u, N, P)
  BY <1>1, <1>4, <1>5 DEF IsTable
<1> QED BY <1>1, <1>4, <1>6 DEF u

(***************************************************************************)
(* The table of files, the connections and the heap.                       *)
(***************************************************************************)

Part == (Bodies \X Nat) \cup {Junk, Broken}

Conn == [op : {"idle", "upload", "download", "fileidx", "delete"},
         st : {"START", "WRITE", "SEND", "ERROR", "ENDED"},
         fd : Slots \cup {INVALID}, name : Names, body : Seq(Part), size : Nat, pos : Nat,
         sent : Seq(Part \cup Slots), reply : {"none", "done", "error", "404"}]

\* The handler of this connection holds a heap block.
Served(k) == k.op \in {"upload", "download"} /\ k.st # "ENDED"

\* What is true of a connection whatever the files do: a request that is being
\* served has parts left, and an upload carries one of the bodies and a name
\* that is not the temporary one.
ConnOK(k) ==
  /\ k \in Conn
  /\ k.pos <= k.size
  /\ Served(k) => k.pos < k.size
  /\ k.op = "idle" => k = Idle
  /\ k.op = "upload" /\ Served(k) =>
       /\ k.st \in {"WRITE", "ERROR"} /\ k.name # TempName
       /\ \E b \in Bodies : k.body = Body(b) /\ k.size = BodyLen[b]
  /\ k.op = "download" /\ Served(k) => k.st = "SEND"
  /\ k.st = "SEND" => k.reply = "none"

ConnsOK == conn \in [Conns -> Conn] /\ \A c \in Conns : ConnOK(conn[c])

ServedConns == {c \in Conns : Served(conn[c])}

HeapOK == /\ blocks \in Nat /\ lost \in Nat /\ blocks <= MaxBlocks
          /\ blocks = lost + Cardinality(ServedConns)

TableOK == IsTable(fs, Names, Part)

\* A request's first state.
LEMMA IdleIs == ConnOK(Idle) /\ ~Served(Idle) /\ Idle.st # "ENDED" /\ Idle.op = "idle"
<1>1. /\ Idle.op = "idle" /\ Idle.st = "START" /\ Idle.pos = 0 /\ Idle.size = 0
  BY DEF Idle
<1>2. << >> \in Seq(Part) /\ << >> \in Seq(Part \cup Slots)
  OBVIOUS
<1>3. Idle \in Conn
  BY <1>2, NamesAssumption DEF Idle, Conn
<1> QED BY <1>1, <1>3 DEF ConnOK, Served

LEMMA BodyIs ==
  ASSUME NEW b \in Bodies
  PROVE  Body(b) \in Seq(Part) /\ Len(Body(b)) = BodyLen[b] /\ BodyLen[b] \in Nat \ {0}
<1>1. BodyLen[b] \in Nat \ {0}
  BY BodyAssumption
<1>2. \A i \in 1..BodyLen[b] : <<b, i>> \in Part
  BY <1>1 DEF Part
<1> QED BY <1>1, <1>2 DEF Body

\* A request that is over.
LEMMA EndedIs ==
  ASSUME NEW k \in Conn, k.pos <= k.size, k.op # "idle",
         NEW r \in {"none", "done", "error", "404"}
  PROVE  /\ ConnOK(Ended(k, r)) /\ ~Served(Ended(k, r))
         /\ Ended(k, r).op = k.op /\ Ended(k, r).st = "ENDED" /\ Ended(k, r).reply = r
         /\ Ended(k, r).fd = k.fd /\ Ended(k, r).sent = k.sent /\ Ended(k, r).size = k.size
<1>1. /\ Ended(k, r) \in Conn /\ Ended(k, r).pos = k.pos
      /\ Ended(k, r).op = k.op /\ Ended(k, r).st = "ENDED" /\ Ended(k, r).reply = r
      /\ Ended(k, r).fd = k.fd /\ Ended(k, r).sent = k.sent /\ Ended(k, r).size = k.size
  BY DEF Ended, Conn
<1> QED BY <1>1 DEF ConnOK, Served

\* One connection changes.
LEMMA ConnChanges ==
  ASSUME ConnsOK, NEW c \in Conns, NEW k, ConnOK(k), conn' = [conn EXCEPT ![c] = k]
  PROVE  /\ ConnsOK' /\ conn'[c] = k /\ \A d \in Conns : d # c => conn'[d] = conn[d]
<1>1. k \in Conn
  BY DEF ConnOK
<1>2. conn' \in [Conns -> Conn] /\ conn'[c] = k /\ \A d \in Conns : d # c => conn'[d] = conn[d]
  BY <1>1 DEF ConnsOK
<1> QED BY <1>2 DEF ConnsOK

\* What that means for the number of connections that hold a block.
LEMMA ServedChanges ==
  ASSUME ConnsOK, NEW c \in Conns, NEW k, ConnOK(k), conn' = [conn EXCEPT ![c] = k]
  PROVE  /\ Cardinality(ServedConns) \in Nat
         /\ Served(conn[c]) => Cardinality(ServedConns) >= 1
         /\ Cardinality(ServedConns') =
              Cardinality(ServedConns) + (IF Served(k) THEN 1 ELSE 0)
                                       - (IF Served(conn[c]) THEN 1 ELSE 0)
<1>0. /\ conn'[c] = k /\ \A d \in Conns : d # c => conn'[d] = conn[d]
  BY ConnChanges
<1> DEFINE A == ServedConns
           B == ServedConns'
<1>1. IsFiniteSet(A) /\ IsFiniteSet(B) /\ Cardinality(A) \in Nat /\ Cardinality(B) \in Nat
  <2>1. A \in SUBSET Conns /\ B \in SUBSET Conns
    BY DEF ServedConns
  <2> QED BY <2>1, ConnsAssumption, FS_Subset, FS_CardinalityType
<1>2. (c \in A <=> Served(conn[c])) /\ (c \in B <=> Served(k)) /\ A \ {c} = B \ {c}
  BY <1>0 DEF ServedConns
<1> HIDE DEF A, B
<1>3. /\ Cardinality(A \ {c}) = IF c \in A THEN Cardinality(A) - 1 ELSE Cardinality(A)
      /\ Cardinality(B \ {c}) = IF c \in B THEN Cardinality(B) - 1 ELSE Cardinality(B)
      /\ c \in A => Cardinality(A) # 0
  BY <1>1, FS_RemoveElement, FS_EmptySet
<1>4. /\ c \in A => Cardinality(A) >= 1
      /\ Cardinality(B) = Cardinality(A) + (IF c \in B THEN 1 ELSE 0)
                                         - (IF c \in A THEN 1 ELSE 0)
  BY <1>1, <1>2, <1>3
<1> QED BY <1>1, <1>2, <1>4 DEF A, B

Base == TableOK /\ ConnsOK /\ HeapOK

\* The heap after a call that changes one connection.
LEMMA HeapChanges ==
  ASSUME ConnsOK, HeapOK, NEW c \in Conns, NEW k, ConnOK(k), conn' = [conn EXCEPT ![c] = k],
         lost' = lost,
         blocks' = blocks + (IF Served(k) THEN 1 ELSE 0) - (IF Served(conn[c]) THEN 1 ELSE 0),
         Served(k) /\ ~Served(conn[c]) => blocks < MaxBlocks
  PROVE  HeapOK'
<1>1. /\ Cardinality(ServedConns) \in Nat
      /\ Served(conn[c]) => Cardinality(ServedConns) >= 1
      /\ Cardinality(ServedConns') =
           Cardinality(ServedConns) + (IF Served(k) THEN 1 ELSE 0)
                                    - (IF Served(conn[c]) THEN 1 ELSE 0)
  BY ServedChanges
<1> QED BY <1>1, HeapAssumption DEF HeapOK

\* The connection after the first call of an upload, with and without room.
Writing(n, b, h) == [Idle EXCEPT !.op = "upload", !.st = "WRITE", !.name = n, !.body = Body(b),
                                 !.size = BodyLen[b], !.fd = h]
Refused(n, b) == [Idle EXCEPT !.op = "upload", !.st = "ERROR", !.name = n, !.body = Body(b),
                              !.size = BodyLen[b]]

LEMMA UploadConn ==
  ASSUME NEW n \in Names \ {TempName}, NEW b \in Bodies, NEW h \in Slots
  PROVE  LET k == Writing(n, b, h)
             e == Refused(n, b)
         IN  /\ ConnOK(k) /\ ConnOK(e) /\ Served(k) /\ Served(e)
             /\ k.op = "upload" /\ e.op = "upload" /\ e.st = "ERROR" /\ k.pos = 0
             /\ k.fd = h /\ k.body = Body(b) /\ k.size = BodyLen[b]
<1> DEFINE k == Writing(n, b, h)
           e == Refused(n, b)
<1>1. Body(b) \in Seq(Part) /\ BodyLen[b] \in Nat \ {0} /\ Idle \in Conn /\ Idle.pos = 0
  BY BodyIs, IdleIs DEF ConnOK, Idle
<1>2. /\ k \in Conn /\ k.op = "upload" /\ k.st = "WRITE" /\ k.name = n /\ k.body = Body(b)
      /\ k.size = BodyLen[b] /\ k.pos = 0 /\ k.fd = h
  BY <1>1 DEF Conn, Writing
<1>3. /\ e \in Conn /\ e.op = "upload" /\ e.st = "ERROR" /\ e.name = n /\ e.body = Body(b)
      /\ e.size = BodyLen[b] /\ e.pos = 0
  BY <1>1 DEF Conn, Refused
<1>4. ConnOK(k) /\ Served(k)
  BY <1>1, <1>2 DEF ConnOK, Served
<1>5. ConnOK(e) /\ Served(e)
  BY <1>1, <1>3 DEF ConnOK, Served
<1> QED BY <1>2, <1>3, <1>4, <1>5

LEMMA JunkPart == Junk \in Part /\ Broken \in Part
  BY DEF Part

\* The two ways the first call of an upload goes.
Creates(c, n, b) ==
  /\ HasRoom(fs, TempName, BodyLen[b])
  /\ fs' = CreateFile(fs, TempName, BodyLen[b])
  /\ conn' = [conn EXCEPT ![c] = Writing(n, b, CreatedHandle(fs, TempName))]

CreatesNot(c, n, b) ==
  /\ fs' \in {fs, DeleteFile(fs, TempName)}
  /\ conn' = [conn EXCEPT ![c] = Refused(n, b)]

LEMMA UploadStartIs ==
  ASSUME NEW c, NEW n, NEW b, UploadStart(c, n, b)
  PROVE  Creates(c, n, b) \/ CreatesNot(c, n, b)
<1> DEFINE k == [Idle EXCEPT !.op = "upload", !.name = n, !.body = Body(b), !.size = BodyLen[b]]
<1>1. \A h : [k EXCEPT !.st = "WRITE", !.fd = h] = Writing(n, b, h)
  BY DEF Writing, Idle
<1>2. [k EXCEPT !.st = "ERROR"] = Refused(n, b)
  BY DEF Refused, Idle
<1> QED BY <1>1, <1>2 DEF UploadStart, Creates, CreatesNot

LEMMA UploadStartBase ==
  ASSUME Base, NEW c \in Conns, NEW n \in Names \ {TempName}, NEW b \in Bodies,
         UploadStart(c, n, b)
  PROVE  /\ Base' /\ conn'[c].op = "upload"
         /\ \A d \in Conns : d # c => conn'[d] = conn[d]
<1> USE DEF Base
<1>0. /\ conn[c] = Idle /\ ~Served(conn[c]) /\ blocks < MaxBlocks /\ blocks' = blocks + 1
      /\ lost' = lost
  BY IdleIs DEF UploadStart
<1>1. BodyLen[b] \in Nat \ {0} /\ TempName \in Names
  BY BodyIs, NamesAssumption
<1>t. IsTable(fs, Names, Part)
  BY DEF TableOK
<1>2. TableOK' /\ \E k : ConnOK(k) /\ Served(k) /\ k.op = "upload" /\ conn' = [conn EXCEPT ![c] = k]
  <2>1. CASE Creates(c, n, b)
    <3>1. CreatedHandle(fs, TempName) \in Slots /\ IsTable(CreateFile(fs, TempName, BodyLen[b]), Names, Part)
      BY <1>t, <1>1, <2>1, CreateFileIs, JunkPart DEF Creates
    <3> QED BY <2>1, <3>1, UploadConn, ZenonT(60) DEF Creates, TableOK
  <2>2. CASE CreatesNot(c, n, b)
    <3>1. 0 \in Slots /\ IsTable(DeleteFile(fs, TempName), Names, Part)
      BY <1>t, NumSlotsAssumption, DeleteFileIs DEF Slots
    <3>2. TableOK'
      BY <1>t, <2>2, <3>1 DEF CreatesNot, TableOK
    <3> QED BY <2>2, <3>1, <3>2, UploadConn DEF CreatesNot
  <2> QED BY <2>1, <2>2, UploadStartIs
<1>3. PICK k : ConnOK(k) /\ Served(k) /\ k.op = "upload" /\ conn' = [conn EXCEPT ![c] = k]
  BY <1>2
<1>4. HeapOK'
  <2>1. blocks' = blocks + (IF Served(k) THEN 1 ELSE 0) - (IF Served(conn[c]) THEN 1 ELSE 0)
    BY <1>0, <1>3 DEF HeapOK
  <2> QED BY <1>0, <1>3, <2>1, HeapChanges
<1> QED BY <1>2, <1>3, <1>4, ConnChanges

LEMMA NoMemoryBase ==
  ASSUME Base, NEW c \in Conns, NEW op \in {"upload", "download"}, NoMemory(c, op)
  PROVE  /\ Base' /\ conn'[c].st = "ENDED" /\ conn'[c].op = op /\ conn'[c].reply = "none"
         /\ \A d \in Conns : d # c => conn'[d] = conn[d]
<1> USE DEF Base
<1> DEFINE r == [Idle EXCEPT !.op = op]
           k == Ended(r, "none")
<1>1. r \in Conn /\ r.op = op /\ r.pos = 0 /\ r.size = 0
  <2>1. Idle \in Conn /\ Idle.pos = 0 /\ Idle.size = 0
    BY IdleIs DEF ConnOK, Idle
  <2> QED BY <2>1 DEF Conn
<1> HIDE DEF r
<1>2. ConnOK(k) /\ ~Served(k) /\ k.op = op /\ k.st = "ENDED" /\ k.reply = "none"
  BY <1>1, EndedIs
<1>3. conn' = [conn EXCEPT ![c] = k] /\ lost' = lost /\ blocks' = blocks /\ ~Served(conn[c])
      /\ fs' = fs
  BY IdleIs DEF NoMemory, r
<1> HIDE DEF k
<1>4. HeapOK'
  <2>1. blocks' = blocks + (IF Served(k) THEN 1 ELSE 0) - (IF Served(conn[c]) THEN 1 ELSE 0)
    BY <1>2, <1>3 DEF HeapOK
  <2> QED BY <1>2, <1>3, <2>1, HeapChanges
<1>5. TableOK'
  BY <1>3 DEF TableOK
<1> QED BY <1>2, <1>3, <1>4, <1>5, ConnChanges

\* A page goes to the file that has the handle and to no other.
LEMMA FlashedIs ==
  ASSUME Base, NEW c \in Conns, conn[c].op = "upload", conn[c].st = "WRITE",
         NEW ok \in BOOLEAN
  PROVE  LET k == conn[c]
             i == k.pos + 1
             part == IF ok THEN k.body[i] ELSE Broken
             w == Flashed(k, ok)
         IN  /\ IsTable(w, Names, Part) /\ DOMAIN w = DOMAIN fs
             /\ \A h \in DOMAIN fs : w[h].name = fs[h].name /\ (h # k.fd => w[h] = fs[h])
             /\ InFile(fs, k.fd, i) => w[k.fd].data = [fs[k.fd].data EXCEPT ![i] = part]
             /\ ~InFile(fs, k.fd, i) => w = fs
<1> DEFINE k == conn[c]
           i == k.pos + 1
           part == IF ok THEN k.body[i] ELSE Broken
           w == Flashed(k, ok)
<1>1. ConnOK(k) /\ IsTable(fs, Names, Part)
  BY DEF Base, ConnsOK, TableOK
<1>2. part \in Part
  <2>1. k.pos \in Nat /\ k.size \in Nat /\ k.pos < k.size /\ k.body \in Seq(Part)
    BY <1>1 DEF ConnOK, Conn, Served
  <2>2. PICK b \in Bodies : k.body = Body(b) /\ k.size = BodyLen[b]
    BY <1>1 DEF ConnOK, Served
  <2>3. i \in 1..Len(k.body)
    BY <2>1, <2>2, BodyIs
  <2> QED BY <2>1, <2>3, ElementOfSeq, JunkPart
<1>3. w = IF InFile(fs, k.fd, i) THEN WritePart(fs, k.fd, i, part) ELSE fs
  BY DEF Flashed
<1> HIDE DEF k, i, w, part
<1>4. CASE InFile(fs, k.fd, i)
  <2>1. w = WritePart(fs, k.fd, i, part)
    BY <1>3, <1>4
  <2>2. /\ IsTable(w, Names, Part) /\ DOMAIN w = DOMAIN fs
        /\ w[k.fd].data = [fs[k.fd].data EXCEPT ![i] = part]
        /\ \A h \in DOMAIN fs : w[h].name = fs[h].name /\ (h # k.fd => w[h] = fs[h])
    BY <1>1, <1>2, <1>4, <2>1, WritePartIs
  <2> QED BY <1>4, <2>2 DEF k, i, w, part
<1>5. CASE ~InFile(fs, k.fd, i)
  <2>1. w = fs
    BY <1>3, <1>5
  <2> QED BY <1>1, <1>5, <2>1 DEF k, i, w, part
<1> QED BY <1>4, <1>5

\* A call that finishes a page, with what appfs answered.
PartDone(c, ok, renamed) ==
  LET k    == conn[c]
      i    == k.pos + 1
      last == LastPart(k)
  IN  /\ ok => InFile(fs, k.fd, i)
      /\ renamed => last /\ Exists(fs, TempName)
      /\ fs' = IF renamed THEN Rename(Flashed(k, ok), TempName, k.name) ELSE Flashed(k, ok)
      /\ conn' = [conn EXCEPT ![c] =
           IF last THEN Ended([k EXCEPT !.pos = i], IF renamed THEN "done" ELSE "error")
           ELSE [k EXCEPT !.pos = i, !.st = IF ok THEN "WRITE" ELSE "ERROR"]]
      /\ blocks' = IF last THEN blocks - 1 ELSE blocks

LEMMA UploadPartIs ==
  ASSUME NEW c, UploadPart(c)
  PROVE  \E ok, renamed \in BOOLEAN : PartDone(c, ok, renamed)
  BY DEF UploadPart, PartDone

LEMMA UploadPartBase ==
  ASSUME Base, NEW c \in Conns, UploadPart(c)
  PROVE  /\ Base' /\ conn'[c].op = "upload"
         /\ \A d \in Conns : d # c => conn'[d] = conn[d]
<1> USE DEF Base
<1>0. PICK ok \in BOOLEAN, renamed \in BOOLEAN : PartDone(c, ok, renamed)
  BY UploadPartIs
<1> DEFINE k == conn[c]
           i == k.pos + 1
           last == LastPart(k)
           moved == [k EXCEPT !.pos = i]
           more == [k EXCEPT !.pos = i, !.st = IF ok THEN "WRITE" ELSE "ERROR"]
           next == IF last THEN Ended(moved, IF renamed THEN "done" ELSE "error") ELSE more
<1>1. k.op = "upload" /\ k.st = "WRITE" /\ ConnOK(k) /\ Served(k)
  BY DEF UploadPart, ConnsOK, Served
<1>2. k \in Conn /\ k.pos \in Nat /\ k.size \in Nat /\ k.pos < k.size /\ k.name \in Names
  BY <1>1 DEF ConnOK, Conn
<1>3. /\ fs' = IF renamed THEN Rename(Flashed(k, ok), TempName, k.name) ELSE Flashed(k, ok)
      /\ conn' = [conn EXCEPT ![c] = next]
      /\ blocks' = IF last THEN blocks - 1 ELSE blocks
      /\ lost' = lost
  BY <1>0 DEF UploadPart, PartDone
<1>4. TableOK'
  <2>1. IsTable(Flashed(k, ok), Names, Part)
    BY <1>1, FlashedIs
  <2> QED BY <1>2, <1>3, <2>1, RenameIs DEF TableOK
<1>5. ConnOK(next) /\ next.op = "upload" /\ (Served(next) <=> ~last)
  <2>1. CASE last
    <3>1. moved \in Conn /\ moved.pos <= moved.size /\ moved.op = "upload"
      BY <1>1, <1>2, SMTT(30) DEF Conn
    <3> HIDE DEF moved
    <3> QED BY <2>1, <3>1, EndedIs
  <2>2. CASE ~last
    <3>0. i < k.size /\ i \in Nat
      BY <1>2, <2>2 DEF LastPart
    <3>1. more \in Conn /\ more.pos = i /\ more.size = k.size /\ more.op = "upload"
          /\ more.name = k.name /\ more.body = k.body /\ more.st \in {"WRITE", "ERROR"}
      BY <1>1, <1>2, <3>0 DEF Conn
    <3>2. next = more
      BY <2>2
    <3> HIDE DEF more, next, i
    <3> QED BY <1>1, <1>2, <2>2, <3>0, <3>1, <3>2 DEF ConnOK, Served
  <2> QED BY <2>1, <2>2
<1> HIDE DEF next, last
<1>6. HeapOK'
  <2>1. blocks' = blocks + (IF Served(next) THEN 1 ELSE 0) - (IF Served(conn[c]) THEN 1 ELSE 0)
    BY <1>1, <1>3, <1>5 DEF HeapOK
  <2> QED BY <1>1, <1>3, <1>5, <2>1, HeapChanges
<1> QED BY <1>3, <1>4, <1>5, <1>6, ConnChanges

LEMMA UploadEatBase ==
  ASSUME Base, NEW c \in Conns, UploadEat(c)
  PROVE  /\ Base' /\ conn'[c].op = "upload" /\ conn'[c].st \in {"ERROR", "ENDED"}
         /\ \A d \in Conns : d # c => conn'[d] = conn[d]
<1> USE DEF Base
<1> DEFINE k == conn[c]
           moved == [conn[c] EXCEPT !.pos = @ + 1]
           last == moved.pos = moved.size
           next == IF last THEN Ended(moved, "error") ELSE moved
<1>1. k.op = "upload" /\ k.st = "ERROR" /\ ConnOK(k) /\ Served(k)
  BY DEF UploadEat, ConnsOK, Served
<1>2. k \in Conn /\ k.pos \in Nat /\ k.size \in Nat /\ k.pos < k.size
  BY <1>1 DEF ConnOK, Conn
<1>3. /\ conn' = [conn EXCEPT ![c] = next] /\ blocks' = IF last THEN blocks - 1 ELSE blocks
      /\ lost' = lost /\ fs' = fs
  BY DEF UploadEat
<1>4. /\ moved \in Conn /\ moved.pos = k.pos + 1 /\ moved.size = k.size /\ moved.op = "upload"
      /\ moved.st = "ERROR" /\ moved.name = k.name /\ moved.body = k.body
  BY <1>1, <1>2 DEF Conn
<1> HIDE DEF moved
<1>5. ConnOK(next) /\ next.op = "upload" /\ next.st \in {"ERROR", "ENDED"} /\ (Served(next) <=> ~last)
  <2>1. CASE last
    BY <1>2, <1>4, <2>1, EndedIs
  <2>2. CASE ~last
    BY <1>1, <1>2, <1>4, <2>2 DEF ConnOK, Served
  <2> QED BY <2>1, <2>2
<1> HIDE DEF next, last
<1>6. HeapOK'
  <2>1. blocks' = blocks + (IF Served(next) THEN 1 ELSE 0) - (IF Served(conn[c]) THEN 1 ELSE 0)
    BY <1>1, <1>3, <1>5 DEF HeapOK
  <2> QED BY <1>1, <1>3, <1>5, <2>1, HeapChanges
<1>7. TableOK'
  BY <1>3 DEF TableOK
<1> QED BY <1>3, <1>5, <1>6, <1>7, ConnChanges

LEMMA ReadPartIs == ASSUME TableOK, NEW h, NEW i PROVE ReadPart(fs, h, i) \in Part
<1>1. CASE InFile(fs, h, i)
  <2>1. h \in DOMAIN fs /\ fs[h].data \in Seq(Part) /\ i \in 1..Len(fs[h].data)
    BY <1>1, FileIs DEF InFile, TableOK
  <2> QED BY <1>1, <2>1, ElementOfSeq DEF ReadPart
<1>2. CASE ~InFile(fs, h, i)
  BY <1>2, JunkPart DEF ReadPart
<1> QED BY <1>1, <1>2

\* A connection in the middle of a download.
Sending(k) == /\ k \in Conn /\ k.op = "download" /\ k.st = "SEND" /\ k.reply = "none"
              /\ k.pos < k.size

\* The common end of every call of a download.
LEMMA SendPartIs ==
  ASSUME TableOK, ConnsOK, NEW c \in Conns, NEW k, Sending(k), NEW held, SendPart(c, k, held)
  PROVE  LET n == conn'[c]
             last == k.pos + 1 = k.size
         IN  /\ ConnsOK' /\ conn' = [conn EXCEPT ![c] = n] /\ ConnOK(n)
             /\ \A d \in Conns : d # c => conn'[d] = conn[d]
             /\ n.op = "download" /\ n.fd = k.fd /\ n.size = k.size /\ n.pos = k.pos + 1
             /\ n.sent = Append(k.sent, ReadPart(fs, k.fd, k.pos + 1))
             /\ n.reply = IF last THEN "done" ELSE "none"
             /\ n.st = IF last THEN "ENDED" ELSE "SEND"
             /\ blocks' = IF Served(n) THEN held ELSE held - 1
<1> DEFINE i == k.pos + 1
           last == i = k.size
           part == ReadPart(fs, k.fd, i)
           moved == [k EXCEPT !.pos = i, !.sent = Append(@, part)]
           next == IF last THEN Ended(moved, "done") ELSE moved
<1>1. /\ k \in Conn /\ k.pos \in Nat /\ k.size \in Nat /\ k.pos < k.size
      /\ k.sent \in Seq(Part \cup Slots)
  BY DEF Sending, Conn
<1>2. part \in Part
  BY ReadPartIs
<1> HIDE DEF part
<1> DEFINE sent == Append(k.sent, part)
<1>3. sent \in Seq(Part \cup Slots) /\ moved = [k EXCEPT !.pos = i, !.sent = sent]
  BY <1>1, <1>2
<1> HIDE DEF sent, moved
<1>4. /\ moved \in Conn /\ moved.pos = i /\ moved.sent = sent /\ moved.fd = k.fd
      /\ moved.op = "download" /\ moved.st = "SEND" /\ moved.reply = "none" /\ moved.size = k.size
  <2>1. i \in Nat /\ k.op = "download" /\ k.st = "SEND" /\ k.reply = "none"
    BY <1>1 DEF Sending
  <2> HIDE DEF i
  <2> QED BY <1>1, <1>3, <2>1 DEF Conn
<1>5. conn' = [conn EXCEPT ![c] = next] /\ blocks' = IF last THEN held - 1 ELSE held
  BY DEF SendPart, part, moved
<1>6. /\ ConnOK(next) /\ next.op = "download" /\ next.fd = k.fd /\ next.size = k.size
      /\ next.pos = i /\ next.sent = sent
      /\ next.reply = (IF last THEN "done" ELSE "none")
      /\ next.st = (IF last THEN "ENDED" ELSE "SEND")
      /\ (Served(next) <=> ~last)
  <2>1. CASE last
    <3>1. Ended(moved, "done").pos = moved.pos
      BY <1>4 DEF Ended, Conn
    <3> QED BY <1>1, <1>4, <2>1, <3>1, EndedIs
  <2>2. CASE ~last
    BY <1>1, <1>4, <2>2 DEF ConnOK, Served
  <2> QED BY <2>1, <2>2
<1> HIDE DEF next
<1>7. /\ ConnsOK' /\ conn'[c] = next /\ \A d \in Conns : d # c => conn'[d] = conn[d]
  BY <1>5, <1>6, ConnChanges
<1>8. blocks' = IF Served(next) THEN held ELSE held - 1
  BY <1>5, <1>6
<1> QED BY <1>5, <1>6, <1>7, <1>8 DEF part, sent

\* The connection of a download before its first part is sent.
Opened(h) == [Idle EXCEPT !.op = "download", !.st = "SEND", !.fd = h]

LEMMA OpenedIs ==
  ASSUME TableOK, NEW h \in Slots \cup {INVALID}
  PROVE  /\ Opened(h) \in Conn /\ Opened(h).op = "download" /\ Opened(h).fd = h
         /\ Opened(h).pos = 0 /\ Opened(h).size = 0
         /\ FdValid(fs, h) =>
              LET k == [Opened(h) EXCEPT !.size = Len(fs[h].data)]
              IN  /\ Sending(k) /\ k.fd = h /\ k.pos = 0 /\ k.size = Len(fs[h].data)
                  /\ k.sent = << >>
<1>1. /\ Idle \in Conn /\ Idle.pos = 0 /\ Idle.size = 0 /\ Idle.sent = << >>
      /\ Idle.reply = "none"
  BY IdleIs DEF ConnOK, Idle
<1>2. /\ Opened(h) \in Conn /\ Opened(h).op = "download" /\ Opened(h).fd = h
      /\ Opened(h).st = "SEND" /\ Opened(h).reply = "none"
      /\ Opened(h).pos = 0 /\ Opened(h).size = 0 /\ Opened(h).sent = << >>
  BY <1>1 DEF Opened, Conn
<1>3. ASSUME FdValid(fs, h)
      PROVE  LET k == [Opened(h) EXCEPT !.size = Len(fs[h].data)]
             IN  /\ Sending(k) /\ k.fd = h /\ k.pos = 0 /\ k.size = Len(fs[h].data)
                 /\ k.sent = << >>
  <2>1. Len(fs[h].data) \in Nat \ {0}
    BY <1>3, FileIs DEF FdValid, TableOK
  <2> QED BY <1>2, <2>1 DEF Conn, Sending
<1> QED BY <1>2, <1>3

LEMMA DownloadStartBase ==
  ASSUME Base, NEW c \in Conns, NEW h \in Slots \cup {INVALID}, DownloadStart(c, h)
  PROVE  Base' /\ \A d \in Conns : d # c => conn'[d] = conn[d]
<1> USE DEF Base
<1>0. /\ ~Served(conn[c]) /\ blocks < MaxBlocks /\ blocks \in Nat /\ lost \in Nat
      /\ TableOK'
  BY IdleIs DEF DownloadStart, HeapOK, TableOK
<1>1. CASE FdValid(fs, h)
  <2> DEFINE k == [Opened(h) EXCEPT !.size = Len(fs[h].data)]
  <2>1. Sending(k) /\ SendPart(c, k, blocks + 1) /\ lost' = lost
    BY <1>1, OpenedIs DEF DownloadStart, Opened
  <2> HIDE DEF k
  <2>2. /\ ConnsOK' /\ conn' = [conn EXCEPT ![c] = conn'[c]] /\ ConnOK(conn'[c])
        /\ \A d \in Conns : d # c => conn'[d] = conn[d]
        /\ blocks' = IF Served(conn'[c]) THEN blocks + 1 ELSE (blocks + 1) - 1
    BY <2>1, SendPartIs
  <2>3. blocks' = blocks + (IF Served(conn'[c]) THEN 1 ELSE 0) - (IF Served(conn[c]) THEN 1 ELSE 0)
    BY <1>0, <2>2
  <2>4. HeapOK'
    BY <1>0, <2>1, <2>2, <2>3, HeapChanges
  <2> QED BY <1>0, <2>2, <2>4, SMTT(30)
<1>2. CASE ~FdValid(fs, h)
  <2> DEFINE k == Ended(Opened(h), "404")
  <2>1. /\ conn' = [conn EXCEPT ![c] = k] /\ blocks' = blocks + 1 /\ lost' = lost + 1
    BY <1>2 DEF DownloadStart, Opened
  <2>2. ConnOK(k) /\ ~Served(k)
    <3>1. Opened(h) \in Conn /\ Opened(h).pos <= Opened(h).size /\ Opened(h).op # "idle"
      <4>1. Opened(h) \in Conn /\ Opened(h).pos = 0 /\ Opened(h).size = 0 /\ Opened(h).op = "download"
        BY OpenedIs
      <4> QED BY <4>1
    <3> QED BY <3>1, EndedIs
  <2> HIDE DEF k
  <2>3. Cardinality(ServedConns') = Cardinality(ServedConns) /\ Cardinality(ServedConns) \in Nat
    <3>1. /\ Cardinality(ServedConns) \in Nat
          /\ Cardinality(ServedConns') =
               Cardinality(ServedConns) + (IF Served(k) THEN 1 ELSE 0)
                                        - (IF Served(conn[c]) THEN 1 ELSE 0)
      BY <2>1, <2>2, ServedChanges
    <3> QED BY <1>0, <2>2, <3>1
  <2>4. HeapOK'
    BY <1>0, <2>1, <2>3, HeapAssumption DEF HeapOK
  <2> QED BY <1>0, <2>1, <2>2, <2>4, ConnChanges
<1> QED BY <1>1, <1>2

\* A download that is being served is in the middle of it.
LEMMA DownloadingIs ==
  ASSUME ConnsOK, NEW c \in Conns, conn[c].op = "download", conn[c].st = "SEND"
  PROVE  Sending(conn[c]) /\ Served(conn[c])
  BY DEF ConnsOK, ConnOK, Served, Sending

LEMMA DownloadPartBase ==
  ASSUME Base, NEW c \in Conns, DownloadPart(c)
  PROVE  Base' /\ \A d \in Conns : d # c => conn'[d] = conn[d]
<1> USE DEF Base
<1>1. /\ Sending(conn[c]) /\ Served(conn[c]) /\ SendPart(c, conn[c], blocks) /\ lost' = lost
      /\ blocks \in Nat /\ TableOK'
  BY DownloadingIs DEF DownloadPart, HeapOK, TableOK
<1>2. /\ ConnsOK' /\ conn' = [conn EXCEPT ![c] = conn'[c]] /\ ConnOK(conn'[c])
      /\ \A d \in Conns : d # c => conn'[d] = conn[d]
      /\ blocks' = IF Served(conn'[c]) THEN blocks ELSE blocks - 1
  BY <1>1, SendPartIs
<1>3. blocks' = blocks + (IF Served(conn'[c]) THEN 1 ELSE 0) - (IF Served(conn[c]) THEN 1 ELSE 0)
  BY <1>1, <1>2
<1>4. HeapOK'
  BY <1>1, <1>2, <1>3, HeapChanges
<1> QED BY <1>1, <1>2, <1>4

\* A connection in the middle of the index.
Listing(k) == k \in Conn /\ k.op = "fileidx" /\ k.st = "SEND" /\ k.reply = "none" /\ k.pos <= k.size

\* One entry of the index, or its end.
LEMMA ListEntryIs ==
  ASSUME TableOK, ConnsOK, NEW c \in Conns, NEW k, Listing(k), ListEntry(c, k)
  PROVE  LET n == conn'[c]
             h == NextEntry(fs, k.fd)
         IN  /\ ConnsOK' /\ conn' = [conn EXCEPT ![c] = n] /\ ConnOK(n) /\ ~Served(n)
             /\ \A d \in Conns : d # c => conn'[d] = conn[d]
             /\ n.op = "fileidx"
             /\ h = INVALID => n.st = "ENDED" /\ n.reply = "done" /\ n.fd = k.fd /\ n.sent = k.sent
             /\ h # INVALID => /\ n.st = "SEND" /\ n.reply = "none" /\ n.fd = h
                               /\ n.sent = Append(k.sent, h)
<1> DEFINE h == NextEntry(fs, k.fd)
           more == [k EXCEPT !.fd = h, !.sent = Append(@, h)]
           next == IF h = INVALID THEN Ended(k, "done") ELSE more
<1>1. k \in Conn /\ k.fd \in Int /\ k.sent \in Seq(Part \cup Slots)
  <2>1. k \in Conn /\ k.fd \in Slots \cup {INVALID} /\ k.sent \in Seq(Part \cup Slots)
    BY DEF Listing, Conn
  <2>2. Slots \subseteq Int /\ INVALID \in Int
    BY SlotsFacts DEF INVALID
  <2> QED BY <2>1, <2>2
<1>2. DOMAIN fs \subseteq Slots
  BY DEF TableOK, IsTable
<1>3. h = INVALID \/ h \in Slots
  <2>1. \/ NextEntry(fs, k.fd) = INVALID
        \/ NextEntry(fs, k.fd) \in DOMAIN fs
    BY <1>1, <1>2, NextEntryIs
  <2> QED BY <1>2, <2>1
<1>4. conn' = [conn EXCEPT ![c] = next]
  BY DEF ListEntry
<1> HIDE DEF h
<1>5. CASE h = INVALID
  <2>0. k.op = "fileidx" /\ k.pos <= k.size
    BY DEF Listing
  <2>1. next = Ended(k, "done")
    BY <1>5
  <2>2. /\ ConnOK(next) /\ ~Served(next) /\ next.op = "fileidx" /\ next.st = "ENDED"
        /\ next.reply = "done" /\ next.fd = k.fd /\ next.sent = k.sent
    <3> HIDE DEF next
    <3>1. k.op # "idle" /\ "done" \in {"none", "done", "error", "404"}
      BY <2>0
    <3> QED BY <1>1, <2>0, <2>1, <3>1, EndedIs
  <2> HIDE DEF next
  <2> QED BY <1>4, <1>5, <2>2, ConnChanges DEF h
<1>6. CASE h # INVALID
  <2> DEFINE sent == Append(k.sent, h)
  <2>1. sent \in Seq(Part \cup Slots) /\ next = [k EXCEPT !.fd = h, !.sent = sent]
    <3>1. h \in Part \cup Slots
      BY <1>3, <1>6
    <3> QED BY <1>1, <1>6, <3>1, AppendProperties
  <2>2. k.op = "fileidx" /\ k.st = "SEND" /\ k.reply = "none" /\ k.pos <= k.size
    BY DEF Listing
  <2> HIDE DEF sent, next
  <2>3. /\ next \in Conn /\ next.op = "fileidx" /\ next.st = "SEND" /\ next.reply = "none"
        /\ next.fd = h /\ next.sent = sent /\ next.pos = k.pos /\ next.size = k.size
    BY <1>1, <1>3, <2>1, <2>2 DEF Conn
  <2>4. ConnOK(next) /\ ~Served(next)
    BY <2>2, <2>3 DEF ConnOK, Served
  <2> QED BY <1>4, <1>6, <2>3, <2>4, ConnChanges DEF h, sent
<1> QED BY <1>5, <1>6

\* The connection of a listing before its first entry.
NewList == [Idle EXCEPT !.op = "fileidx", !.st = "SEND"]

LEMMA NewListIs == Listing(NewList) /\ NewList.fd = INVALID /\ NewList.sent = << >>
<1>1. /\ Idle \in Conn /\ Idle.pos = 0 /\ Idle.size = 0 /\ Idle.sent = << >>
      /\ Idle.reply = "none" /\ Idle.fd = INVALID
  BY IdleIs DEF ConnOK, Idle
<1>2. /\ NewList \in Conn /\ NewList.op = "fileidx" /\ NewList.st = "SEND"
      /\ NewList.reply = "none" /\ NewList.pos = 0 /\ NewList.size = 0
      /\ NewList.fd = INVALID /\ NewList.sent = << >>
  BY <1>1 DEF NewList, Conn
<1> QED BY <1>2 DEF Listing

LEMMA ListingIs ==
  ASSUME ConnsOK, NEW c \in Conns, conn[c].op = "fileidx", conn[c].st = "SEND"
  PROVE  Listing(conn[c])
  BY DEF ConnsOK, ConnOK, Listing

\* A step that leaves the files and the heap alone and changes a connection
\* without a block into another one without a block.
LEMMA QuietConn ==
  ASSUME Base, NEW c \in Conns, ~Served(conn[c]), NEW k, ConnOK(k), ~Served(k),
         conn' = [conn EXCEPT ![c] = k], UNCHANGED <<blocks, lost>>
  PROVE  HeapOK'
<1>1. blocks' = blocks + (IF Served(k) THEN 1 ELSE 0) - (IF Served(conn[c]) THEN 1 ELSE 0)
  BY DEF Base, HeapOK
<1> QED BY <1>1, HeapChanges DEF Base

LEMMA ListStartBase ==
  ASSUME Base, NEW c \in Conns, ListStart(c)
  PROVE  Base' /\ \A d \in Conns : d # c => conn'[d] = conn[d]
<1> USE DEF Base
<1>1. ~Served(conn[c]) /\ ListEntry(c, NewList) /\ UNCHANGED <<blocks, lost>> /\ TableOK'
  BY IdleIs DEF ListStart, NewList, TableOK
<1>2. /\ ConnsOK' /\ conn' = [conn EXCEPT ![c] = conn'[c]] /\ ConnOK(conn'[c])
      /\ ~Served(conn'[c]) /\ \A d \in Conns : d # c => conn'[d] = conn[d]
  BY <1>1, NewListIs, ListEntryIs
<1> QED BY <1>1, <1>2, QuietConn
LEMMA ListNextBase ==
  ASSUME Base, NEW c \in Conns, ListNext(c)
  PROVE  Base' /\ \A d \in Conns : d # c => conn'[d] = conn[d]
<1> USE DEF Base
<1>1. /\ ~Served(conn[c]) /\ Listing(conn[c]) /\ ListEntry(c, conn[c])
      /\ UNCHANGED <<blocks, lost>> /\ TableOK'
  BY ListingIs DEF ListNext, Served, TableOK
<1>2. /\ ConnsOK' /\ conn' = [conn EXCEPT ![c] = conn'[c]] /\ ConnOK(conn'[c])
      /\ ~Served(conn'[c]) /\ \A d \in Conns : d # c => conn'[d] = conn[d]
  BY <1>1, ListEntryIs
<1> QED BY <1>1, <1>2, QuietConn

\* cgiDelete removes the files with the doomed names.
LEMMA FilesWithoutIs ==
  ASSUME TableOK, NEW gone
  PROVE  /\ IsTable(FilesWithout(gone), Names, Part)
         /\ \A h : h \in DOMAIN FilesWithout(gone) <=> h \in DOMAIN fs /\ fs[h].name \notin gone
         /\ \A h \in DOMAIN FilesWithout(gone) : FilesWithout(gone)[h] = fs[h]
<1> DEFINE D == {h \in DOMAIN fs : fs[h].name \notin gone}
<1>1. FilesWithout(gone) = [h \in D |-> fs[h]] /\ D \in SUBSET DOMAIN fs
  BY DEF FilesWithout
<1> HIDE DEF D
<1>2. IsTable(FilesWithout(gone), Names, Part)
  BY <1>1, RestrictIsTable DEF TableOK
<1>3. DOMAIN FilesWithout(gone) = D /\ \A h \in D : FilesWithout(gone)[h] = fs[h]
  BY <1>1
<1> QED BY <1>2, <1>3 DEF D

LEMMA DeleteBase ==
  ASSUME Base, NEW c \in Conns, NEW h \in Slots \cup {INVALID}, Delete(c, h)
  PROVE  /\ Base' /\ conn'[c].op = "delete"
         /\ \A d \in Conns : d # c => conn'[d] = conn[d]
<1> USE DEF Base
<1> DEFINE r == [Idle EXCEPT !.op = "delete", !.fd = h]
           k == Ended(r, "done")
<1>1. r \in Conn /\ r.op = "delete" /\ r.pos = 0 /\ r.size = 0
  <2>1. Idle \in Conn /\ Idle.pos = 0 /\ Idle.size = 0
    BY IdleIs DEF ConnOK, Idle
  <2> QED BY <2>1 DEF Conn
<1>2. conn' = [conn EXCEPT ![c] = k] /\ UNCHANGED <<blocks, lost>> /\ ~Served(conn[c])
  BY IdleIs DEF Delete
<1> HIDE DEF r
<1>3. ConnOK(k) /\ ~Served(k) /\ k.op = "delete"
  BY <1>1, EndedIs
<1> HIDE DEF k
<1>4. PICK gone : fs' = FilesWithout(gone)
  BY DEF Delete
<1>5. TableOK'
  BY <1>4, FilesWithoutIs DEF TableOK
<1> QED BY <1>2, <1>3, <1>5, QuietConn, ConnChanges

LEMMA CloseBase ==
  ASSUME Base, NEW c \in Conns, Close(c)
  PROVE  /\ Base' /\ conn'[c] = Idle
         /\ \A d \in Conns : d # c => conn'[d] = conn[d]
<1> USE DEF Base
<1>1. /\ conn' = [conn EXCEPT ![c] = Idle] /\ UNCHANGED <<blocks, lost>> /\ ~Served(conn[c])
      /\ TableOK'
  BY DEF Close, Served, TableOK
<1> QED BY <1>1, IdleIs, QuietConn, ConnChanges

LEMMA AbortBase ==
  ASSUME Base, NEW c \in Conns, Abort(c)
  PROVE  /\ Base' /\ conn'[c] = Idle
         /\ \A d \in Conns : d # c => conn'[d] = conn[d]
<1> USE DEF Base
<1>1. /\ conn' = [conn EXCEPT ![c] = Idle] /\ lost' = lost
      /\ blocks' = IF Served(conn[c]) THEN blocks - 1 ELSE blocks
      /\ TableOK'
  BY DEF Abort, Served, TableOK
<1>2. ~Served(Idle) /\ ConnOK(Idle)
  BY IdleIs
<1>3. blocks' = blocks + (IF Served(Idle) THEN 1 ELSE 0) - (IF Served(conn[c]) THEN 1 ELSE 0)
  BY <1>1, <1>2 DEF HeapOK
<1> QED BY <1>1, <1>2, <1>3, HeapChanges, ConnChanges

\* A restart leaves no connection and no heap block.
LEMMA RestartBase ==
  ASSUME Restart, TableOK'
  PROVE  Base' /\ \A d \in Conns : conn'[d] = Idle
<1>1. /\ conn' = [c \in Conns |-> Idle] /\ blocks' = 0 /\ lost' = 0
  BY DEF Restart
<1>2. ConnsOK' /\ \A d \in Conns : conn'[d] = Idle
  BY <1>1, IdleIs DEF ConnsOK, ConnOK
<1>3. ServedConns' = {}
  BY <1>2, IdleIs DEF ServedConns
<1>4. HeapOK'
  BY <1>1, <1>3, FS_EmptySet, HeapAssumption DEF HeapOK
<1> QED BY <1>2, <1>4 DEF Base
\* A power cut, the start of an app and its end.
LEMMA RestartSteps ==
  ASSUME Base, \/ LaunchApp \/ AppExits \/ PowerCut
               \/ \E c \in Deleters, h \in Slots : PowerCutInDelete(c, h)
  PROVE  Base' /\ \A d \in Conns : conn'[d] = Idle
<1>1. Restart /\ fs' = fs
  BY Zenon DEF LaunchApp, AppExits, PowerCut, PowerCutInDelete
<1>2. TableOK'
  BY <1>1 DEF TableOK, Base
<1> QED BY <1>1, <1>2, RestartBase

\* One round of delete_temp_files removes at most the file it has reached.
LEMMA BootCleanIs ==
  ASSUME Base, BootClean, bootPos \in Int
  PROVE  /\ Base' /\ conn' = conn
         /\ \/ power' = "on" /\ fs' = fs /\ \A x \in DOMAIN fs : x <= bootPos
            \/ /\ power' = "boot" /\ bootPos' \in DOMAIN fs /\ bootPos' > bootPos
               /\ \A x \in DOMAIN fs : x > bootPos => bootPos' <= x
               /\ \A x : x \in DOMAIN fs' <=>
                          /\ x \in DOMAIN fs
                          /\ fs[bootPos'].name \in TempNames => fs[x].name # fs[bootPos'].name
               /\ \A x \in DOMAIN fs' : fs'[x] = fs[x]
<1> USE DEF Base
<1> DEFINE h == NextEntry(fs, bootPos)
<1>1. IsTable(fs, Names, Part) /\ DOMAIN fs \subseteq Slots
  BY DEF TableOK, IsTable
<1>2. \/ h = INVALID /\ \A x \in DOMAIN fs : x <= bootPos
      \/ h \in DOMAIN fs /\ h > bootPos /\ \A x \in DOMAIN fs : x > bootPos => h <= x
  BY <1>1, NextEntryIs
<1>3. conn' = conn /\ UNCHANGED <<blocks, lost>>
  BY DEF BootClean
<1>4. HeapOK' /\ ConnsOK'
  BY <1>3 DEF HeapOK, ServedConns, ConnsOK
<1>5. CASE h = INVALID
  <2>1. power' = "on" /\ fs' = fs
    BY <1>5 DEF BootClean
  <2>2. h \notin DOMAIN fs
    BY <1>1, <1>5, SlotsFacts
  <2> HIDE DEF h
  <2> QED BY <1>2, <1>3, <1>4, <2>1, <2>2 DEF TableOK
<1>6. CASE h # INVALID
  <2>1. /\ power' = "boot" /\ bootPos' = h
        /\ fs' = IF IsTemp(fs[h].name) THEN DeleteFile(fs, fs[h].name) ELSE fs
    BY <1>6 DEF BootClean
  <2> HIDE DEF h
  <2>2. h \in DOMAIN fs /\ h > bootPos /\ \A x \in DOMAIN fs : x > bootPos => h <= x
    BY <1>2, <1>6
  <2>3. CASE fs[h].name \in TempNames
    <3>1. fs' = DeleteFile(fs, fs[h].name)
      BY <2>1, <2>3 DEF IsTemp
    <3>2. /\ IsTable(fs', Names, Part)
          /\ \A x : x \in DOMAIN fs' <=> x \in DOMAIN fs /\ fs[x].name # fs[h].name
          /\ \A x \in DOMAIN fs' : fs'[x] = fs[x]
      BY <1>1, <3>1, DeleteFileIs
    <3> QED BY <1>3, <1>4, <2>1, <2>2, <2>3, <3>2 DEF TableOK
  <2>4. CASE fs[h].name \notin TempNames
    <3>1. fs' = fs
      BY <2>1, <2>4 DEF IsTemp
    <3> QED BY <1>1, <1>3, <1>4, <2>1, <2>2, <2>4, <3>1 DEF TableOK
  <2> QED BY <2>3, <2>4
<1> QED BY <1>5, <1>6

\* The roles are connections.
LEMMA Roles == /\ Uploaders \subseteq Conns /\ Downloaders \subseteq Conns
               /\ Listers \subseteq Conns /\ Deleters \subseteq Conns
  BY RolesAssumption

\* How a step of the web server changes a connection d.
ConnStep(d) ==
  \/ conn'[d] = conn[d]
  \/ conn'[d] = Idle
  \/ conn'[d].op \in {"upload", "delete"}
  \/ conn'[d].op = "download" /\ conn'[d].st = "ENDED" /\ conn'[d].reply = "none"
  \/ \E h \in Slots \cup {INVALID} : DownloadStart(d, h)
  \/ DownloadPart(d) \/ ListStart(d) \/ ListNext(d)

LEMMA WebServerBase == ASSUME Base, WebServer PROVE Base' /\ \A d \in Conns : ConnStep(d)
<1>0. PICK c \in Conns : Request(c) \/ Handler(c) \/ Close(c) \/ Abort(c)
  BY DEF WebServer
<1>1. CASE \E n \in Names \ {TempName}, b \in Bodies : UploadStart(c, n, b)
  BY <1>1, UploadStartBase DEF ConnStep
<1>2. CASE \E h \in Slots \cup {INVALID} : DownloadStart(c, h)
  BY <1>2, DownloadStartBase DEF ConnStep
<1>3. CASE NoMemory(c, "upload") \/ NoMemory(c, "download")
  BY <1>3, NoMemoryBase DEF ConnStep
<1>4. CASE ListStart(c)
  BY <1>4, ListStartBase DEF ConnStep
<1>5. CASE \E h \in Slots \cup {INVALID} : Delete(c, h)
  BY <1>5, DeleteBase DEF ConnStep
<1>6. CASE UploadPart(c)
  BY <1>6, UploadPartBase DEF ConnStep
<1>7. CASE UploadEat(c)
  BY <1>7, UploadEatBase DEF ConnStep
<1>8. CASE DownloadPart(c)
  BY <1>8, DownloadPartBase DEF ConnStep
<1>9. CASE ListNext(c)
  BY <1>9, ListNextBase DEF ConnStep
<1>10. CASE Close(c) \/ Abort(c)
  BY <1>10, CloseBase, AbortBase DEF ConnStep
<1> QED BY <1>0, <1>1, <1>2, <1>3, <1>4, <1>5, <1>6, <1>7, <1>8, <1>9, <1>10
        DEF Request, Handler

\* Two steps of the menu that leave the files and the connections alone.
LEMMA MenuBase == ASSUME Base, (\E h \in Slots : PickApp(h)) \/ AppStores
                  PROVE  Base' /\ conn' = conn /\ fs' = fs
<1>1. conn' = conn /\ fs' = fs /\ blocks' = blocks /\ lost' = lost
  BY DEF PickApp, AppStores
<1> QED BY <1>1 DEF Base, TableOK, ConnsOK, HeapOK, ServedConns
(***************************************************************************)
(* Which names a step can take away: an upload only the temporary one, the *)
(* clean-up only temporary ones, a delete only the doomed one.             *)
(***************************************************************************)

LEMMA UploadStartNames ==
  ASSUME Base, NEW c \in Conns, NEW n \in Names \ {TempName}, NEW b \in Bodies,
         UploadStart(c, n, b), NEW m, m # TempName, Exists(fs, m)
  PROVE  Exists(fs', m)
<1>1. PICK h \in DOMAIN fs : fs[h].name = m
  BY DEF Exists
<1>2. IsTable(fs, Names, Part) /\ BodyLen[b] \in Nat \ {0} /\ TempName \in Names
  BY BodyIs, NamesAssumption DEF Base, TableOK
<1>3. h \in DOMAIN DeleteFile(fs, TempName) /\ DeleteFile(fs, TempName)[h] = fs[h]
  BY <1>1, <1>2, DeleteFileIs
<1>4. CASE Creates(c, n, b)
  <2>1. h \in DOMAIN fs' /\ fs'[h] = fs[h]
    BY <1>2, <1>3, <1>4, CreateFileIs, JunkPart DEF Creates
  <2> QED BY <1>1, <2>1 DEF Exists
<1>5. CASE CreatesNot(c, n, b)
  BY <1>1, <1>3, <1>5 DEF CreatesNot, Exists
<1> QED BY <1>4, <1>5, UploadStartIs

LEMMA UploadPartNames ==
  ASSUME Base, NEW c \in Conns, UploadPart(c), NEW m, m # TempName, Exists(fs, m)
  PROVE  Exists(fs', m)
<1>0. PICK ok \in BOOLEAN, renamed \in BOOLEAN : PartDone(c, ok, renamed)
  BY UploadPartIs
<1> DEFINE k == conn[c]
           w == Flashed(k, ok)
<1>1. PICK h \in DOMAIN fs : fs[h].name = m
  BY DEF Exists
<1>2. k.op = "upload" /\ k.st = "WRITE" /\ k.name # TempName /\ k.name \in Names
  BY DEF UploadPart, Base, ConnsOK, ConnOK, Served, Conn
<1>3. /\ IsTable(w, Names, Part) /\ DOMAIN w = DOMAIN fs
      /\ \A x \in DOMAIN fs : w[x].name = fs[x].name
  BY <1>2, FlashedIs
<1>4. /\ fs' = IF renamed THEN Rename(w, TempName, k.name) ELSE w
      /\ renamed => Exists(fs, TempName)
  BY <1>0 DEF PartDone
<1> HIDE DEF w, k
<1>5. CASE renamed
  <2>0. fs' = Rename(w, TempName, k.name)
    BY <1>4, <1>5
  <2>1. /\ \A x : x \in DOMAIN fs' <=> x \in DOMAIN w /\ w[x].name # k.name
        /\ \A x \in DOMAIN fs' : fs'[x].name = IF w[x].name = TempName THEN k.name ELSE w[x].name
    <3> DEFINE u == Rename(w, TempName, k.name)
    <3>1. /\ \A x : x \in DOMAIN u <=> x \in DOMAIN w /\ w[x].name # k.name
          /\ \A x \in DOMAIN u : u[x].name = IF w[x].name = TempName THEN k.name ELSE w[x].name
      BY <1>2, <1>3, RenameIs
    <3> QED BY <2>0, <3>1
  <2>2. CASE m # k.name
    <3>1. h \in DOMAIN fs' /\ fs'[h].name = m
      BY <1>1, <1>3, <2>1, <2>2
    <3> QED BY <3>1 DEF Exists
  <2>3. CASE m = k.name
    <3>1. PICK x \in DOMAIN fs : fs[x].name = TempName
      BY <1>4, <1>5 DEF Exists
    <3>2. x \in DOMAIN fs' /\ fs'[x].name = k.name
      BY <1>2, <1>3, <2>1, <3>1
    <3> QED BY <2>3, <3>2 DEF Exists
  <2> QED BY <2>2, <2>3
<1>6. CASE ~renamed
  BY <1>1, <1>3, <1>4, <1>6 DEF Exists
<1> QED BY <1>5, <1>6

(***************************************************************************)
(* NVS, the clean-up and the history variables.                            *)
(***************************************************************************)

\* The types of everything but files, connections and heap; only the names of
\* apps get into NVS.
SystemOK ==
  /\ power \in {"boot", "on", "app"}
  /\ bootPos \in Slots \cup {INVALID} /\ gui \in Slots \cup {INVALID}
  /\ running.name \in Names
  /\ nvs \subseteq AppNames /\ kept \subseteq Names
  /\ present \in [Conns -> SUBSET Slots] /\ intact \in [Conns -> BOOLEAN]

\* The app that runs has a file: nothing changes the files while it runs.
RunningHasFile == power = "app" => Exists(fs, running.name)

\* The clean-up has removed the temporary files up to its position.
CleanedUp ==
  power = "boot" => \A h \in DOMAIN fs : h <= bootPos => fs[h].name \notin TempNames

SystemInv == SystemOK /\ NvsHasFile /\ RunningHasFile /\ CleanedUp

\* The history variables have their types after every step.
LEMMA HistoryTypes ==
  ASSUME Base, Base', SystemOK, History
  PROVE  present' \in [Conns -> SUBSET Slots] /\ intact' \in [Conns -> BOOLEAN]
<1>1. DOMAIN fs \subseteq Slots /\ DOMAIN fs' \subseteq Slots
  BY DEF Base, TableOK, IsTable
<1>2. present' \in [Conns -> SUBSET Slots]
  BY <1>1 DEF History, SystemOK
<1>3. intact' \in [Conns -> BOOLEAN]
  BY DEF History
<1> QED BY <1>2, <1>3

\* The web server's steps keep the names in NVS covered.
LEMMA WebServerSystem ==
  ASSUME Base, Base', SystemInv, WebServer, History PROVE SystemInv'
<1> USE DEF SystemInv
<1>0. PICK c \in Conns : Request(c) \/ Handler(c) \/ Close(c) \/ Abort(c)
  BY SMTT(30) DEF WebServer
<1>1. power = "on" /\ UNCHANGED <<power, bootPos, gui, running>>
  BY <1>0 DEF Request, Handler, UploadStart, UploadPart, UploadEat, NoMemory, DownloadStart,
     DownloadPart, ListStart, ListNext, Delete, Close, Abort, system
<1>2. RunningHasFile' /\ CleanedUp'
  BY <1>1 DEF RunningHasFile, CleanedUp
<1>3. TempName \notin AppNames
  BY NamesAssumption
<1>4. CASE \E n \in Names \ {TempName}, b \in Bodies : UploadStart(c, n, b)
  <2>1. UNCHANGED <<nvs, kept>>
    BY <1>4 DEF UploadStart
  <2>2. NvsHasFile'
    BY <1>3, <1>4, <2>1, UploadStartNames DEF NvsHasFile, SystemOK
  <2> QED BY <1>1, <1>2, <2>1, <2>2, HistoryTypes DEF SystemOK
<1>5. CASE UploadPart(c)
  <2>1. UNCHANGED <<nvs, kept>>
    BY <1>5 DEF UploadPart
  <2>2. NvsHasFile'
    BY <1>3, <1>5, <2>1, UploadPartNames DEF NvsHasFile, SystemOK
  <2> QED BY <1>1, <1>2, <2>1, <2>2, HistoryTypes DEF SystemOK
<1>6. CASE \E h \in Slots \cup {INVALID} : Delete(c, h)
  <2>1. PICK h \in Slots \cup {INVALID} : Delete(c, h)
    BY <1>6
  <2>2. PICK gone \in Doomed(h), opened \in BOOLEAN :
          /\ nvs' = IF opened THEN NvsWithout(gone) ELSE nvs
          /\ kept' = IF opened THEN kept \ gone ELSE kept \cup (gone \cap nvs)
          /\ fs' = FilesWithout(gone)
    BY <2>1 DEF Delete
  <2>3. nvs' \subseteq nvs /\ kept' \subseteq kept \cup nvs
    BY <2>2 DEF NvsWithout
  <2>4. \A n \in nvs' \ kept' : n \in nvs \ kept /\ n \notin gone
    BY <2>2 DEF NvsWithout
  <2>5. \A n : Exists(fs, n) /\ n \notin gone => Exists(fs', n)
    <3>1. /\ \A x : x \in DOMAIN fs' <=> x \in DOMAIN fs /\ fs[x].name \notin gone
          /\ \A x \in DOMAIN fs' : fs'[x] = fs[x]
      BY <2>2, FilesWithoutIs DEF Base
    <3> QED BY <3>1 DEF Exists
  <2>6. NvsHasFile'
    BY <2>4, <2>5 DEF NvsHasFile
  <2>7. nvs' \subseteq AppNames /\ kept' \subseteq Names
    BY <2>3, NamesAssumption DEF SystemOK
  <2> QED BY <1>1, <1>2, <2>6, <2>7, HistoryTypes DEF SystemOK
<1>7. CASE UNCHANGED <<fs, nvs, kept>>
  <2>1. NvsHasFile'
    BY <1>7, SMTT(30) DEF NvsHasFile
  <2> QED BY <1>1, <1>2, <1>7, <2>1, HistoryTypes DEF SystemOK
<1>8. \/ \E n \in Names \ {TempName}, b \in Bodies : UploadStart(c, n, b)
      \/ UploadPart(c)
      \/ \E h \in Slots \cup {INVALID} : Delete(c, h)
      \/ UNCHANGED <<fs, nvs, kept>>
  BY <1>0 DEF Request, Handler, UploadEat, NoMemory, DownloadStart, DownloadPart, ListStart,
     ListNext, Close, Abort
<1> QED BY <1>4, <1>5, <1>6, <1>7, <1>8

\* A restart into the chooser: the clean-up begins at the first file.
LEMMA RestartSystem ==
  ASSUME Base, Base', SystemInv, History,
         \/ AppExits \/ PowerCut \/ \E c \in Deleters, h \in Slots : PowerCutInDelete(c, h)
  PROVE  SystemInv'
<1> USE DEF SystemInv
<1>1. /\ gui' = INVALID /\ bootPos' = INVALID /\ power' = "boot" /\ running' = Nothing
      /\ fs' = fs
  BY DEF AppExits, PowerCut, PowerCutInDelete, Restart
<1>2. \E gone : nvs' = nvs \ gone /\ kept' = kept \ gone
  <2>1. CASE AppExits \/ PowerCut
    <3>1. nvs' = nvs \ {} /\ kept' = kept \ {}
      BY <2>1 DEF AppExits, PowerCut
    <3> QED BY <3>1
  <2>2. CASE \E c \in Deleters, h \in Slots : PowerCutInDelete(c, h)
    BY <2>2 DEF PowerCutInDelete, NvsWithout
  <2> QED BY <2>1, <2>2
<1>3. \A n \in nvs' \ kept' : n \in nvs \ kept
  BY <1>2
<1>4. nvs' \subseteq AppNames /\ kept' \subseteq Names /\ NvsHasFile'
  BY <1>1, <1>2, <1>3 DEF SystemOK, NvsHasFile
<1>5. CleanedUp'
  <2>1. \A h \in DOMAIN fs : ~(h <= INVALID)
    BY SlotsFacts DEF Base, TableOK, IsTable, INVALID
  <2> QED BY <1>1, <2>1 DEF CleanedUp
<1>6. running'.name \in Names
  BY <1>1, NamesAssumption DEF Nothing
<1> QED BY <1>1, <1>4, <1>5, <1>6, HistoryTypes DEF SystemOK, RunningHasFile

\* The menu and the running app: an app gets a namespace only while its file
\* is there.
LEMMA MenuSystem ==
  ASSUME Base, Base', SystemInv, Menu, History PROVE SystemInv'
<1> USE DEF SystemInv
<1>1. fs' = fs /\ kept' = kept
  BY DEF Menu, PickApp, LaunchApp, AppStores, AppExits
<1>2. CASE \E h \in Slots : PickApp(h)
  <2>1. /\ gui' \in Slots /\ UNCHANGED <<power, bootPos, running, nvs>>
    BY <1>2 DEF PickApp
  <2> QED BY <1>1, <2>1, HistoryTypes DEF SystemOK, NvsHasFile, RunningHasFile, CleanedUp
<1>3. CASE LaunchApp
  <2>1. gui' = INVALID /\ bootPos' = INVALID /\ nvs' = nvs
    BY <1>3 DEF LaunchApp, Restart
  <2>2. NvsHasFile'
    BY <1>1, <2>1 DEF NvsHasFile
  <2>3. CleanedUp'
    <3>1. \A h \in DOMAIN fs : ~(h <= INVALID)
      BY SlotsFacts DEF Base, TableOK, IsTable, INVALID
    <3> QED BY <1>1, <2>1, <3>1 DEF CleanedUp
  <2>4. CASE FdValid(fs, gui)
    <3>1. power' = "app" /\ running'.name = fs[gui].name
      BY <1>3, <2>4 DEF LaunchApp
    <3>2. fs[gui].name \in Names
      BY <2>4, FileIs DEF FdValid, Base, TableOK
    <3>3. RunningHasFile'
      BY <1>1, <2>4, <3>1 DEF RunningHasFile, FdValid, Exists
    <3> QED BY <1>1, <2>1, <2>2, <2>3, <3>1, <3>2, <3>3, HistoryTypes DEF SystemOK
  <2>5. CASE ~FdValid(fs, gui)
    <3>1. power' = "boot" /\ running'.name \in Names
      BY <1>3, <2>5, NamesAssumption DEF LaunchApp, Nothing
    <3> QED BY <1>1, <2>1, <2>2, <2>3, <3>1, HistoryTypes DEF SystemOK, RunningHasFile
  <2> QED BY <2>4, <2>5
<1>4. CASE AppStores
  <2>1. /\ power = "app" /\ running.name \in AppNames /\ nvs' = nvs \cup {running.name}
        /\ UNCHANGED <<power, bootPos, gui, running>>
    BY <1>4 DEF AppStores, system
  <2>2. NvsHasFile'
    BY <1>1, <2>1 DEF NvsHasFile, RunningHasFile
  <2> QED BY <1>1, <2>1, <2>2, HistoryTypes DEF SystemOK, RunningHasFile, CleanedUp
<1>5. CASE AppExits
  BY <1>5, RestartSystem
<1> QED BY <1>2, <1>3, <1>4, <1>5 DEF Menu

\* Power cuts and start-up: the clean-up never removes an app's file, and has
\* left no temporary file behind its position.
LEMMA PowerSystem ==
  ASSUME Base, Base', SystemInv, Power, History PROVE SystemInv'
<1> USE DEF SystemInv
<1>1. CASE PowerCut
  BY <1>1, RestartSystem
<1>2. CASE \E c \in Deleters, h \in Slots : PowerCutInDelete(c, h)
  BY <1>2, RestartSystem
<1>3. CASE BootClean
  <2>0. bootPos \in Int
    BY SlotsFacts DEF SystemOK, INVALID
  <2>1. power = "boot" /\ UNCHANGED <<nvs, kept, gui, running>>
    BY <1>3 DEF BootClean
  <2>2. \/ power' = "on" /\ fs' = fs /\ \A x \in DOMAIN fs : x <= bootPos
        \/ /\ power' = "boot" /\ bootPos' \in DOMAIN fs /\ bootPos' > bootPos
           /\ \A x \in DOMAIN fs : x > bootPos => bootPos' <= x
           /\ \A x : x \in DOMAIN fs' <=>
                      /\ x \in DOMAIN fs
                      /\ fs[bootPos'].name \in TempNames => fs[x].name # fs[bootPos'].name
           /\ \A x \in DOMAIN fs' : fs'[x] = fs[x]
    BY <1>3, <2>0, BootCleanIs
  <2>3. CASE power' = "on" /\ fs' = fs
    <3>1. bootPos' \in Slots \cup {INVALID}
      BY <1>3, <2>3 DEF BootClean
    <3> QED BY <2>1, <2>3, <3>1, HistoryTypes DEF SystemOK, NvsHasFile, RunningHasFile, CleanedUp
  <2>4. CASE power' = "boot"
    <3>1. /\ bootPos' \in DOMAIN fs
          /\ \A x \in DOMAIN fs : x > bootPos => bootPos' <= x
          /\ \A x : x \in DOMAIN fs' <=>
                      /\ x \in DOMAIN fs
                      /\ fs[bootPos'].name \in TempNames => fs[x].name # fs[bootPos'].name
          /\ \A x \in DOMAIN fs' : fs'[x] = fs[x]
      BY <2>2, <2>4
    <3>2. DOMAIN fs \subseteq Slots /\ bootPos' \in Slots
      BY <3>1 DEF Base, TableOK, IsTable
    <3>3. NvsHasFile'
      <4> SUFFICES ASSUME NEW n \in nvs \ kept PROVE Exists(fs', n)
        BY <2>1 DEF NvsHasFile
      <4>1. PICK x \in DOMAIN fs : fs[x].name = n
        BY DEF NvsHasFile, Exists
      <4>2. n \notin TempNames
        BY NamesAssumption DEF SystemOK
      <4>3. x \in DOMAIN fs' /\ fs'[x].name = n
        BY <3>1, <4>1, <4>2
      <4> QED BY <4>3 DEF Exists
    <3>4. CleanedUp'
      <4> SUFFICES ASSUME NEW x \in DOMAIN fs', x <= bootPos', fs'[x].name \in TempNames
                   PROVE  FALSE
        BY DEF CleanedUp
      <4>1. x \in DOMAIN fs /\ fs[x].name \in TempNames
        BY <3>1
      <4>2. ~(x <= bootPos)
        BY <2>1, <4>1 DEF CleanedUp
      <4>3. x \in Int /\ bootPos' \in Int
        <5>1. x \in Slots
          BY <3>2, <4>1
        <5> QED BY <3>2, <5>1, SlotsFacts
      <4>4. x = bootPos'
        BY <2>0, <3>1, <4>1, <4>2, <4>3
      <4>5. fs[x].name # fs[bootPos'].name
        BY <3>1, <4>1, <4>4
      <4> QED BY <4>4, <4>5
    <3> QED BY <2>1, <2>4, <3>2, <3>3, <3>4, HistoryTypes DEF SystemOK, RunningHasFile
  <2> QED BY <2>2, <2>3, <2>4
<1> QED BY <1>1, <1>2, <1>3 DEF Power

LEMMA InitCore == ASSUME Init PROVE Base /\ SystemInv
<1>1. /\ DOMAIN fs = {} /\ fs = NoFiles /\ nvs = {} /\ kept = {} /\ power = "boot"
      /\ conn = [c \in Conns |-> Idle] /\ blocks = 0 /\ lost = 0
  BY DEF Init, NoFiles
<1>2. TableOK
  BY <1>1 DEF TableOK, IsTable, NoFiles
<1>3. ConnsOK
  BY <1>1, IdleIs DEF ConnsOK, ConnOK
<1>4. ServedConns = {}
  BY <1>1, IdleIs DEF ServedConns
<1>5. HeapOK
  BY <1>1, <1>4, FS_EmptySet, HeapAssumption DEF HeapOK
<1>6. SystemOK
  <2>1. present \in [Conns -> SUBSET Slots] /\ intact \in [Conns -> BOOLEAN]
    BY DEF Init
  <2>2. running.name \in Names /\ bootPos = INVALID /\ gui = INVALID
    BY NamesAssumption DEF Init, Nothing
  <2> QED BY <1>1, <2>1, <2>2 DEF SystemOK
<1> QED BY <1>1, <1>2, <1>3, <1>5, <1>6
        DEF Base, SystemInv, NvsHasFile, RunningHasFile, CleanedUp

\* Every step but the web server's leaves a connection alone or resets it.
LEMMA NextBase == ASSUME Base, SystemOK, Next PROVE Base' /\ \A d \in Conns : ConnStep(d)
<1>0. bootPos \in Int
  BY SlotsFacts DEF SystemOK, INVALID
<1>1. CASE WebServer
  BY <1>1, WebServerBase
<1>2. CASE (\E h \in Slots : PickApp(h)) \/ AppStores
  BY <1>2, MenuBase DEF ConnStep
<1>3. CASE \/ LaunchApp \/ AppExits \/ PowerCut
           \/ \E c \in Deleters, h \in Slots : PowerCutInDelete(c, h)
  BY <1>3, RestartSteps DEF ConnStep
<1>4. CASE BootClean
  BY <1>0, <1>4, BootCleanIs DEF ConnStep
<1> QED BY <1>1, <1>2, <1>3, <1>4 DEF Next, Menu, Power

LEMMA NextCore == ASSUME Base, SystemInv, Next PROVE Base' /\ SystemInv'
<1>1. Base'
  BY NextBase DEF SystemInv
<1> QED BY <1>1, WebServerSystem, MenuSystem, PowerSystem DEF Next

LEMMA StutterCore == ASSUME Base, SystemInv, UNCHANGED vars PROVE Base' /\ SystemInv'
  BY DEF vars, Base, TableOK, ConnsOK, HeapOK, ServedConns, SystemInv, SystemOK, NvsHasFile,
     RunningHasFile, CleanedUp

\* The table, the connections, the heap, NVS and the clean-up are as described
\* in every reachable state.
THEOREM Core == Spec => [](Base /\ SystemInv)
<1>1. Init => Base /\ SystemInv
  BY InitCore
<1>2. Base /\ SystemInv /\ [Next]_vars => (Base /\ SystemInv)'
  BY NextCore, StutterCore
<1> QED BY <1>1, <1>2, PTL DEF Spec

\* Type correctness of the files, the NVS, the connections and the menu.
THEOREM TypeCorrect == Spec => []TypeOK
<1>1. Base /\ SystemInv => TypeOK
  <2> SUFFICES ASSUME Base, SystemInv PROVE TypeOK
    OBVIOUS
  <2> USE DEF Base, SystemInv
  <2>1. ASSUME NEW h \in DOMAIN fs
        PROVE  /\ h \in fs[h].slots /\ fs[h].slots \subseteq Slots /\ fs[h].name \in Names
               /\ Len(fs[h].data) = Cardinality(fs[h].slots)
    BY FileIs DEF TableOK
  <2>2. ASSUME NEW c \in Conns
        PROVE  /\ conn[c].op \in {"idle", "upload", "download", "fileidx", "delete"}
               /\ conn[c].st \in {"START", "WRITE", "SEND", "ERROR", "ENDED"}
               /\ conn[c].fd \in Slots \cup {INVALID} /\ conn[c].name \in Names
               /\ conn[c].pos \in 0..conn[c].size
               /\ conn[c].reply \in {"none", "done", "error", "404"}
    <3>1. conn[c] \in Conn /\ conn[c].pos <= conn[c].size
      BY DEF ConnsOK, ConnOK
    <3>2. conn[c].pos \in Nat /\ conn[c].size \in Nat
      BY <3>1 DEF Conn
    <3>3. conn[c].pos \in 0..conn[c].size
      BY <3>1, <3>2
    <3> QED BY <3>1, <3>3 DEF Conn
  <2>3. blocks \in 0..MaxBlocks /\ lost \in 0..MaxBlocks
    <3>1. Cardinality(ServedConns) \in Nat
      <4>1. ServedConns \in SUBSET Conns
        BY DEF ServedConns
      <4> QED BY <4>1, ConnsAssumption, FS_Subset, FS_CardinalityType
    <3> QED BY <3>1, HeapAssumption DEF HeapOK
  <2>4. nvs \subseteq Names
    BY NamesAssumption DEF SystemOK
  <2> QED BY <2>1, <2>2, <2>3, <2>4 DEF TypeOK, SystemOK
<1> QED BY <1>1, Core, PTL

\* The handlers lose heap only where they answer 404.
THEOREM HeapAccounted == Spec => []BlocksAccounted
<1>1. Base => BlocksAccounted
  <2>1. ServedConns = {c \in Conns : conn[c].op \in {"upload", "download"} /\ conn[c].st # "ENDED"}
    BY DEF ServedConns, Served
  <2> QED BY <2>1 DEF Base, HeapOK, BlocksAccounted
<1> QED BY <1>1, Core, PTL

\* Settings outlive their app only if nvs_open failed when it was deleted.
THEOREM SettingsHaveApp == Spec => []NvsHasFile
  BY Core, PTL DEF SystemInv

\* When the web server and the menu start, no file of a broken upload is left,
\* if appfs deletes what it is asked to.
THEOREM CleanStart == Spec => CleanAfterBoot
<1>1. ASSUME Base, SystemInv, Next, power = "boot", power' = "on"
      PROVE  \A h \in DOMAIN fs' : fs'[h].name \notin TempNames
  <2>0. bootPos \in Int
    BY <1>1, SlotsFacts DEF SystemInv, SystemOK, INVALID
  <2>1. BootClean
    <3>1. CASE WebServer
      <4>1. \A c \in Conns : Request(c) \/ Handler(c) \/ Close(c) \/ Abort(c) => power = "on"
        BY ZenonT(60) DEF Request, Handler, UploadStart, UploadPart, UploadEat, NoMemory, DownloadStart,
           DownloadPart, ListStart, ListNext, Delete, Close, Abort
      <4> QED BY <1>1, <3>1, <4>1, SMTT(30) DEF WebServer
    <3>2. CASE Menu
      BY <1>1, <3>2 DEF Menu, PickApp, LaunchApp, AppStores, AppExits
    <3>3. CASE Power
      BY <1>1, <3>3 DEF Power, PowerCut, PowerCutInDelete
    <3> QED BY <1>1, <3>1, <3>2, <3>3 DEF Next
  <2>2. fs' = fs /\ \A x \in DOMAIN fs : x <= bootPos
    BY <1>1, <2>0, <2>1, BootCleanIs
  <2> QED BY <1>1, <2>2 DEF SystemInv, CleanedUp
<1>2. Base /\ SystemInv /\ [Next]_vars =>
        [power = "boot" /\ power' = "on" => \A h \in DOMAIN fs' : fs'[h].name \notin TempNames]_vars
  BY <1>1
<1> QED BY <1>2, Core, PTL DEF Spec, CleanAfterBoot

(***************************************************************************)
(* Downloads.                                                              *)
(***************************************************************************)

\* What the connection k has sent are the parts of the file f.
Copied(k, f) == Len(f.data) = k.size /\ \A i \in 1..k.pos : k.sent[i] = f.data[i]

\* A download that runs or is done has sent one part per call, and while
\* nobody touched the file, the file's own.
DownloadOK(t, k, same) ==
  k.op = "download" /\ (k.st = "SEND" \/ k.reply = "done") =>
    /\ Len(k.sent) = k.pos
    /\ k.reply = "done" => k.pos = k.size
    /\ same => k.fd \in DOMAIN t /\ Copied(k, t[k.fd])

DownloadInv == \A d \in Conns : DownloadOK(fs, conn[d], intact[d])

\* One more part keeps that true.
LEMMA SendPartCopies ==
  ASSUME TableOK, ConnsOK, NEW c \in Conns, NEW k, Sending(k), NEW held, SendPart(c, k, held),
         fs' = fs, Len(k.sent) = k.pos,
         NEW same, same => k.fd \in DOMAIN fs /\ Copied(k, fs[k.fd])
  PROVE  DownloadOK(fs', conn'[c], same)
<1> DEFINE n == conn'[c]
           i == k.pos + 1
           part == ReadPart(fs, k.fd, i)
           sent == Append(k.sent, part)
<1>1. /\ n.fd = k.fd /\ n.size = k.size /\ n.pos = i /\ n.sent = sent
      /\ n.reply = IF i = k.size THEN "done" ELSE "none"
  BY SendPartIs
<1>2. k.pos \in Nat /\ k.size \in Nat /\ k.pos < k.size /\ k.sent \in Seq(Part \cup Slots)
  BY DEF Sending, Conn
<1>3. part \in Part
  BY ReadPartIs
<1> HIDE DEF n, part
<1>4. Len(sent) = i /\ sent[i] = part /\ \A j \in 1..k.pos : sent[j] = k.sent[j]
  BY <1>2, <1>3
<1> HIDE DEF sent
<1>5. ASSUME same PROVE n.fd \in DOMAIN fs /\ Copied(n, fs[n.fd])
  <2> DEFINE f == fs[k.fd]
  <2>1. k.fd \in DOMAIN fs /\ Len(f.data) = k.size /\ \A j \in 1..k.pos : k.sent[j] = f.data[j]
    BY <1>5 DEF Copied
  <2>2. f.data \in Seq(Part)
    BY <2>1, FileIs DEF TableOK
  <2>3. i \in 1..Len(f.data) /\ i \in DOMAIN f.data
    BY <1>2, <2>1, <2>2
  <2>4. part = f.data[i]
    BY <2>1, <2>3 DEF part, ReadPart, InFile
  <2> HIDE DEF f
  <2>5. \A j \in 1..i : sent[j] = f.data[j]
    BY <1>2, <1>4, <2>1, <2>4
  <2> QED BY <1>1, <2>1, <2>5 DEF Copied, f
<1>6. n.reply = "done" => n.pos = n.size
  BY <1>1
<1> QED BY <1>1, <1>4, <1>5, <1>6 DEF DownloadOK, n, Copied

LEMMA DownloadOp ==
  ASSUME Base, NEW d \in Conns,
         (\E h \in Slots \cup {INVALID} : DownloadStart(d, h)) \/ DownloadPart(d)
  PROVE  conn'[d].op = "download"
<1> USE DEF Base
<1>1. CASE DownloadPart(d)
  BY <1>1, DownloadingIs, SendPartIs DEF DownloadPart
<1>2. CASE \E h \in Slots \cup {INVALID} : DownloadStart(d, h)
  <2>1. PICK h \in Slots \cup {INVALID} : DownloadStart(d, h)
    BY <1>2
  <2>2. CASE FdValid(fs, h)
    <3> DEFINE k == [Opened(h) EXCEPT !.size = Len(fs[h].data)]
    <3>1. Sending(k)
      BY <2>2, OpenedIs, SMTT(30)
    <3>2. SendPart(d, k, blocks + 1)
      BY <2>1, <2>2 DEF DownloadStart, Opened
    <3> HIDE DEF k
    <3> QED BY <3>1, <3>2, SendPartIs
  <2>3. CASE ~FdValid(fs, h)
    <3>1. conn'[d] = Ended(Opened(h), "404")
      BY <2>1, <2>3 DEF DownloadStart, Opened, ConnsOK
    <3>2. Opened(h) \in Conn /\ Opened(h).op = "download"
      BY OpenedIs
    <3> QED BY <3>1, <3>2 DEF Ended, Conn
  <2> QED BY <2>2, <2>3
<1> QED BY <1>1, <1>2

LEMMA ListOp ==
  ASSUME Base, NEW d \in Conns, ListStart(d) \/ ListNext(d) PROVE conn'[d].op = "fileidx"
<1> USE DEF Base
<1>1. CASE ListStart(d)
  BY <1>1, NewListIs, ListEntryIs DEF ListStart, NewList
<1>2. CASE ListNext(d)
  BY <1>2, ListingIs, ListEntryIs DEF ListNext
<1> QED BY <1>1, <1>2

LEMMA DownloadStep ==
  ASSUME Base, DownloadInv, Base', History, NEW d \in Conns, ConnStep(d)
  PROVE  DownloadOK(fs', conn'[d], intact'[d])
<1> USE DEF Base
<1>0. intact'[d] = /\ conn'[d].op = "download" /\ conn'[d].reply # "404"
                   /\ \/ conn[d].op # "download"
                      \/ LET h == conn[d].fd
                         IN  intact[d] /\ FdValid(fs', h) /\ fs'[h].data = fs[h].data
  BY DEF History
<1>1. CASE conn'[d] = conn[d]
  <2> SUFFICES ASSUME conn[d].op = "download", conn[d].st = "SEND" \/ conn[d].reply = "done"
               PROVE  DownloadOK(fs', conn'[d], intact'[d])
    BY <1>1 DEF DownloadOK
  <2>1. /\ Len(conn[d].sent) = conn[d].pos
        /\ conn[d].reply = "done" => conn[d].pos = conn[d].size
        /\ intact[d] => conn[d].fd \in DOMAIN fs /\ Copied(conn[d], fs[conn[d].fd])
    BY DEF DownloadInv, DownloadOK
  <2>2. intact'[d] => /\ intact[d] /\ conn[d].fd \in DOMAIN fs'
                      /\ fs'[conn[d].fd].data = fs[conn[d].fd].data
    BY <1>0 DEF FdValid
  <2> QED BY <1>1, <2>1, <2>2 DEF DownloadOK, Copied
<1>2. CASE conn'[d] = Idle \/ conn'[d].op \in {"upload", "delete"}
  BY <1>2, IdleIs DEF DownloadOK
<1>3. CASE conn'[d].op = "download" /\ conn'[d].st = "ENDED" /\ conn'[d].reply = "none"
  BY <1>3 DEF DownloadOK
<1>4. CASE \E h \in Slots \cup {INVALID} : DownloadStart(d, h)
  <2>1. PICK h \in Slots \cup {INVALID} : DownloadStart(d, h)
    BY <1>4
  <2>2. CASE FdValid(fs, h)
    <3> DEFINE k == [Opened(h) EXCEPT !.size = Len(fs[h].data)]
    <3>1. /\ Sending(k) /\ k.fd = h /\ k.pos = 0 /\ k.size = Len(fs[h].data) /\ k.sent = << >>
      BY <2>2, OpenedIs
    <3>2. SendPart(d, k, blocks + 1) /\ fs' = fs
      BY <2>1, <2>2 DEF DownloadStart, Opened
    <3> HIDE DEF k
    <3>3. Len(k.sent) = k.pos /\ k.fd \in DOMAIN fs /\ Copied(k, fs[k.fd])
      BY <2>2, <3>1 DEF Copied, FdValid
    <3>4. DownloadOK(fs', conn'[d], TRUE)
      BY <3>1, <3>2, <3>3, SendPartCopies
    <3> QED BY <3>4 DEF DownloadOK
  <2>3. CASE ~FdValid(fs, h)
    <3>1. conn' = [conn EXCEPT ![d] = Ended(Opened(h), "404")]
      BY <2>1, <2>3 DEF DownloadStart, Opened
    <3>2. conn'[d] = Ended(Opened(h), "404")
      BY <3>1 DEF ConnsOK
    <3>3. Opened(h) \in Conn /\ Opened(h).pos <= Opened(h).size /\ Opened(h).op # "idle"
      <4>1. Opened(h) \in Conn /\ Opened(h).pos = 0 /\ Opened(h).size = 0 /\ Opened(h).op = "download"
        BY OpenedIs
      <4> QED BY <4>1
    <3>4. conn'[d].st = "ENDED" /\ conn'[d].reply = "404"
      BY <3>2, <3>3, EndedIs
    <3> QED BY <3>4 DEF DownloadOK
  <2> QED BY <2>2, <2>3
<1>5. CASE DownloadPart(d)
  <2> DEFINE k == conn[d]
  <2>1. /\ Sending(k) /\ SendPart(d, k, blocks) /\ fs' = fs /\ k.op = "download" /\ k.st = "SEND"
    BY <1>5, DownloadingIs DEF DownloadPart
  <2>2. Len(k.sent) = k.pos /\ (intact[d] => k.fd \in DOMAIN fs /\ Copied(k, fs[k.fd]))
    BY <2>1 DEF DownloadInv, DownloadOK
  <2>3. DownloadOK(fs', conn'[d], intact[d])
    BY <2>1, <2>2, SendPartCopies
  <2>4. intact'[d] => intact[d]
    BY <1>0, <2>1
  <2> QED BY <2>3, <2>4 DEF DownloadOK
<1>6. CASE ListStart(d) \/ ListNext(d)
  <2>1. conn'[d].op = "fileidx"
    BY <1>6, ListOp
  <2> QED BY <2>1 DEF DownloadOK
<1> QED BY <1>1, <1>2, <1>3, <1>4, <1>5, <1>6 DEF ConnStep

(***************************************************************************)
(* The index.                                                              *)
(***************************************************************************)

\* The entries k has sent are increasing handles up to its position, and every
\* file of P up to that position is among them.
Listed(k, P) ==
  /\ k.sent \in Seq(Slots)
  /\ \A i, j \in DOMAIN k.sent : i < j => k.sent[i] < k.sent[j]
  /\ \A i \in DOMAIN k.sent : k.sent[i] <= k.fd
  /\ \A h \in P : h <= k.fd => \E i \in DOMAIN k.sent : k.sent[i] = h

IndexOK(t, k, P) ==
  k.op = "fileidx" =>
    /\ Listed(k, P)
    /\ k.st = "SEND" => P \subseteq DOMAIN t
    /\ k.reply = "done" => \A h \in P : h <= k.fd

IndexInv == \A d \in Conns : IndexOK(fs, conn[d], present[d])

\* The next entry keeps that true; at the end nothing of P is left.
LEMMA ListEntryLists ==
  ASSUME TableOK, ConnsOK, NEW c \in Conns, NEW k, Listing(k), ListEntry(c, k),
         NEW P \in SUBSET DOMAIN fs, Listed(k, P)
  PROVE  IndexOK(fs, conn'[c], P)
<1> DEFINE n == conn'[c]
           h == NextEntry(fs, k.fd)
<1>0. k.fd \in Slots \cup {INVALID}
  BY DEF Listing, Conn
<1>1. k.fd \in Int /\ INVALID \in Int
  <2>1. Slots \subseteq Int /\ INVALID \in Int
    BY SlotsFacts DEF INVALID
  <2> QED BY <1>0, <2>1
<1>2. DOMAIN fs \subseteq Slots /\ Slots \subseteq Nat /\ INVALID \notin Slots
  BY SlotsFacts DEF TableOK, IsTable
<1>3. \/ h = INVALID /\ \A x \in DOMAIN fs : x <= k.fd
      \/ h \in DOMAIN fs /\ h > k.fd /\ \A x \in DOMAIN fs : x > k.fd => h <= x
  BY <1>1, <1>2, NextEntryIs
<1>4. /\ h = INVALID => n.st = "ENDED" /\ n.fd = k.fd /\ n.sent = k.sent
      /\ h # INVALID => n.st = "SEND" /\ n.reply = "none" /\ n.fd = h /\ n.sent = Append(k.sent, h)
  BY ListEntryIs
<1> HIDE DEF h, n
<1>5. CASE h = INVALID
  <2>1. \A x \in P : x <= k.fd
    BY <1>2, <1>3, <1>5
  <2>2. Listed(n, P)
    BY <1>4, <1>5 DEF Listed
  <2> QED BY <1>4, <1>5, <2>1, <2>2 DEF IndexOK, n
<1>6. CASE h # INVALID
  <2>1. h \in DOMAIN fs /\ h \in Slots /\ h > k.fd /\ \A x \in DOMAIN fs : x > k.fd => h <= x
    BY <1>2, <1>3, <1>6
  <2>2. n.fd = h /\ n.st = "SEND" /\ n.reply = "none" /\ n.sent = Append(k.sent, h)
    BY <1>4, <1>6
  <2>3. /\ k.sent \in Seq(Slots)
        /\ \A i, j \in DOMAIN k.sent : i < j => k.sent[i] < k.sent[j]
        /\ \A i \in DOMAIN k.sent : k.sent[i] <= k.fd
        /\ \A x \in P : x <= k.fd => \E i \in DOMAIN k.sent : k.sent[i] = x
    BY DEF Listed
  <2> DEFINE m == Len(k.sent)
  <2>4. /\ n.sent \in Seq(Slots) /\ Len(n.sent) = m + 1 /\ m \in Nat /\ n.sent[m+1] = h
        /\ \A i \in 1..m : n.sent[i] = k.sent[i]
    BY <2>1, <2>2, <2>3
  <2>5. DOMAIN k.sent = 1..m /\ DOMAIN n.sent = 1..(m+1)
    BY <2>3, <2>4
  <2>6. \A i \in 1..m : k.sent[i] \in Nat
    BY <1>2, <2>3, ElementOfSeq
  <2> HIDE DEF m
  <2>7. h \in Nat
    BY <1>2, <2>1
  <2>8. \A i \in 1..m : n.sent[i] < h
    <3> SUFFICES ASSUME NEW i \in 1..m PROVE n.sent[i] < h
      OBVIOUS
    <3>1. k.sent[i] <= k.fd /\ k.sent[i] \in Nat /\ n.sent[i] = k.sent[i]
      BY <2>3, <2>4, <2>5, <2>6
    <3> QED BY <1>1, <2>1, <2>7, <3>1
  <2>9. \A i, j \in 1..(m+1) : i < j => n.sent[i] < n.sent[j]
    <3> SUFFICES ASSUME NEW i \in 1..(m+1), NEW j \in 1..(m+1), i < j PROVE n.sent[i] < n.sent[j]
      OBVIOUS
    <3>1. i \in 1..m /\ (j \in 1..m \/ j = m + 1)
      BY <2>4
    <3>2. CASE j \in 1..m
      BY <2>3, <2>4, <2>5, <3>1, <3>2
    <3>3. CASE j = m + 1
      BY <2>4, <2>8, <3>1, <3>3
    <3> QED BY <3>1, <3>2, <3>3
  <2>10. \A i \in 1..(m+1) : n.sent[i] <= h
    <3> SUFFICES ASSUME NEW i \in 1..(m+1) PROVE n.sent[i] <= h
      OBVIOUS
    <3>1. i \in 1..m \/ i = m + 1
      BY <2>4
    <3>2. CASE i \in 1..m
      BY <2>4, <2>6, <2>7, <2>8, <3>2
    <3>3. CASE i = m + 1
      BY <2>4, <2>7, <3>3
    <3> QED BY <3>1, <3>2, <3>3
  <2>11. ASSUME NEW x \in P, x <= h PROVE \E i \in 1..(m+1) : n.sent[i] = x
    <3>0. x \in DOMAIN fs /\ x \in Nat
      BY <1>2
    <3>1. CASE x <= k.fd
      <4>1. PICK i \in 1..m : k.sent[i] = x
        BY <2>3, <2>5, <3>1
      <4> QED BY <2>4, <4>1
    <3>2. CASE ~(x <= k.fd)
      <4>1. x = h
        BY <1>1, <2>1, <2>7, <2>11, <3>0, <3>2
      <4> QED BY <2>4, <4>1
    <3> QED BY <3>1, <3>2
  <2>12. Listed(n, P)
    BY <2>2, <2>4, <2>5, <2>9, <2>10, <2>11 DEF Listed
  <2> QED BY <2>2, <2>12 DEF IndexOK, n
<1> QED BY <1>5, <1>6

LEMMA IndexStep ==
  ASSUME Base, IndexInv, Base', History, NEW d \in Conns, ConnStep(d)
  PROVE  IndexOK(fs', conn'[d], present'[d])
<1> USE DEF Base
<1>0. present'[d] = IF conn'[d].op # "fileidx" THEN {}
                    ELSE IF conn[d].op # "fileidx" THEN DOMAIN fs
                    ELSE IF conn[d].st = "ENDED" THEN present[d]
                    ELSE present[d] \cap DOMAIN fs'
  BY DEF History
<1>i. IndexOK(fs, conn[d], present[d])
  BY DEF IndexInv
<1>1. CASE conn'[d] = conn[d]
  <2> SUFFICES ASSUME conn[d].op = "fileidx" PROVE IndexOK(fs', conn'[d], present'[d])
    BY <1>1 DEF IndexOK
  <2>1. /\ Listed(conn[d], present[d])
        /\ conn[d].reply = "done" => \A h \in present[d] : h <= conn[d].fd
    BY <1>i DEF IndexOK
  <2>2. present'[d] \subseteq present[d]
    BY <1>0, <1>1
  <2>3. conn[d].st = "SEND" => present'[d] \subseteq DOMAIN fs'
    BY <1>0, <1>1
  <2>4. Listed(conn[d], present'[d])
    BY <2>1, <2>2 DEF Listed
  <2> QED BY <1>1, <2>1, <2>2, <2>3, <2>4 DEF IndexOK
<1>2. CASE conn'[d] = Idle \/ conn'[d].op \in {"upload", "delete", "download"}
  BY <1>2, IdleIs DEF IndexOK
<1>3. CASE (\E h \in Slots \cup {INVALID} : DownloadStart(d, h)) \/ DownloadPart(d)
  <2>1. conn'[d].op = "download"
    BY <1>3, DownloadOp
  <2> QED BY <2>1 DEF IndexOK
<1>4. CASE ListStart(d)
  <2>1. ListEntry(d, NewList) /\ fs' = fs /\ conn[d].op = "idle"
    BY <1>4, IdleIs DEF ListStart, NewList
  <2>2. conn'[d].op = "fileidx"
    BY <2>1, NewListIs, ListEntryIs
  <2>3. present'[d] = DOMAIN fs
    BY <1>0, <2>1, <2>2
  <2>4. Listed(NewList, DOMAIN fs)
    <3>1. \A h \in DOMAIN fs : ~(h <= INVALID)
      BY SlotsFacts DEF TableOK, IsTable, INVALID
    <3> QED BY <3>1, NewListIs DEF Listed
  <2> QED BY <2>1, <2>3, <2>4, NewListIs, ListEntryLists
<1>5. CASE ListNext(d)
  <2>1. /\ ListEntry(d, conn[d]) /\ fs' = fs /\ Listing(conn[d])
        /\ conn[d].op = "fileidx" /\ conn[d].st = "SEND"
    BY <1>5, ListingIs DEF ListNext
  <2>2. conn'[d].op = "fileidx"
    BY <2>1, ListEntryIs
  <2>3. present[d] \in SUBSET DOMAIN fs /\ Listed(conn[d], present[d])
    BY <1>i, <2>1 DEF IndexOK
  <2>4. present'[d] = present[d]
    BY <1>0, <2>1, <2>2, <2>3
  <2> QED BY <2>1, <2>3, <2>4, ListEntryLists
<1> QED BY <1>1, <1>2, <1>3, <1>4, <1>5 DEF ConnStep

(***************************************************************************)
(* Uploads by one client.                                                  *)
(***************************************************************************)

\* The file k writes to, if it is still there, is the only temporary file and
\* has the parts of the body up to k's position.
UploadOK(t, k) ==
  k.op = "upload" /\ k.st = "WRITE" =>
    /\ k.fd \in DOMAIN t => /\ t[k.fd].name = TempName /\ Len(t[k.fd].data) = k.size
                            /\ \A i \in 1..k.pos : t[k.fd].data[i] = k.body[i]
    /\ \A h \in DOMAIN t : t[h].name = TempName => h = k.fd

UploadInv == /\ \A c \in Conns : conn[c].op = "upload" => c \in Uploaders
             /\ \A c \in Conns : UploadOK(fs, conn[c])

\* A step that creates and changes no file and starts no upload keeps that true.
LEMMA FilesOnlyGo ==
  ASSUME UploadInv, PublishedComplete,
         \A h : h \in DOMAIN fs' => h \in DOMAIN fs /\ fs'[h] = fs[h],
         \A d \in Conns : \/ conn'[d] = conn[d]
                          \/ conn'[d].op # "upload"
                          \/ d \in Uploaders /\ conn'[d].st # "WRITE"
  PROVE  UploadInv' /\ PublishedComplete'
<1>1. PublishedComplete'
  BY DEF PublishedComplete
<1>2. ASSUME NEW d \in Conns PROVE conn'[d].op = "upload" => d \in Uploaders
  BY DEF UploadInv
<1>3. ASSUME NEW d \in Conns PROVE UploadOK(fs', conn'[d])
  <2> SUFFICES ASSUME conn'[d].op = "upload", conn'[d].st = "WRITE"
               PROVE  UploadOK(fs', conn'[d])
    BY DEF UploadOK
  <2>1. conn'[d] = conn[d] /\ UploadOK(fs, conn[d])
    BY DEF UploadInv
  <2> QED BY <2>1 DEF UploadOK
<1> QED BY <1>1, <1>2, <1>3 DEF UploadInv

\* The first call of the one client that uploads.
LEMMA UploadStartPublishes ==
  ASSUME \A c, d \in Uploaders : c = d, Base, Base', UploadInv, PublishedComplete,
         NEW c \in Uploaders, NEW n \in Names \ {TempName}, NEW b \in Bodies, UploadStart(c, n, b)
  PROVE  UploadInv' /\ PublishedComplete'
<1>0. c \in Conns
  BY Roles
<1>1. IsTable(fs, Names, Part) /\ BodyLen[b] \in Nat \ {0} /\ TempName \in Names
  BY BodyIs, NamesAssumption DEF Base, TableOK
<1>2. /\ \A h : h \in DOMAIN DeleteFile(fs, TempName) <=> h \in DOMAIN fs /\ fs[h].name # TempName
      /\ \A h \in DOMAIN DeleteFile(fs, TempName) : DeleteFile(fs, TempName)[h] = fs[h]
  BY <1>1, DeleteFileIs
<1>3. \A d \in Conns : d # c => conn'[d] = conn[d] /\ conn[d].op # "upload"
  <2>1. \A d \in Conns : d # c => conn'[d] = conn[d]
    BY <1>0, UploadStartBase
  <2>2. \A d \in Conns : conn[d].op = "upload" => d = c
    BY DEF UploadInv
  <2> QED BY <2>1, <2>2
<1>4. CASE Creates(c, n, b)
  <2> DEFINE h == CreatedHandle(fs, TempName)
             k == Writing(n, b, h)
  <2>1. fs' = CreateFile(fs, TempName, BodyLen[b]) /\ conn' = [conn EXCEPT ![c] = k]
    BY <1>4 DEF Creates
  <2>2. /\ h \in Slots /\ h \notin DOMAIN DeleteFile(fs, TempName)
        /\ \A x : x \in DOMAIN fs' <=> x \in DOMAIN DeleteFile(fs, TempName) \/ x = h
        /\ fs'[h].name = TempName /\ fs'[h].data = Blank(BodyLen[b])
        /\ \A x : x \in DOMAIN DeleteFile(fs, TempName) => fs'[x] = fs[x]
    BY <1>1, <1>4, CreateFileIs, JunkPart DEF Creates
  <2> HIDE DEF h
  <2>3. k.op = "upload" /\ k.pos = 0 /\ k.fd = h /\ k.size = BodyLen[b]
    BY <2>2, UploadConn
  <2> HIDE DEF k
  <2>4. conn'[c] = k
    BY <1>0, <2>1 DEF Base, ConnsOK
  <2>5. PublishedComplete'
    BY <1>2, <2>2 DEF PublishedComplete
  <2>6. UploadOK(fs', k)
    <3>1. Len(fs'[h].data) = k.size
      BY <1>1, <2>2, <2>3 DEF Blank
    <3>2. \A x \in DOMAIN fs' : fs'[x].name = TempName => x = h
      BY <1>2, <2>2
    <3> QED BY <2>2, <2>3, <3>1, <3>2 DEF UploadOK
  <2>7. \A d \in Conns : UploadOK(fs', conn'[d])
    BY <1>3, <2>4, <2>6 DEF UploadOK
  <2>8. \A d \in Conns : conn'[d].op = "upload" => d \in Uploaders
    BY <1>3
  <2> QED BY <2>5, <2>7, <2>8 DEF UploadInv
<1>5. CASE CreatesNot(c, n, b)
  <2>1. fs' \in {fs, DeleteFile(fs, TempName)} /\ conn' = [conn EXCEPT ![c] = Refused(n, b)]
    BY <1>5 DEF CreatesNot
  <2>2. 0 \in Slots
    BY NumSlotsAssumption DEF Slots
  <2>3. Refused(n, b).st = "ERROR"
    BY <2>2, UploadConn
  <2>4. conn'[c].st = "ERROR"
    BY <1>0, <2>1, <2>3 DEF Base, ConnsOK
  <2>5. \A h : h \in DOMAIN fs' => h \in DOMAIN fs /\ fs'[h] = fs[h]
    BY <1>2, <2>1
  <2> QED BY <1>3, <2>4, <2>5, FilesOnlyGo
<1> QED BY <1>4, <1>5, UploadStartIs

\* Its other calls: the file that gets the real name has all parts of the
\* body, but for the last one if the device failed.
LEMMA UploadPartPublishes ==
  ASSUME \A c, d \in Uploaders : c = d, Base, Base', UploadInv, PublishedComplete,
         NEW c \in Conns, UploadPart(c)
  PROVE  UploadInv' /\ PublishedComplete'
<1>0. PICK ok \in BOOLEAN, renamed \in BOOLEAN : PartDone(c, ok, renamed)
  BY UploadPartIs
<1> DEFINE k == conn[c]
           i == k.pos + 1
           part == IF ok THEN k.body[i] ELSE Broken
           w == Flashed(k, ok)
<1>1. k.op = "upload" /\ k.st = "WRITE" /\ ConnOK(k) /\ Served(k) /\ c \in Uploaders
  BY DEF UploadPart, Base, ConnsOK, Served, UploadInv
<1>2. k \in Conn /\ k.pos \in Nat /\ k.size \in Nat /\ k.pos < k.size /\ k.name \in Names
      /\ k.name # TempName /\ k.body \in Seq(Part)
  BY <1>1 DEF ConnOK, Conn
<1>3. PICK b \in Bodies : k.body = Body(b) /\ k.size = BodyLen[b]
  BY <1>1 DEF ConnOK
<1>4. /\ IsTable(w, Names, Part) /\ DOMAIN w = DOMAIN fs
      /\ \A h \in DOMAIN fs : w[h].name = fs[h].name /\ (h # k.fd => w[h] = fs[h])
      /\ InFile(fs, k.fd, i) => w[k.fd].data = [fs[k.fd].data EXCEPT ![i] = part]
  BY <1>1, FlashedIs
<1>5. /\ fs' = IF renamed THEN Rename(w, TempName, k.name) ELSE w
      /\ conn' = [conn EXCEPT ![c] =
           IF LastPart(k) THEN Ended([k EXCEPT !.pos = i], IF renamed THEN "done" ELSE "error")
           ELSE [k EXCEPT !.pos = i, !.st = IF ok THEN "WRITE" ELSE "ERROR"]]
      /\ renamed => LastPart(k) /\ Exists(fs, TempName)
  BY <1>0 DEF PartDone
<1>6. \A d \in Conns : d # c => conn'[d] = conn[d] /\ conn[d].op # "upload"
  <2>1. \A d \in Conns : d # c => conn'[d] = conn[d]
    BY UploadPartBase
  <2>2. \A d \in Conns : conn[d].op = "upload" => d = c
    BY <1>1 DEF UploadInv
  <2> QED BY <2>1, <2>2
<1>7. /\ k.fd \in DOMAIN fs => /\ fs[k.fd].name = TempName /\ Len(fs[k.fd].data) = k.size
                               /\ \A j \in 1..k.pos : fs[k.fd].data[j] = k.body[j]
      /\ \A h \in DOMAIN fs : fs[h].name = TempName => h = k.fd
  BY <1>1 DEF UploadInv, UploadOK
<1>p. ok => part = k.body[i]
  OBVIOUS
<1>b. ~ok => part = Broken
  OBVIOUS
<1> HIDE DEF w, part
<1>8. ASSUME k.fd \in DOMAIN fs
      PROVE  /\ InFile(fs, k.fd, i) /\ Len(w[k.fd].data) = k.size
             /\ w[k.fd].data \in Seq(Part)
             /\ \A j \in 1..k.pos : w[k.fd].data[j] = k.body[j]
             /\ w[k.fd].data[i] = part
  <2>1. fs[k.fd].data \in Seq(Part)
    BY <1>8, FileIs DEF Base, TableOK
  <2>2. i \in 1..Len(fs[k.fd].data) /\ i \in DOMAIN fs[k.fd].data
    BY <1>2, <1>7, <1>8, <2>1
  <2>3. InFile(fs, k.fd, i)
    BY <1>8, <2>2 DEF InFile
  <2>4. w[k.fd].data = [fs[k.fd].data EXCEPT ![i] = part]
    BY <1>4, <2>3
  <2>5. w[k.fd].data \in Seq(Part)
    BY <1>4, <1>8, FileIs
  <2>6. Len(w[k.fd].data) = k.size
    BY <1>7, <1>8, <2>1, <2>4, <2>5
  <2>7. ASSUME NEW j \in 1..k.pos PROVE w[k.fd].data[j] = k.body[j]
    <3>1. j \in DOMAIN fs[k.fd].data /\ j # i
      BY <1>2, <2>1, <2>2
    <3> QED BY <1>7, <1>8, <2>2, <2>4, <3>1
  <2>8. w[k.fd].data[i] = part
    BY <2>2, <2>4
  <2> QED BY <2>3, <2>5, <2>6, <2>7, <2>8
<1>9. \A h \in DOMAIN w : w[h].name # TempName => w[h] = fs[h]
  BY <1>4, <1>7
<1>10. CASE LastPart(k)
  <2>0. i = k.size
    BY <1>10 DEF LastPart
  <2>1. conn'[c].st = "ENDED"
    <3> DEFINE moved == [k EXCEPT !.pos = i]
    <3>1. moved \in Conn
      BY <1>2, SMTT(30) DEF Conn
    <3>2. conn'[c] = Ended(moved, IF renamed THEN "done" ELSE "error")
      BY <1>5, <1>10 DEF Base, ConnsOK
    <3> HIDE DEF moved
    <3> QED BY <3>1, <3>2 DEF Ended, Conn
  <2>2. UploadInv'
    <3>1. \A d \in Conns : conn'[d].op = "upload" => d \in Uploaders
      BY <1>1, <1>6
    <3>2. \A d \in Conns : UploadOK(fs', conn'[d])
      BY <1>6, <2>1 DEF UploadOK
    <3> QED BY <3>1, <3>2 DEF UploadInv
  <2>3. CASE renamed
    <3>1. fs' = Rename(w, TempName, k.name)
      BY <1>5, <2>3
    <3>2. k.fd \in DOMAIN fs
      BY <1>5, <1>7, <2>3 DEF Exists
    <3>3. Complete(w[k.fd].data)
      <4>1. BodyLen[b] = k.size /\ \A j \in 1..k.size : k.body[j] = <<b, j>>
        BY <1>3, BodyIs DEF Body
      <4>2. ASSUME NEW j \in 1..BodyLen[b]
            PROVE  \/ w[k.fd].data[j] = <<b, j>>
                   \/ j = BodyLen[b] /\ w[k.fd].data[j] = Broken
        <5>1. j \in 1..k.size /\ (j \in 1..k.pos \/ j = i)
          BY <1>2, <2>0, <4>1
        <5>2. CASE j \in 1..k.pos
          BY <1>8, <3>2, <4>1, <5>1, <5>2
        <5>3. CASE j = i
          <6>1. w[k.fd].data[j] = part /\ j = BodyLen[b] /\ k.body[j] = <<b, j>>
            BY <1>8, <2>0, <3>2, <4>1, <5>1, <5>3
          <6> QED BY <1>p, <1>b, <5>3, <6>1
        <5> QED BY <5>1, <5>2, <5>3
      <4>3. Len(w[k.fd].data) = BodyLen[b]
        BY <1>8, <3>2, <4>1
      <4> QED BY <4>2, <4>3 DEF Complete
    <3>4. /\ \A h : h \in DOMAIN fs' <=> h \in DOMAIN w /\ w[h].name # k.name
          /\ \A h \in DOMAIN fs' : fs'[h].data = w[h].data
      <4> DEFINE u == Rename(w, TempName, k.name)
      <4>1. /\ \A h : h \in DOMAIN u <=> h \in DOMAIN w /\ w[h].name # k.name
            /\ \A h \in DOMAIN u : u[h].data = w[h].data
        BY <1>2, <1>4, RenameIs
      <4> QED BY <3>1, <4>1
    <3>5. ASSUME NEW h \in DOMAIN fs' PROVE Complete(fs'[h].data)
      <4>1. h \in DOMAIN w /\ fs'[h].data = w[h].data
        BY <3>4
      <4>2. CASE h = k.fd
        BY <3>3, <4>1, <4>2
      <4>3. CASE h # k.fd
        <5>1. h \in DOMAIN fs /\ w[h] = fs[h] /\ fs[h].name # TempName
          BY <1>4, <1>7, <4>1, <4>3
        <5> QED BY <4>1, <5>1 DEF PublishedComplete
      <4> QED BY <4>2, <4>3
    <3> QED BY <2>2, <3>5 DEF PublishedComplete
  <2>4. CASE ~renamed
    <3>1. fs' = w
      BY <1>5, <2>4
    <3> QED BY <1>4, <1>9, <2>2, <3>1 DEF PublishedComplete
  <2> QED BY <2>3, <2>4
<1>11. CASE ~LastPart(k)
  <2>1. fs' = w
    BY <1>5, <1>11
  <2>2. PublishedComplete'
    BY <1>4, <1>9, <2>1 DEF PublishedComplete
  <2> DEFINE n == conn'[c]
  <2>3. n.pos = i /\ n.fd = k.fd /\ n.size = k.size /\ n.body = k.body
        /\ (n.st = "WRITE" => ok)
    <3>1. n = [k EXCEPT !.pos = i, !.st = IF ok THEN "WRITE" ELSE "ERROR"]
      BY <1>5, <1>11 DEF Base, ConnsOK
    <3> HIDE DEF n
    <3> QED BY <1>2, <3>1 DEF Conn
  <2> HIDE DEF n
  <2>4. \A h \in DOMAIN fs' : fs'[h].name = TempName => h = n.fd
    BY <1>4, <1>7, <2>1, <2>3
  <2>5. ASSUME n.st = "WRITE", n.fd \in DOMAIN fs'
        PROVE  /\ fs'[n.fd].name = TempName /\ Len(fs'[n.fd].data) = n.size
               /\ \A j \in 1..n.pos : fs'[n.fd].data[j] = n.body[j]
    <3>1. /\ k.fd \in DOMAIN fs /\ part = k.body[i] /\ fs'[n.fd] = w[k.fd]
          /\ w[k.fd].name = TempName
      BY <1>4, <1>7, <1>p, <2>1, <2>3, <2>5
    <3>2. \A j \in 1..i : j \in 1..k.pos \/ j = i
      BY <1>2
    <3> QED BY <1>8, <2>3, <3>1, <3>2
  <2>6. UploadOK(fs', n)
    BY <2>4, <2>5 DEF UploadOK
  <2>7. \A d \in Conns : UploadOK(fs', conn'[d])
    BY <1>6, <2>6 DEF UploadOK, n
  <2>8. \A d \in Conns : conn'[d].op = "upload" => d \in Uploaders
    BY <1>1, <1>6
  <2> QED BY <2>2, <2>7, <2>8 DEF UploadInv
<1> QED BY <1>10, <1>11

\* Every step, as long as only one client uploads.
LEMMA NextPublishes ==
  ASSUME \A c, d \in Uploaders : c = d, Base, Base', SystemOK, UploadInv, PublishedComplete, Next
  PROVE  UploadInv' /\ PublishedComplete'
<1>0. bootPos \in Int
  BY SlotsFacts DEF SystemOK, INVALID
<1>1. CASE WebServer
  <2>0. PICK c \in Conns : Request(c) \/ Handler(c) \/ Close(c) \/ Abort(c)
    BY <1>1 DEF WebServer
  <2>1. CASE \E n \in Names \ {TempName}, b \in Bodies : c \in Uploaders /\ UploadStart(c, n, b)
    BY <2>1, UploadStartPublishes
  <2>2. CASE UploadPart(c)
    BY <2>2, UploadPartPublishes
  <2>3. CASE \E h \in Slots \cup {INVALID} : Delete(c, h)
    <3>1. PICK h \in Slots \cup {INVALID} : Delete(c, h)
      BY <2>3
    <3>2. PICK gone : fs' = FilesWithout(gone)
      BY <3>1 DEF Delete
    <3>3. \A x : x \in DOMAIN fs' => x \in DOMAIN fs /\ fs'[x] = fs[x]
      BY <3>2, FilesWithoutIs DEF Base
    <3>4. conn'[c].op = "delete" /\ \A d \in Conns : d # c => conn'[d] = conn[d]
      BY <3>1, DeleteBase
    <3> QED BY <3>3, <3>4, FilesOnlyGo
  <2>4. CASE UploadEat(c)
    <3>1. fs' = fs /\ c \in Uploaders
      BY <2>4 DEF UploadEat, UploadInv
    <3>2. conn'[c].st # "WRITE" /\ \A d \in Conns : d # c => conn'[d] = conn[d]
      BY <2>4, UploadEatBase
    <3> QED BY <3>1, <3>2, FilesOnlyGo
  <2>5. CASE \/ c \in Uploaders /\ NoMemory(c, "upload")
             \/ NoMemory(c, "download")
    <3>1. fs' = fs
      BY <2>5 DEF NoMemory
    <3>2. /\ \/ conn'[c].op # "upload"
             \/ c \in Uploaders /\ conn'[c].st # "WRITE"
          /\ \A d \in Conns : d # c => conn'[d] = conn[d]
      BY <2>5, NoMemoryBase
    <3> QED BY <3>1, <3>2, FilesOnlyGo
  <2>6. CASE (\E h \in Slots \cup {INVALID} : DownloadStart(c, h)) \/ DownloadPart(c)
    <3>1. fs' = fs
      BY <2>6 DEF DownloadStart, DownloadPart
    <3>2. conn'[c].op # "upload" /\ \A d \in Conns : d # c => conn'[d] = conn[d]
      BY <2>6, DownloadOp, DownloadStartBase, DownloadPartBase
    <3> QED BY <3>1, <3>2, FilesOnlyGo, SMTT(30)
  <2>7. CASE ListStart(c) \/ ListNext(c)
    <3>1. fs' = fs
      BY <2>7 DEF ListStart, ListNext
    <3>2. conn'[c].op # "upload" /\ \A d \in Conns : d # c => conn'[d] = conn[d]
      BY <2>7, ListOp, ListStartBase, ListNextBase
    <3> QED BY <3>1, <3>2, FilesOnlyGo, SMTT(30)
  <2>8. CASE Close(c) \/ Abort(c)
    <3>1. fs' = fs
      BY <2>8 DEF Close, Abort
    <3>2. conn'[c] = Idle /\ \A d \in Conns : d # c => conn'[d] = conn[d]
      BY <2>8, CloseBase, AbortBase
    <3>3. conn'[c].op # "upload"
      BY <3>2, IdleIs
    <3> QED BY <3>1, <3>2, <3>3, FilesOnlyGo
  <2> QED BY <2>0, <2>1, <2>2, <2>3, <2>4, <2>5, <2>6, <2>7, <2>8 DEF Request, Handler
<1>2. CASE (\E h \in Slots : PickApp(h)) \/ AppStores
  <2>1. fs' = fs /\ conn' = conn
    BY <1>2, MenuBase
  <2> QED BY <2>1, FilesOnlyGo
<1>3. CASE \/ LaunchApp \/ AppExits \/ PowerCut
           \/ \E c \in Deleters, h \in Slots : PowerCutInDelete(c, h)
  <2>1. fs' = fs
    BY <1>3 DEF LaunchApp, AppExits, PowerCut, PowerCutInDelete
  <2>2. \A d \in Conns : conn'[d].op # "upload"
    BY <1>3, RestartSteps, IdleIs
  <2> QED BY <2>1, <2>2, FilesOnlyGo
<1>4. CASE BootClean
  <2>1. conn' = conn /\ \A x : x \in DOMAIN fs' => x \in DOMAIN fs /\ fs'[x] = fs[x]
    BY <1>0, <1>4, BootCleanIs
  <2> QED BY <2>1, FilesOnlyGo
<1> QED BY <1>1, <1>2, <1>3, <1>4 DEF Next, Menu, Power

(***************************************************************************)
(* Theorems about the handlers.                                            *)
(***************************************************************************)

\* Every step keeps what is known about downloads and listings.
LEMMA NextHistory ==
  ASSUME Base, SystemOK, DownloadInv, IndexInv, [Next]_vars
  PROVE  DownloadInv' /\ IndexInv'
<1>1. CASE Next
  <2>1. Base' /\ History /\ \A d \in Conns : ConnStep(d)
    BY <1>1, NextBase DEF Next
  <2>2. \A d \in Conns : DownloadOK(fs', conn'[d], intact'[d])
    BY <2>1, DownloadStep
  <2>3. \A d \in Conns : IndexOK(fs', conn'[d], present'[d])
    BY <2>1, IndexStep
  <2> QED BY <2>2, <2>3 DEF DownloadInv, IndexInv
<1>2. CASE UNCHANGED vars
  BY <1>2 DEF vars, DownloadInv, IndexInv
<1> QED BY <1>1, <1>2

\* Downloads and listings are as described in every reachable state.
THEOREM Transfers == Spec => [](DownloadInv /\ IndexInv)
<1>1. Init => DownloadInv /\ IndexInv
  <2>1. Init => \A d \in Conns : conn[d] = Idle
    BY DEF Init
  <2> QED BY <2>1, IdleIs DEF DownloadInv, IndexInv, DownloadOK, IndexOK
<1>2. Base /\ SystemInv /\ DownloadInv /\ IndexInv /\ [Next]_vars => (DownloadInv /\ IndexInv)'
  BY NextHistory DEF SystemInv
<1> QED BY <1>1, <1>2, Core, PTL DEF Spec

\* A finished download sent as many parts as its header announced, and if
\* nobody touched the file while it ran, the parts of the file.
THEOREM DownloadsRight == Spec => []DownloadFaithful
<1>1. Base /\ DownloadInv => DownloadFaithful
  <2> SUFFICES ASSUME Base, DownloadInv, NEW c \in Conns,
                      conn[c].op = "download", conn[c].reply = "done"
               PROVE  /\ Len(conn[c].sent) = conn[c].size
                      /\ intact[c] => conn[c].sent = fs[conn[c].fd].data
    BY DEF DownloadFaithful
  <2> DEFINE k == conn[c]
  <2>1. /\ Len(k.sent) = k.pos /\ k.pos = k.size
        /\ intact[c] => k.fd \in DOMAIN fs /\ Copied(k, fs[k.fd])
    BY DEF DownloadInv, DownloadOK
  <2>2. k.sent \in Seq(Part \cup Slots)
    BY DEF Base, ConnsOK, Conn
  <2>3. ASSUME intact[c] PROVE k.sent = fs[k.fd].data
    <3>1. k.fd \in DOMAIN fs /\ Len(fs[k.fd].data) = k.size
          /\ \A i \in 1..k.pos : k.sent[i] = fs[k.fd].data[i]
      BY <2>1, <2>3 DEF Copied
    <3>2. fs[k.fd].data \in Seq(Part)
      BY <3>1, FileIs DEF Base, TableOK
    <3>3. fs[k.fd].data \in Seq(Part \cup Slots)
      BY <3>2
    <3> DEFINE data == fs[k.fd].data
    <3>4. Len(k.sent) = Len(data) /\ \A i \in 1..Len(k.sent) : k.sent[i] = data[i]
      BY <2>1, <3>1
    <3> HIDE DEF k, data
    <3>5. k.sent = data
      BY <2>2, <3>3, <3>4, SeqEqual DEF data
    <3> QED BY <3>5 DEF data
  <2> QED BY <2>1, <2>3
<1> QED BY <1>1, Core, Transfers, PTL

\* A complete index lists by increasing handle and misses no file that existed
\* all the time.
THEOREM IndexRight == Spec => []IndexComplete
<1>1. IndexInv => IndexComplete
  <2> SUFFICES ASSUME IndexInv, NEW c \in Conns, conn[c].op = "fileidx"
               PROVE  LET k == conn[c] IN
                      /\ \A i, j \in DOMAIN k.sent : i < j => k.sent[i] < k.sent[j]
                      /\ k.reply = "done" =>
                           \A h \in present[c] : \E i \in DOMAIN k.sent : k.sent[i] = h
    BY DEF IndexComplete
  <2>1. /\ Listed(conn[c], present[c])
        /\ conn[c].reply = "done" => \A h \in present[c] : h <= conn[c].fd
    BY DEF IndexInv, IndexOK
  <2> QED BY <2>1, Zenon DEF Listed
<1> QED BY <1>1, Transfers, PTL

\* As long as only one client uploads, every file that has its real name is
\* what somebody uploaded, whatever is deleted, launched or cut meanwhile and
\* whatever appfs fails. Only the last page can be other than uploaded, and only
\* if the device failed its erase or its write: cgiUploadFile renames the file
\* nevertheless.
THEOREM OneUploaderPublishes ==
  ASSUME \A c, d \in Uploaders : c = d PROVE Spec => []PublishedComplete
<1>1. Init => UploadInv /\ PublishedComplete
  <2>1. Init => DOMAIN fs = {} /\ \A d \in Conns : conn[d] = Idle
    BY DEF Init, NoFiles
  <2> QED BY <2>1, IdleIs DEF UploadInv, UploadOK, PublishedComplete
<1>2. ASSUME Base, Base', SystemInv, UploadInv, PublishedComplete, [Next]_vars
      PROVE  UploadInv' /\ PublishedComplete'
  <2>1. CASE Next
    BY <1>2, <2>1, NextPublishes DEF SystemInv
  <2>2. CASE UNCHANGED vars
    BY <1>2, <2>2 DEF vars, UploadInv, UploadOK, PublishedComplete
  <2> QED BY <1>2, <2>1, <2>2
<1>3. Base /\ SystemInv /\ (Base /\ SystemInv)' /\ UploadInv /\ PublishedComplete /\ [Next]_vars
        => (UploadInv /\ PublishedComplete)'
  BY <1>2
<1> QED BY <1>1, <1>3, Core, PTL DEF Spec
===============================================================================
