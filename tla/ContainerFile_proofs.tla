------------------------ MODULE ContainerFile_proofs ------------------------
(***************************************************************************)
(* What a container gives back, for every folder, chunk size, number of    *)
(* edits and amount of damage.                                             *)
(*                                                                         *)
(* The frames of a damaged container no longer say what was written, so    *)
(* the invariant speaks of a log of the chunks: the places, entry and      *)
(* offset, that chunk 0, 1, 2 ... were read from.  The log is a bound      *)
(* variable of the invariant; the code keeps no such thing.                *)
(***************************************************************************)
EXTENDS ContainerFile, FiniteSetTheorems, SequenceTheorems, TLAPS

(* No two files of a folder are recorded under one path (to_string_lossy). *)
DistinctPaths ==
    \A t \in Trees : \A p, q \in DOMAIN t :
        /\ t[p].kind = "file" /\ t[q].kind = "file"
        /\ rel_path(p) = rel_path(q)
        => p = q

(* Every name is recorded as it is. *)
UnicodeNames == \A t \in Trees : \A p \in DOMAIN t : rel_path(p) = p

(* A folder whose files pass safe_join has no directory that does not. *)
SafeDirs ==
    \A t \in Trees :
        (\A p \in DOMAIN t : t[p].kind = "file" => safe_join(rel_path(p)))
        => (\A p \in DOMAIN t : t[p].kind = "dir" => safe_join(rel_path(p)))

-----------------------------------------------------------------------------
(* Types *)

Keys == {This, Other}

EntryT == [path : Seq(Names), size : Nat, is_dir : BOOLEAN]

FrameT == [dk : Keys, aad : Keys \X Int, plain : Seq(EntryT) \cup Seq(Byte),
           intact : BOOLEAN, cut : BOOLEAN]

WrapT == [key : {<<>>, <<This, "default">>, MasterKey}, dk : Keys \cup {"none"},
          intact : BOOLEAN]

HeaderT == [magic : BOOLEAN, kdf : {"default", "valid", "outside"}, salt : Keys,
            uuid : Keys, pw : WrapT, mk : WrapT, count : Nat]

Early == {"scan", "create"}     \* nothing is written yet
Live  == Labels \ (Early \cup {"failed"})

TreeInv ==
    /\ DOMAIN tree \subseteq Seq(Names)
    /\ tree \in [DOMAIN tree -> Node]

HeaderInv ==
    pc \in Live =>
        /\ header \in HeaderT
        /\ header.pw.intact => header.pw.dk \in Keys
        /\ header.mk.intact => header.mk.dk \in Keys

(* Every manifest, of this or of the other container, is the scan. *)
ManifestInv ==
    /\ frames \in Seq(FrameT)
    /\ \A k \in DOMAIN frames :
         frames[k].aad[2] = MANIFEST_SEQ => frames[k].plain = entries

CopiedInv ==
    pc \in Live =>
        /\ copied \in [dirs : {Dirs(entries)}, files : [Files(entries) -> Seq(Byte)]]

PlaceInv ==
    /\ pc = "scan" => entries = <<>> /\ tree \in Trees
    /\ pc \in Early => idx = 1 /\ pos = 0 /\ seq = 0 /\ frames = <<>>
    /\ pc \in {"open", "extract"} => pos = 0
    /\ pc \in {"copy", "chunk"} => idx <= Len(entries) /\ ~Cur.is_dir
    /\ pc = "copy" => /\ OnDisk(Cur.path) /\ safe_join(Cur.path)
                      /\ Len(copied.files[Cur.path]) >= pos
    /\ pc = "restored" => idx > Len(entries)
    /\ opened \in Keys

(* What holds of every folder. *)
BaseInv ==
    /\ TypeOK
    /\ entries \in Seq(EntryT)
    /\ TreeInv /\ HeaderInv /\ ManifestInv /\ CopiedInv /\ PlaceInv

-----------------------------------------------------------------------------
(* The log of chunks *)

PlaceT == [entry : Nat, at : Nat]

(* where the chunk that starts at a place ends *)
EndOf(c) == c.at + NextChunk(entries[c.entry].size - c.at)

NoChunks(j) == entries[j].is_dir \/ entries[j].size = 0

(* Entry k, offset o is where n chunks have led to. *)
After(log, n, k, o) ==
    IF n = 0
    THEN o = 0 /\ \A j \in 1..(k - 1) : NoChunks(j)
    ELSE \/ k = log[n].entry /\ o = EndOf(log[n])
         \/ /\ k > log[n].entry /\ o = 0
            /\ EndOf(log[n]) = entries[log[n].entry].size
            /\ \A j \in (log[n].entry + 1)..(k - 1) : NoChunks(j)

FileOf(c) == copied.files[entries[c.entry].path]

Chunk(c) == SubSeq(FileOf(c), c.at + 1, EndOf(c))

LogInv(log) ==
    /\ log \in Seq(PlaceT)
    /\ pc \in Early => log = <<>>
    /\ \A m \in 1..Len(log) :
         /\ log[m].entry \in 1..Len(entries) /\ ~entries[log[m].entry].is_dir
         /\ log[m].at < entries[log[m].entry].size
         /\ After(log, m - 1, log[m].entry, log[m].at)
         /\ pc \in Live => EndOf(log[m]) <= Len(FileOf(log[m]))

(* A chunk's bytes as the container with data key dk holds them. *)
Held(dk, bytes) == IF dk = This THEN bytes ELSE OtherBytes(bytes)

(* A frame is what some lock sealed, wherever it now stands. *)
Genuine(log, f) ==
    /\ f.aad[1] = f.dk
    /\ \/ f.aad[2] = MANIFEST_SEQ
       \/ \E m \in 1..Len(log) : f.aad[2] = m - 1 /\ f.plain = Held(f.dk, Chunk(log[m]))

FramesInv(log) == pc \in Live => \A k \in DOMAIN frames : Genuine(log, frames[k])

PathsInv ==
    \A i, j \in DOMAIN entries :
        ~entries[i].is_dir /\ ~entries[j].is_dir /\ entries[i].path = entries[j].path => i = j

(* the bytes of entry j that the lock has read *)
Got(j) == Len(copied.files[entries[j].path])

WriteInv(log) ==
    /\ pc \in Live =>
         \A j \in DOMAIN entries : ~entries[j].is_dir => Got(j) <= entries[j].size
    /\ pc \in {"open", "copy"} =>
         /\ seq = Len(log)
         /\ After(log, seq, idx, pos)
         /\ \A j \in DOMAIN entries : ~entries[j].is_dir =>
              Got(j) = IF j < idx THEN entries[j].size ELSE IF j = idx THEN pos ELSE 0

Fresh == [dirs |-> {}, files |-> <<>>]

(* the entries an unlock has dealt with, and the file it is in *)
ReadAt(log) == seq <= Len(log) /\ After(log, seq, idx, pos)

ReadDirs ==
    /\ restored = [dirs |-> restored.dirs, files |-> restored.files]
    /\ restored.dirs = {entries[j].path : j \in {i \in DOMAIN entries : i < idx /\ entries[i].is_dir}}

ReadFiles ==
    restored.files \in
        [{entries[j].path : j \in {i \in DOMAIN entries :
             ~entries[i].is_dir /\ (i < idx \/ (i = idx /\ pc = "chunk"))}} -> Seq(Byte)]

ReadBytes ==
    \A j \in DOMAIN entries : j < idx /\ ~entries[j].is_dir =>
        /\ Got(j) = entries[j].size
        /\ restored.files[entries[j].path] = Held(opened, copied.files[entries[j].path])

ReadPart ==
    /\ pos <= Got(idx)
    /\ restored.files[Cur.path] = Held(opened, SubSeq(copied.files[Cur.path], 1, pos))

ReadInv(log) ==
    /\ pc \notin Reading \cup {"restored", "refused"} => restored = Fresh
    /\ pc \in Reading \cup {"restored"} => ReadAt(log) /\ ReadDirs /\ ReadFiles /\ ReadBytes
    /\ pc = "chunk" => ReadPart

(* What holds where recorded paths are distinct. *)
ContentInv(log) ==
    LogInv(log) /\ FramesInv(log) /\ PathsInv /\ WriteInv(log) /\ ReadInv(log)

-----------------------------------------------------------------------------
(* A container nobody touched *)

CleanHeader ==
    /\ header.magic /\ header.kdf = "default" /\ header.salt = This /\ header.uuid = This
    /\ header.pw = wrap_key(<<This, "default">>, This)
    /\ header.mk \in {NoWrap, wrap_key(MasterKey, This)}
    /\ header.count = Len(entries)

Clean(log) ==
    /\ CleanHeader
    /\ Len(entries) <= MAX_MANIFEST_LEN
    /\ Len(frames) = Len(log) + 1
    /\ frames[1] = seal_to(MANIFEST_SEQ, entries)
    /\ \A m \in 1..Len(log) : frames[m + 1] = seal_to(m - 1, Chunk(log[m]))

SafeFiles(n) ==
    \A j \in DOMAIN entries : j < n /\ ~entries[j].is_dir => safe_join(entries[j].path)
SafeDirEntries ==
    \A j \in DOMAIN entries : entries[j].is_dir => safe_join(entries[j].path)

OpensInv(log) ==
    /\ SafeFiles(Len(entries) + 1) => SafeDirEntries
    /\ pc \in Early => damage = 0 /\ opened = This
    /\ damage = 0 /\ pc \in Live =>
         /\ pc # "refused"
         /\ Clean(log)
         /\ opened = This
         /\ pc \in {"open", "copy"} => SafeFiles(idx)
         /\ pc \notin {"open", "copy"} =>
              /\ SafeFiles(Len(entries) + 1)
              /\ After(log, Len(log), Len(entries) + 1, 0)

-----------------------------------------------------------------------------
(* A folder nobody touched *)

SameInv ==
    edits = 0 /\ pc \notin {"scan", "failed"} =>
        /\ Dirs(entries) = Of("dir") /\ Files(entries) = Of("file")
        /\ \A j \in DOMAIN entries : ~entries[j].is_dir =>
             /\ entries[j].size = Len(tree[entries[j].path].bytes)
             /\ pc \in Live =>
                  copied.files[entries[j].path] = SubSeq(tree[entries[j].path].bytes, 1, Got(j))

-----------------------------------------------------------------------------
(* Lemmas about the operators *)

LEMMA NextChunkBounds ==
    ASSUME NEW left \in Nat
    PROVE  /\ NextChunk(left) \in Nat /\ NextChunk(left) <= left
           /\ NextChunk(left) <= CHUNK_SIZE
           /\ left > 0 => NextChunk(left) > 0
  BY ChunkAssumption DEF NextChunk, Min2

(* read_dir lists every item once *)
LEMMA OrdersList ==
    ASSUME NEW S, IsFiniteSet(S), NEW s \in Orders(S)
    PROVE  /\ s \in Seq(S)
           /\ \A i, j \in 1..Len(s) : s[i] = s[j] => i = j
           /\ \A x \in S : \E i \in 1..Len(s) : s[i] = x
  <1> DEFINE n == Cardinality(S)
  <1>1. n \in Nat
    BY FS_CardinalityType
  <1>2. s \in [1..n -> S] /\ \A i, j \in 1..n : i # j => s[i] # s[j]
    BY DEF Orders, SetToSeqs
  <1>3. s \in Seq(S) /\ Len(s) = n
    BY <1>1, <1>2
  <1>4. s \in Injection(1..n, S)
    BY <1>2 DEF Injection, IsInjective
  <1>5. IsFiniteSet(1..n) /\ Cardinality(1..n) = n
    BY <1>1, FS_Interval
  <1>6. s \in Surjection(1..n, S)
    BY <1>4, <1>5, FS_Injection
  <1> QED
    BY <1>2, <1>3, <1>6 DEF Surjection

(* What scan records is what the folder holds, each item once. *)
Lists(order, t) ==
    /\ order \in Seq(DOMAIN t)
    /\ \A i, j \in 1..Len(order) : order[i] = order[j] => i = j
    /\ \A i \in 1..Len(order) : t[order[i]].kind # "link"
    /\ \A p \in DOMAIN t : t[p].kind # "link" => \E i \in 1..Len(order) : order[i] = p

LEMMA ScanLists ==
    ASSUME tree \in Trees, Scan
    PROVE  \E order : Lists(order, tree) /\ entries' = Recorded(order)
  <1>1. IsFiniteSet(DOMAIN tree) /\ tree \in [DOMAIN tree -> Node]
    BY TreesAssumption
  <1>2. IsFiniteSet(Of("dir")) /\ IsFiniteSet(Of("file"))
    <2>1. Of("dir") \in SUBSET DOMAIN tree /\ Of("file") \in SUBSET DOMAIN tree
      BY DEF Of
    <2> QED
      BY <1>1, <2>1, FS_Subset
  <1>3. PICK ds \in Orders(Of("dir")), fs \in Orders(Of("file")) : entries' = Recorded(ds \o fs)
    BY DEF Scan
  <1>4. /\ ds \in Seq(Of("dir"))
        /\ \A i, j \in 1..Len(ds) : ds[i] = ds[j] => i = j
        /\ \A x \in Of("dir") : \E i \in 1..Len(ds) : ds[i] = x
    BY <1>2, OrdersList
  <1>5. /\ fs \in Seq(Of("file"))
        /\ \A i, j \in 1..Len(fs) : fs[i] = fs[j] => i = j
        /\ \A x \in Of("file") : \E i \in 1..Len(fs) : fs[i] = x
    BY <1>2, OrdersList
  <1>6. /\ ds \in Seq(DOMAIN tree) /\ fs \in Seq(DOMAIN tree)
        /\ \A i \in 1..Len(ds) : ds[i] \in Of("dir")
        /\ \A i \in 1..Len(fs) : fs[i] \in Of("file")
    <2>1. Of("dir") \subseteq DOMAIN tree /\ Of("file") \subseteq DOMAIN tree
      BY DEF Of
    <2> QED
      BY <1>4, <1>5, <2>1, SeqMonotonic, ElementOfSeq
  <1>7. /\ ds \o fs \in Seq(DOMAIN tree)
        /\ Len(ds \o fs) = Len(ds) + Len(fs)
        /\ \A i \in 1..(Len(ds) + Len(fs)) :
             (ds \o fs)[i] = IF i <= Len(ds) THEN ds[i] ELSE fs[i - Len(ds)]
    BY <1>6, ConcatProperties
  <1>8. Len(ds) \in Nat /\ Len(fs) \in Nat
    BY <1>4, <1>5, LenProperties
  <1>9. \A i, j \in 1..Len(ds \o fs) : (ds \o fs)[i] = (ds \o fs)[j] => i = j
    <2> SUFFICES ASSUME NEW i \in 1..Len(ds \o fs), NEW j \in 1..Len(ds \o fs),
                        (ds \o fs)[i] = (ds \o fs)[j]
                 PROVE  i = j
      OBVIOUS
    <2>1. Of("dir") \cap Of("file") = {}
      BY DEF Of
    <2>2. CASE i <= Len(ds) /\ j <= Len(ds)
      BY <2>2, <1>7, <1>8, <1>4
    <2>3. CASE i > Len(ds) /\ j > Len(ds)
      <3>1. i - Len(ds) \in 1..Len(fs) /\ j - Len(ds) \in 1..Len(fs)
        BY <2>3, <1>7, <1>8
      <3>2. fs[i - Len(ds)] = fs[j - Len(ds)]
        BY <2>3, <1>7, <1>8
      <3>3. i - Len(ds) = j - Len(ds)
        BY <3>1, <3>2, <1>5
      <3> QED
        BY <3>3, <1>7, <1>8
    <2>4. CASE i <= Len(ds) /\ j > Len(ds)
      <3>1. (ds \o fs)[i] = ds[i] /\ i \in 1..Len(ds)
        BY <2>4, <1>7, <1>8
      <3>2. (ds \o fs)[j] = fs[j - Len(ds)] /\ j - Len(ds) \in 1..Len(fs)
        BY <2>4, <1>7, <1>8
      <3> QED
        BY <3>1, <3>2, <1>6, <2>1
    <2>5. CASE i > Len(ds) /\ j <= Len(ds)
      <3>1. (ds \o fs)[j] = ds[j] /\ j \in 1..Len(ds)
        BY <2>5, <1>7, <1>8
      <3>2. (ds \o fs)[i] = fs[i - Len(ds)] /\ i - Len(ds) \in 1..Len(fs)
        BY <2>5, <1>7, <1>8
      <3> QED
        BY <3>1, <3>2, <1>6, <2>1
    <2> QED
      BY <2>2, <2>3, <2>4, <2>5, <1>7, <1>8
  <1>10. \A i \in 1..Len(ds \o fs) : tree[(ds \o fs)[i]].kind # "link"
    <2> SUFFICES ASSUME NEW i \in 1..Len(ds \o fs)
                 PROVE  tree[(ds \o fs)[i]].kind # "link"
      OBVIOUS
    <2>1. (ds \o fs)[i] \in Of("dir") \cup Of("file")
      BY <1>6, <1>7, <1>8
    <2> QED
      BY <2>1 DEF Of
  <1>11. \A p \in DOMAIN tree : tree[p].kind # "link"
             => \E i \in 1..Len(ds \o fs) : (ds \o fs)[i] = p
    <2> SUFFICES ASSUME NEW p \in DOMAIN tree, tree[p].kind # "link"
                 PROVE  \E i \in 1..Len(ds \o fs) : (ds \o fs)[i] = p
      OBVIOUS
    <2>1. p \in Of("dir") \/ p \in Of("file")
      BY <1>1 DEF Of, Node
    <2>2. CASE p \in Of("dir")
      <3>1. PICK i \in 1..Len(ds) : ds[i] = p
        BY <2>2, <1>4
      <3> QED
        BY <3>1, <1>7, <1>8
    <2>3. CASE p \in Of("file")
      <3>1. PICK i \in 1..Len(fs) : fs[i] = p
        BY <2>3, <1>5
      <3>2. (ds \o fs)[i + Len(ds)] = p /\ i + Len(ds) \in 1..Len(ds \o fs)
        BY <3>1, <1>7, <1>8
      <3> QED
        BY <3>2
    <2> QED
      BY <2>1, <2>2, <2>3
  <1> QED
    BY <1>3, <1>7, <1>9, <1>10, <1>11 DEF Lists

LEMMA EntryTypes ==
    ASSUME TreeInv, NEW p \in DOMAIN tree
    PROVE  /\ Entry(p) \in EntryT
           /\ Entry(p).path = rel_path(p)
           /\ Entry(p).size = Len(tree[p].bytes)
           /\ Entry(p).is_dir <=> tree[p].kind = "dir"
  <1>1. p \in Seq(Names) /\ tree[p].bytes \in Seq(Byte)
    BY DEF TreeInv, Node
  <1>2. Len(tree[p].bytes) \in Nat
    BY <1>1
  <1>3. rel_path(p) \in Seq(Names)
    BY <1>1, NamesAssumption DEF rel_path
  <1> QED
    BY <1>2, <1>3 DEF Entry, EntryT

LEMMA RecordedTypes ==
    ASSUME TreeInv, NEW order \in Seq(DOMAIN tree)
    PROVE  /\ Recorded(order) \in Seq(EntryT)
           /\ Len(Recorded(order)) = Len(order)
           /\ \A i \in 1..Len(order) : Recorded(order)[i] = Entry(order[i])
  <1>1. \A i \in 1..Len(order) : Entry(order[i]) \in EntryT
    BY ElementOfSeq, EntryTypes
  <1>2. DOMAIN order = 1..Len(order) /\ Len(order) \in Nat
    BY LenProperties
  <1>3. Recorded(order) = [i \in 1..Len(order) |-> Entry(order[i])]
    BY <1>2 DEF Recorded
  <1>4. Recorded(order) \in [1..Len(order) -> EntryT]
    BY <1>1, <1>3
  <1> QED
    BY <1>2, <1>3, <1>4, SeqDef

(* Frame f is frame g, whole or not, or its twin in the other container. *)
Derived(f, g) ==
    /\ f.aad[2] = g.aad[2]
    /\ \/ f.dk = g.dk /\ f.aad = g.aad /\ f.plain = g.plain
       \/ /\ f.dk = Other /\ f.aad = <<Other, g.aad[2]>>
          /\ f.plain = IF g.aad[2] = MANIFEST_SEQ THEN g.plain ELSE OtherBytes(g.plain)

LEMMA OtherBytesTypes ==
    ASSUME NEW S, NEW bytes \in Seq(S)
    PROVE  /\ OtherBytes(bytes) \in Seq(Byte)
           /\ Len(OtherBytes(bytes)) = Len(bytes)
           /\ OtherBytes(OtherBytes(bytes)) = OtherBytes(bytes)
  <1>1. Len(bytes) \in Nat
    OBVIOUS
  <1>2. OtherBytes(bytes) \in [1..Len(bytes) -> Byte]
    BY DEF OtherBytes, Byte
  <1>3. OtherBytes(bytes) \in Seq(Byte) /\ Len(OtherBytes(bytes)) = Len(bytes)
    BY <1>1, <1>2, SeqDef
  <1> QED
    BY <1>3 DEF OtherBytes

LEMMA OtherFrameTypes ==
    ASSUME frames \in Seq(FrameT), NEW k \in DOMAIN frames
    PROVE  OtherFrame(k) \in FrameT /\ Derived(OtherFrame(k), frames[k])
  <1>1. frames[k] \in FrameT
    OBVIOUS
  <1>2. frames[k].aad[2] \in Int
    BY <1>1 DEF FrameT
  <1>3. frames[k].plain \in Seq(EntryT) \cup Seq(Byte)
    BY <1>1 DEF FrameT
  <1>4. OtherBytes(frames[k].plain) \in Seq(Byte)
    BY <1>3, OtherBytesTypes
  <1> DEFINE n == frames[k].aad[2]
             plain == IF n = MANIFEST_SEQ THEN frames[k].plain ELSE OtherBytes(frames[k].plain)
  <1>5. OtherFrame(k) = [dk |-> Other, aad |-> <<Other, n>>, plain |-> plain,
                         intact |-> TRUE, cut |-> FALSE]
    BY DEF OtherFrame
  <1>6. plain \in Seq(EntryT) \cup Seq(Byte)
    BY <1>3, <1>4
  <1>7. OtherFrame(k) \in FrameT
    <2> HIDE DEF plain
    <2> QED
      BY <1>2, <1>5, <1>6 DEF FrameT, Keys
  <1>8. Derived(OtherFrame(k), frames[k])
    BY <1>5 DEF Derived
  <1> QED
    BY <1>7, <1>8

(* Damage leaves frames that were sealed by one of the two locks. *)
LEMMA DamagedFrames ==
    ASSUME frames \in Seq(FrameT), Truncate \/ Rearrange
    PROVE  /\ frames' \in Seq(FrameT)
           /\ \A k \in DOMAIN frames' : \E j \in DOMAIN frames : Derived(frames'[k], frames[j])
  <1> DEFINE Good(f) == f \in FrameT /\ \E j \in DOMAIN frames : Derived(f, frames[j])
             Part(a, b) == SubSeq(frames, a, b)
  <1>1. Len(frames) \in Nat /\ DOMAIN frames = 1..Len(frames)
    BY LenProperties
  <1>2. \A k \in DOMAIN frames : Good(frames[k])
    BY DEF Derived
  <1>3. \A k \in DOMAIN frames : Good(OtherFrame(k))
    BY OtherFrameTypes
  <1>4. \A k \in DOMAIN frames :
           Good(Cut(k)) /\ Good([frames[k] EXCEPT !.intact = FALSE])
    <2> SUFFICES ASSUME NEW k \in DOMAIN frames
                 PROVE  Good(Cut(k)) /\ Good([frames[k] EXCEPT !.intact = FALSE])
      OBVIOUS
    <2>1. frames[k] \in FrameT
      OBVIOUS
    <2>2. Cut(k) \in FrameT /\ [frames[k] EXCEPT !.intact = FALSE] \in FrameT
      BY <2>1 DEF Cut, FrameT
    <2>3. /\ Derived(Cut(k), frames[k])
          /\ Derived([frames[k] EXCEPT !.intact = FALSE], frames[k])
      BY <2>1 DEF Cut, Derived, FrameT
    <2> QED
      BY <2>2, <2>3
  <1>5. ASSUME NEW k \in 0..Len(frames), NEW b \in 0..Len(frames)
        PROVE  /\ Part(1, k) \in Seq(FrameT) /\ Part(k + 1, b) \in Seq(FrameT)
               /\ \A i \in DOMAIN Part(1, k) : Good(Part(1, k)[i])
               /\ \A i \in DOMAIN Part(k + 1, b) : Good(Part(k + 1, b)[i])
    <2>1. \A a \in 1..(Len(frames) + 1) : \A c \in 0..Len(frames) :
             /\ Part(a, c) \in Seq(FrameT)
             /\ \A i \in DOMAIN Part(a, c) : i \in 1..(c - a + 1) /\ Part(a, c)[i] = frames[a + i - 1]
      BY <1>1, SMTT(30)
    <2>2. \A a \in 1..(Len(frames) + 1) : \A c \in 0..Len(frames) :
             \A i \in DOMAIN Part(a, c) : Good(Part(a, c)[i])
      <3> SUFFICES ASSUME NEW a \in 1..(Len(frames) + 1), NEW c \in 0..Len(frames),
                          NEW i \in DOMAIN Part(a, c)
                   PROVE  Good(Part(a, c)[i])
        OBVIOUS
      <3>1. a + i - 1 \in DOMAIN frames /\ Part(a, c)[i] = frames[a + i - 1]
        BY <2>1, <1>1
      <3> QED
        BY <3>1, <1>2
    <2>3. k + 1 \in 1..(Len(frames) + 1) /\ 1 \in 1..(Len(frames) + 1)
      BY <1>1
    <2> HIDE DEF Part, Good
    <2> QED
      BY <2>1, <2>2, <2>3
  <1>6. ASSUME NEW s \in Seq(FrameT), \A i \in DOMAIN s : Good(s[i]), NEW f, Good(f)
        PROVE  Append(s, f) \in Seq(FrameT) /\ \A i \in DOMAIN Append(s, f) : Good(Append(s, f)[i])
    BY <1>6
  <1>7. ASSUME NEW s \in Seq(FrameT), \A i \in DOMAIN s : Good(s[i]),
               NEW t \in Seq(FrameT), \A i \in DOMAIN t : Good(t[i])
        PROVE  s \o t \in Seq(FrameT) /\ \A i \in DOMAIN (s \o t) : Good((s \o t)[i])
    BY <1>7
  <1>8. ASSUME NEW s \in Seq(FrameT), \A i \in DOMAIN s : Good(s[i]),
               NEW k \in DOMAIN s, NEW f, Good(f)
        PROVE  /\ [s EXCEPT ![k] = f] \in Seq(FrameT)
               /\ \A i \in DOMAIN [s EXCEPT ![k] = f] : Good([s EXCEPT ![k] = f][i])
    BY <1>8
  <1> SUFFICES frames' \in Seq(FrameT) /\ \A k \in DOMAIN frames' : Good(frames'[k])
    OBVIOUS
  <1>9. CASE Truncate
    <2>1. CASE \E k \in 0..Len(frames) : frames' = Part(1, k)
      <3> HIDE DEF Good
      <3> QED
        BY <2>1, <1>5
    <2>2. CASE \E k \in DOMAIN frames : frames' = Append(Part(1, k - 1), Cut(k))
      <3>1. PICK k \in DOMAIN frames : frames' = Append(Part(1, k - 1), Cut(k))
        BY <2>2
      <3>2. k - 1 \in 0..Len(frames)
        BY <1>1
      <3> HIDE DEF Good, Part
      <3> QED
        BY <3>1, <3>2, <1>4, <1>5, <1>6
    <2> QED
      BY <1>9, <2>1, <2>2 DEF Truncate
  <1>10. CASE Rearrange
    <2>1. PICK j \in DOMAIN frames, k \in DOMAIN frames :
            \/ frames' = [frames EXCEPT ![j] = frames[k], ![k] = frames[j]]
            \/ frames' = [frames EXCEPT ![k] = frames[j]]
            \/ frames' = [frames EXCEPT ![k] = OtherFrame(k)]
            \/ frames' = [frames EXCEPT ![k].intact = FALSE]
            \/ frames' = Part(1, k - 1) \o Part(k + 1, Len(frames))
            \/ frames' = Append(frames, OtherFrame(k))
      BY <1>10 DEF Rearrange
    <2>2. CASE frames' = [frames EXCEPT ![j] = frames[k], ![k] = frames[j]]
      <3> DEFINE s == [frames EXCEPT ![j] = frames[k]]
      <3> HIDE DEF Good
      <3>1. s \in Seq(FrameT) /\ \A i \in DOMAIN s : Good(s[i])
        BY <1>2, <1>8
      <3>2. k \in DOMAIN s
        OBVIOUS
      <3>3. frames' = [s EXCEPT ![k] = frames[j]]
        BY <2>2
      <3> HIDE DEF s
      <3> QED
        BY <3>1, <3>2, <3>3, <1>2, <1>8
    <2>3. CASE frames' = [frames EXCEPT ![k] = frames[j]]
      <3> HIDE DEF Good
      <3> QED
        BY <2>3, <1>2, <1>8
    <2>4. CASE frames' = [frames EXCEPT ![k] = OtherFrame(k)]
      <3> HIDE DEF Good
      <3> QED
        BY <2>4, <1>2, <1>3, <1>8
    <2>5. CASE frames' = [frames EXCEPT ![k].intact = FALSE]
      <3> HIDE DEF Good
      <3> QED
        BY <2>5, <1>2, <1>4, <1>8
    <2>6. CASE frames' = Part(1, k - 1) \o Part(k + 1, Len(frames))
      <3>1. k - 1 \in 0..Len(frames) /\ k \in 0..Len(frames) /\ Len(frames) \in 0..Len(frames)
        BY <1>1
      <3> HIDE DEF Good, Part
      <3> QED
        BY <2>6, <3>1, <1>5, <1>7
    <2>7. CASE frames' = Append(frames, OtherFrame(k))
      <3> HIDE DEF Good
      <3> QED
        BY <2>7, <1>2, <1>3, <1>6
    <2> QED
      BY <2>1, <2>2, <2>3, <2>4, <2>5, <2>6, <2>7
  <1> QED
    BY <1>9, <1>10

-----------------------------------------------------------------------------
(* BaseInv is inductive *)

LEMMA EntryFacts ==
    ASSUME entries \in Seq(EntryT)
    PROVE  /\ Len(entries) \in Nat /\ DOMAIN entries = 1..Len(entries)
           /\ \A j \in 1..Len(entries) :
                /\ entries[j] \in EntryT
                /\ entries[j].path \in Seq(Names) /\ entries[j].size \in Nat
                /\ entries[j].is_dir \in BOOLEAN
                /\ ~entries[j].is_dir => entries[j].path \in Files(entries)
                /\ entries[j].is_dir => entries[j].path \in Dirs(entries)
  <1>1. Len(entries) \in Nat /\ DOMAIN entries = 1..Len(entries)
    BY LenProperties
  <1>2. \A j \in 1..Len(entries) : entries[j] \in EntryT
    BY ElementOfSeq
  <1> QED
    BY <1>1, <1>2 DEF EntryT, Files, Dirs

LEMMA BaseInit == Init => BaseInv
  <1> SUFFICES ASSUME Init PROVE BaseInv
    OBVIOUS
  <1> USE DEF Init
  <1>1. entries \in Seq(EntryT) /\ frames \in Seq(FrameT) /\ Len(entries) = 0
    BY EmptySeq
  <1>2. TypeOK
    BY <1>1, BoundsAssumption DEF TypeOK, Labels
  <1>3. TreeInv
    BY TreesAssumption DEF TreeInv
  <1>4. HeaderInv /\ CopiedInv
    BY DEF HeaderInv, CopiedInv, Live, Early
  <1>5. ManifestInv
    BY <1>1 DEF ManifestInv
  <1>6. PlaceInv
    BY DEF PlaceInv, Early, Keys
  <1> QED
    BY <1>1, <1>2, <1>3, <1>4, <1>5, <1>6 DEF BaseInv

LEMMA BaseScan == BaseInv /\ Scan => BaseInv'
  <1> SUFFICES ASSUME BaseInv, Scan PROVE BaseInv'
    OBVIOUS
  <1> USE DEF Scan, BaseInv
  <1>1. entries = <<>> /\ tree \in Trees /\ idx = 1 /\ pos = 0 /\ seq = 0 /\ frames = <<>>
    BY DEF PlaceInv, Early
  <1>2. PICK order : Lists(order, tree) /\ entries' = Recorded(order)
    BY <1>1, ScanLists
  <1>3. order \in Seq(DOMAIN tree)
    BY <1>2 DEF Lists
  <1>4. entries' \in Seq(EntryT)
    BY <1>2, <1>3, RecordedTypes
  <1>5. Len(entries') \in Nat /\ \A j \in 1..Len(entries') : entries'[j].size \in Nat
    <2>1. Len(entries') \in Nat /\ \A j \in 1..Len(entries') : entries'[j] \in EntryT
      BY <1>4
    <2> QED
      BY <2>1 DEF EntryT
  <1>6. TypeOK'
    BY <1>1, <1>5 DEF TypeOK, Labels, Cur, budget, Writing, Ended
  <1>7. TreeInv' /\ HeaderInv' /\ CopiedInv'
    BY DEF TreeInv, HeaderInv, CopiedInv, Live, Early
  <1>8. ManifestInv' /\ PlaceInv'
    BY <1>1 DEF ManifestInv, PlaceInv, Early, container
  <1> QED
    BY <1>4, <1>6, <1>7, <1>8

LEMMA BaseCreate == BaseInv /\ Create => BaseInv'
  <1> SUFFICES ASSUME BaseInv, Create PROVE BaseInv'
    OBVIOUS
  <1> USE DEF Create, BaseInv
  <1>1. idx = 1 /\ pos = 0 /\ seq = 0
    BY DEF PlaceInv, Early
  <1>2. Len(entries) \in Nat
    BY EntryFacts
  <1>3. TypeOK'
    BY DEF TypeOK, Labels, Cur, budget, Writing
  <1>4. TreeInv'
    BY DEF TreeInv
  <1>5. HeaderInv'
    <2>1. PICK mk \in {NoWrap, wrap_key(MasterKey, This)} :
            header' = [magic |-> TRUE, kdf |-> "default", salt |-> This, uuid |-> This,
                       pw |-> wrap_key(<<This, "default">>, This), mk |-> mk,
                       count |-> Len(entries)]
      OBVIOUS
    <2>2. mk \in WrapT /\ (mk.intact => mk.dk \in Keys)
      <3>1. NoWrap \in WrapT /\ ~NoWrap.intact
        BY DEF WrapT, NoWrap
      <3>2. wrap_key(MasterKey, This) \in WrapT /\ wrap_key(MasterKey, This).dk \in Keys
        BY DEF WrapT, wrap_key, Keys
      <3> QED
        BY <3>1, <3>2
    <2> DEFINE pw == wrap_key(<<This, "default">>, This)
    <2>3. pw \in WrapT /\ pw.dk \in Keys
      BY DEF WrapT, wrap_key, Keys
    <2> HIDE DEF pw
    <2>4. header' \in HeaderT /\ header'.pw = pw /\ header'.mk = mk
      BY <1>2, <2>1, <2>2, <2>3 DEF HeaderT, Keys, pw
    <2> QED
      BY <2>2, <2>3, <2>4 DEF HeaderInv
  <1>6. seal_to(MANIFEST_SEQ, entries) \in FrameT
    BY DEF seal_to, FrameT, Keys, This, MANIFEST_SEQ
  <1>7. ManifestInv'
    <2>1. frames' \in Seq(FrameT) /\ DOMAIN frames' = {1}
      BY <1>6
    <2>2. frames'[1].plain = entries
      BY DEF seal_to
    <2> QED
      BY <2>1, <2>2 DEF ManifestInv
  <1>8. CopiedInv'
    <2>1. [q \in Files(entries) |-> <<>>] \in [Files(entries) -> Seq(Byte)]
      BY EmptySeq
    <2> QED
      BY <2>1 DEF CopiedInv
  <1>9. PlaceInv'
    BY <1>1 DEF PlaceInv, Early
  <1> QED
    BY <1>3, <1>4, <1>5, <1>7, <1>8, <1>9

(* steps that move on in the lock without a byte written *)
LEMMA BaseWalk == BaseInv /\ (OpenFile \/ CopiedFile \/ Written \/ WriteFails) => BaseInv'
  <1> SUFFICES ASSUME BaseInv, OpenFile \/ CopiedFile \/ Written \/ WriteFails PROVE BaseInv'
    OBVIOUS
  <1> USE DEF BaseInv
  <1>0. /\ pc \in Writing
        /\ UNCHANGED <<tree, entries, container, seq, opened, copied, restored, budget>>
        /\ \/ UNCHANGED <<idx, pos>>
           \/ idx <= Len(entries) /\ NextEntry
    BY DEF OpenFile, CopiedFile, Written, WriteFails, Writing, PlaceInv
  <1>1. /\ Len(entries) \in Nat
        /\ \A j \in 1..Len(entries) : entries[j].size \in Nat
    BY EntryFacts
  <1>2. pc' \in {"open", "copy", "stored", "failed"}
    BY DEF OpenFile, CopiedFile, Written, WriteFails
  <1>3. TypeOK'
    <2>1. pc' \in Labels
      BY <1>2 DEF Labels, Writing, Ended
    <2>2. idx' \in 1..(Len(entries) + 1)
      BY <1>0, <1>1 DEF NextEntry, TypeOK
    <2>3. pos' \in Nat /\ (idx' <= Len(entries) => pos' <= entries[idx'].size)
      BY <1>0, <1>1, <2>2 DEF NextEntry, TypeOK, Cur
    <2> QED
      BY <1>0, <2>1, <2>2, <2>3 DEF TypeOK, Cur, budget
  <1>4. pc' \in Live => pc \in Live
    <2>1. CASE pc = "create"
      BY <2>1 DEF OpenFile, CopiedFile, Written, WriteFails, Live, Early
    <2>2. CASE pc # "create"
      BY <2>2, <1>0 DEF Live, Early, Labels, Writing
    <2> QED
      BY <2>1, <2>2
  <1>5. TreeInv' /\ HeaderInv' /\ CopiedInv' /\ ManifestInv'
    BY <1>0, <1>4 DEF TreeInv, HeaderInv, CopiedInv, ManifestInv, container
  <1>6. PlaceInv'
    <2>1. CASE OpenFile
      <3>1. CASE Cur.is_dir
        BY <2>1, <3>1 DEF OpenFile, PlaceInv, NextEntry, Early
      <3>2. CASE ~Cur.is_dir
        <4>1. idx \in 1..Len(entries) /\ pos = 0
          BY <2>1, <1>1 DEF OpenFile, TypeOK, PlaceInv
        <4>2. Cur.path \in Files(entries)
          BY <4>1, <3>2, EntryFacts DEF Cur
        <4>3. Len(copied.files[Cur.path]) \in Nat
          BY <2>1, <4>2 DEF OpenFile, CopiedInv, Live, Early, Labels, Writing
        <4> QED
          BY <2>1, <3>2, <4>1, <4>3 DEF OpenFile, PlaceInv, Early, Cur, OnDisk
      <3> QED
        BY <3>1, <3>2
    <2>2. CASE CopiedFile
      BY <2>2 DEF CopiedFile, PlaceInv, NextEntry, Early
    <2>3. CASE Written
      BY <2>3 DEF Written, PlaceInv, Early
    <2>4. CASE WriteFails
      BY <2>4 DEF WriteFails, PlaceInv, Early
    <2> QED
      BY <2>1, <2>2, <2>3, <2>4
  <1> QED
    BY <1>0, <1>3, <1>5, <1>6

(* what the copy loop reads and writes in one turn *)
CopyStep(n, chunk) ==
    /\ chunk = SubSeq(tree[Cur.path].bytes, pos + 1, pos + n)
    /\ Len(tree[Cur.path].bytes) >= pos + n
    /\ frames' = Append(frames, seal_to(seq, chunk))
    /\ copied' = [copied EXCEPT !.files[Cur.path] = @ \o chunk]
    /\ seq' = seq + 1 /\ pos' = pos + n /\ pc' = pc

LEMMA CopyFacts ==
    ASSUME BaseInv, CopyChunk
    PROVE  /\ idx \in 1..Len(entries) /\ ~entries[idx].is_dir
           /\ Cur.path \in Files(entries) /\ OnDisk(Cur.path)
           /\ pos \in Nat /\ pos < Cur.size /\ Cur.size \in Nat /\ seq \in Nat
           /\ \/ \E n \in 1..CHUNK_SIZE, chunk \in Seq(Byte) :
                   /\ n = NextChunk(Cur.size - pos) /\ n <= Cur.size - pos
                   /\ Len(chunk) = n
                   /\ CopyStep(n, chunk)
              \/ pc' = "failed" /\ UNCHANGED <<frames, copied, seq, pos>>
  <1> USE DEF BaseInv, CopyChunk
  <1>1. idx \in 1..Len(entries) /\ ~entries[idx].is_dir
    BY EntryFacts DEF PlaceInv, TypeOK, Cur
  <1>2. Cur.path \in Files(entries) /\ Cur.size \in Nat /\ OnDisk(Cur.path)
    BY <1>1, EntryFacts DEF Cur, PlaceInv
  <1>3. pos \in Nat /\ seq \in Nat
    BY DEF TypeOK
  <1> DEFINE now == tree[Cur.path].bytes
             n == NextChunk(Cur.size - pos)
             chunk == SubSeq(now, pos + 1, pos + n)
  <1>4. n \in 1..CHUNK_SIZE /\ n <= Cur.size - pos
    <2>1. Cur.size - pos \in Nat /\ Cur.size - pos > 0
      BY <1>2, <1>3
    <2>2. n \in Nat /\ n <= Cur.size - pos /\ n <= CHUNK_SIZE /\ n > 0
      BY <2>1, NextChunkBounds
    <2> HIDE DEF n
    <2> QED
      BY <2>2, ChunkAssumption
  <1>5. now \in Seq(Byte)
    BY <1>2 DEF OnDisk, TreeInv, Node
  <1>6. CASE Len(now) >= pos + n
    <2>1. chunk \in Seq(Byte) /\ Len(chunk) = n
      <3> HIDE DEF n, now
      <3>1. n \in Nat /\ n > 0 /\ \A k \in (pos + 1)..(pos + n) : now[k] \in Byte
        BY <1>3, <1>4, <1>5, <1>6, ChunkAssumption
      <3>2. pos + 1 \in Int /\ pos + n \in Int /\ pos + 1 <= pos + n
        BY <1>3, <3>1
      <3>3. chunk \in Seq(Byte) /\ Len(chunk) = (pos + n) - (pos + 1) + 1
        BY <3>1, <3>2, SubSeqProperties
      <3> QED
        BY <1>3, <3>1, <3>3, SMTT(30)
    <2>2. CopyStep(n, chunk)
      BY <1>6 DEF CopyStep
    <2> HIDE DEF n, chunk
    <2>3. n = NextChunk(Cur.size - pos)
      BY DEF n
    <2> QED
      BY <1>1, <1>2, <1>3, <1>4, <2>1, <2>2, <2>3
  <1>7. CASE ~(Len(now) >= pos + n)
    BY <1>1, <1>2, <1>3, <1>7
  <1> QED
    BY <1>6, <1>7

LEMMA BaseCopy == BaseInv /\ CopyChunk => BaseInv'
  <1> SUFFICES ASSUME BaseInv, CopyChunk PROVE BaseInv'
    OBVIOUS
  <1> USE DEF BaseInv
  <1>0. /\ pc = "copy"
        /\ UNCHANGED <<tree, entries, header, idx, opened, restored, budget>>
    BY DEF CopyChunk
  <1>1. TreeInv' /\ entries' \in Seq(EntryT)
    BY <1>0 DEF TreeInv
  <1>2. CASE pc' = "failed" /\ UNCHANGED <<frames, copied, seq, pos>>
    <2>1. TypeOK'
      BY <1>0, <1>2 DEF TypeOK, Cur, budget, Labels, Ended
    <2>2. HeaderInv' /\ CopiedInv' /\ ManifestInv' /\ PlaceInv'
      BY <1>0, <1>2 DEF HeaderInv, CopiedInv, ManifestInv, PlaceInv, Live, Early
    <2> QED
      BY <1>1, <2>1, <2>2
  <1>3. CASE pc' # "failed"
    <2>1. PICK n \in 1..CHUNK_SIZE, chunk \in Seq(Byte) :
            n <= Cur.size - pos /\ Len(chunk) = n /\ CopyStep(n, chunk)
      BY <1>3, CopyFacts
    <2>2. /\ idx \in 1..Len(entries) /\ Cur.path \in Files(entries)
          /\ pos \in Nat /\ Cur.size \in Nat /\ seq \in Nat
      BY CopyFacts
    <2>3. TypeOK'
      <3>1. pos' \in Nat /\ pos' <= Cur.size /\ seq' \in Nat /\ pc' = pc
        <4>1. pos' = pos + n /\ seq' = seq + 1 /\ pc' = pc
          BY <2>1 DEF CopyStep
        <4>2. n \in Nat /\ n <= Cur.size - pos
          BY <2>1, ChunkAssumption
        <4> QED
          BY <2>2, <4>1, <4>2
      <3> QED
        BY <1>0, <3>1 DEF TypeOK, Cur, budget
    <2>4. HeaderInv'
      BY <1>0, <2>1 DEF HeaderInv, CopyStep
    <2>5. seal_to(seq, chunk) \in FrameT /\ seal_to(seq, chunk).aad[2] # MANIFEST_SEQ
      BY <2>2 DEF seal_to, FrameT, Keys, MANIFEST_SEQ
    <2>6. ManifestInv'
      <3>1. frames \in Seq(FrameT) /\ frames' = Append(frames, seal_to(seq, chunk))
        BY <2>1 DEF CopyStep, ManifestInv
      <3>2. /\ frames' \in Seq(FrameT)
            /\ \A k \in DOMAIN frames' :
                 frames'[k] = seal_to(seq, chunk)
                   \/ (k \in DOMAIN frames /\ frames'[k] = frames[k])
        BY <2>5, <3>1
      <3> QED
        BY <1>0, <2>5, <3>2 DEF ManifestInv
    <2>7. /\ copied \in [dirs : {Dirs(entries)}, files : [Files(entries) -> Seq(Byte)]]
          /\ copied.files[Cur.path] \in Seq(Byte)
      BY <1>0, <2>2 DEF CopiedInv, Live, Early, Labels, Writing
    <2>8. copied.files[Cur.path] \o chunk \in Seq(Byte)
           /\ Len(copied.files[Cur.path] \o chunk) = Len(copied.files[Cur.path]) + n
      BY <2>1, <2>7, ConcatProperties
    <2>9. /\ copied' \in [dirs : {Dirs(entries)}, files : [Files(entries) -> Seq(Byte)]]
          /\ copied'.files[Cur.path] = copied.files[Cur.path] \o chunk
      BY <2>1, <2>2, <2>7, <2>8 DEF CopyStep
    <2>10. CopiedInv'
      BY <1>0, <2>9 DEF CopiedInv
    <2>11. PlaceInv'
      <3>1. Len(copied'.files[Cur.path]) >= pos'
        <4>1. Len(copied.files[Cur.path]) \in Nat /\ Len(copied.files[Cur.path]) >= pos
          BY <1>0, <2>7 DEF PlaceInv
        <4>2. pos' = pos + n /\ n \in Nat
          BY <2>1, ChunkAssumption DEF CopyStep
        <4> QED
          BY <2>2, <2>8, <2>9, <4>1, <4>2
      <3> QED
        BY <1>0, <2>1, <3>1 DEF PlaceInv, CopyStep, Early, Cur, OnDisk
    <2> QED
      BY <1>1, <2>3, <2>4, <2>6, <2>10, <2>11
  <1> QED
    BY <1>0, <1>2, <1>3, CopyFacts DEF CopyStep

LEMMA BaseEdit == BaseInv /\ (EditFile \/ RemoveFile) => BaseInv'
  <1> SUFFICES ASSUME BaseInv, EditFile \/ RemoveFile PROVE BaseInv'
    OBVIOUS
  <1> USE DEF BaseInv
  <1>0. /\ pc \in Writing /\ (RemoveFile => pc # "copy")
        /\ edits < MaxEdits /\ edits' = edits + 1
        /\ UNCHANGED <<entries, container, pc, idx, pos, seq, opened, copied, restored, damage>>
    BY DEF EditFile, RemoveFile, Writing
  <1>1. TypeOK'
    BY <1>0, BoundsAssumption DEF TypeOK, Cur
  <1>2. HeaderInv' /\ CopiedInv' /\ ManifestInv' /\ entries' \in Seq(EntryT)
    BY <1>0 DEF HeaderInv, CopiedInv, ManifestInv, container
  <1>3. TreeInv' /\ \A p \in DOMAIN tree : EditFile => p \in DOMAIN tree' /\ tree'[p].kind = tree[p].kind
    <2>1. CASE EditFile
      <3>1. PICK p \in Of("file"), new \in Edits : tree' = [tree EXCEPT ![p].bytes = new]
        BY <2>1 DEF EditFile
      <3>2. new \in Seq(Byte) /\ p \in DOMAIN tree
        BY EditsAssumption DEF Of
      <3> QED
        BY <3>1, <3>2 DEF TreeInv, Node
    <2>2. CASE RemoveFile
      <3>1. PICK p \in Of("file") : tree' = [q \in DOMAIN tree \ {p} |-> tree[q]]
        BY <2>2 DEF RemoveFile
      <3>2. EditFile => FALSE
        BY <2>2, <3>1, <1>0 DEF EditFile, Of
      <3> QED
        BY <3>1, <3>2 DEF TreeInv
    <2> QED
      BY <2>1, <2>2
  <1>4. PlaceInv'
    <2>1. pc = "copy" => OnDisk(Cur.path)'
      BY <1>0, <1>3 DEF PlaceInv, OnDisk, Cur
    <2> QED
      BY <1>0, <2>1 DEF PlaceInv, Cur, Early, container, Writing
  <1> QED
    BY <1>1, <1>2, <1>3, <1>4

LEMMA BaseDamage == BaseInv /\ Damage => BaseInv'
  <1> SUFFICES ASSUME BaseInv, Damage PROVE BaseInv'
    OBVIOUS
  <1> USE DEF BaseInv
  <1>0. /\ pc \in {"open", "copy", "stored"} /\ pc' = "stored"
        /\ damage' = damage + 1 /\ damage < MaxDamage
        /\ UNCHANGED <<tree, entries, idx, pos, seq, opened, copied, restored, edits>>
        /\ \/ (Truncate \/ Rearrange) /\ UNCHANGED header
           \/ AlterHeader /\ UNCHANGED frames
    BY DEF Damage, Truncate, Rearrange, AlterHeader, Writing
  <1>1. TypeOK'
    BY <1>0, BoundsAssumption DEF TypeOK, Cur, Labels
  <1>2. pc \in Live /\ pc' \in Live
    BY <1>0 DEF Live, Labels, Early, Writing
  <1>3. TreeInv' /\ CopiedInv' /\ entries' \in Seq(EntryT)
    BY <1>0, <1>2 DEF TreeInv, CopiedInv
  <1>4. PlaceInv'
    BY <1>0 DEF PlaceInv, Early
  <1>5. ManifestInv'
    <2>1. CASE Truncate \/ Rearrange
      <3>1. frames' \in Seq(FrameT)
        BY <2>1, DamagedFrames DEF ManifestInv
      <3>2. \A k \in DOMAIN frames' : \E j \in DOMAIN frames : Derived(frames'[k], frames[j])
        BY <2>1, DamagedFrames DEF ManifestInv
      <3>3. ASSUME NEW k \in DOMAIN frames', frames'[k].aad[2] = MANIFEST_SEQ
            PROVE  frames'[k].plain = entries
        <4>1. PICK j \in DOMAIN frames : Derived(frames'[k], frames[j])
          BY <3>2
        <4> QED
          BY <4>1, <3>3 DEF Derived, ManifestInv
      <3> QED
        BY <1>0, <3>1, <3>3 DEF ManifestInv
    <2>2. CASE UNCHANGED frames
      BY <1>0, <2>2 DEF ManifestInv
    <2> QED
      BY <1>0, <2>1, <2>2
  <1>6. HeaderInv'
    <2>1. header \in HeaderT /\ header.pw \in WrapT /\ header.mk \in WrapT
      BY <1>2 DEF HeaderInv, HeaderT
    <2>2. CASE UNCHANGED header
      BY <1>2, <2>2 DEF HeaderInv
    <2>3. CASE AlterHeader
      <3>1. wrap_key(MasterKey, Other) \in WrapT /\ wrap_key(MasterKey, Other).dk \in Keys
        BY DEF wrap_key, WrapT, Keys
      <3>2. [header.pw EXCEPT !.intact = FALSE] \in WrapT
        BY <2>1 DEF WrapT
      <3>3. [header.pw EXCEPT !.intact = FALSE].intact = FALSE
        BY <2>1 DEF WrapT
      <3>4. /\ header' \in HeaderT
            /\ header'.pw = header.pw \/ header'.pw = [header.pw EXCEPT !.intact = FALSE]
            /\ header'.mk = header.mk \/ header'.mk = wrap_key(MasterKey, Other)
        <4>1. CASE header' = [header EXCEPT !.magic = FALSE]
          BY <2>1, <4>1 DEF HeaderT
        <4>2. CASE \E v \in {"valid", "outside"} : header' = [header EXCEPT !.kdf = v]
          BY <2>1, <4>2 DEF HeaderT
        <4>3. CASE header' = [header EXCEPT !.salt = Other]
          BY <2>1, <4>3 DEF HeaderT, Keys
        <4>4. CASE header' = [header EXCEPT !.uuid = Other]
          BY <2>1, <4>4 DEF HeaderT, Keys
        <4>5. CASE header' = [header EXCEPT !.pw.intact = FALSE]
          BY <2>1, <3>2, <4>5 DEF HeaderT
        <4>6. CASE header' = [header EXCEPT !.mk = wrap_key(MasterKey, Other)]
          BY <2>1, <3>1, <4>6 DEF HeaderT
        <4>7. CASE header' = [header EXCEPT !.count = @ + 1]
          BY <2>1, <4>7 DEF HeaderT
        <4> QED
          BY <2>3, <4>1, <4>2, <4>3, <4>4, <4>5, <4>6, <4>7 DEF AlterHeader
      <3> QED
        BY <1>2, <3>1, <3>3, <3>4 DEF HeaderInv
    <2> QED
      BY <1>0, <2>2, <2>3
  <1> QED
    BY <1>1, <1>3, <1>4, <1>5, <1>6

(* An unlock that gets past the manifest has the scan before it. *)
LEMMA OpenFacts ==
    ASSUME BaseInv, Open
    PROVE  /\ pc = "stored" /\ UNCHANGED <<tree, entries, container, copied, restored, budget>>
           /\ \/ /\ pc' = "extract" /\ idx' = 1 /\ pos' = 0 /\ seq' = 0
                 /\ opened' \in Keys /\ opened' \in DataKeys(header)
              \/ pc' = "refused" /\ UNCHANGED <<idx, pos, seq, opened>>
  <1> USE DEF BaseInv, Open
  <1>1. pc = "stored" /\ UNCHANGED <<tree, container, copied, restored, budget>>
    OBVIOUS
  <1>2. DataKeys(header) \subseteq Keys
    <2>1. /\ header.pw.intact => header.pw.dk \in Keys
          /\ header.mk.intact => header.mk.dk \in Keys
      BY <1>1 DEF HeaderInv, Live, Labels, Early
    <2> QED
      BY <2>1 DEF DataKeys, unwrap_key
  <1>3. CASE pc' = "refused" /\ UNCHANGED <<entries, idx, pos, seq, opened>>
    BY <1>1, <1>3
  <1>4. CASE /\ opened' \in DataKeys(header) /\ ManifestOpens(opened')
             /\ entries' = frames[1].plain
             /\ pc' = "extract" /\ idx' = 1 /\ pos' = 0 /\ seq' = 0
    <2>1. 1 <= Len(frames) /\ frames[1].aad = <<header.uuid, MANIFEST_SEQ>>
      BY <1>4 DEF ManifestOpens, read_frame, open_in_place
    <2>2. 1 \in DOMAIN frames
      BY <2>1 DEF ManifestInv
    <2>3. frames[1].plain = entries
      BY <2>1, <2>2 DEF ManifestInv
    <2> QED
      BY <1>1, <1>2, <1>4, <2>3
  <1> QED
    BY <1>3, <1>4

LEMMA BaseOpen == BaseInv /\ Open => BaseInv'
  <1> SUFFICES ASSUME BaseInv, Open PROVE BaseInv'
    OBVIOUS
  <1> USE DEF BaseInv
  <1>0. /\ pc = "stored" /\ UNCHANGED <<tree, entries, container, copied, restored, budget>>
        /\ \/ pc' = "extract" /\ idx' = 1 /\ pos' = 0 /\ seq' = 0 /\ opened' \in Keys
           \/ pc' = "refused" /\ UNCHANGED <<idx, pos, seq, opened>>
    BY OpenFacts
  <1>1. Len(entries) \in Nat /\ \A j \in 1..Len(entries) : entries[j].size \in Nat
    BY EntryFacts
  <1>2. TypeOK'
    BY <1>0, <1>1 DEF TypeOK, Labels, Reading, Ended, Cur, budget
  <1>3. pc \in Live
    BY <1>0 DEF Live, Early, Labels
  <1>4. TreeInv' /\ HeaderInv' /\ ManifestInv' /\ CopiedInv' /\ entries' \in Seq(EntryT)
    BY <1>0, <1>3 DEF TreeInv, HeaderInv, ManifestInv, CopiedInv, container
  <1>5. PlaceInv'
    BY <1>0 DEF PlaceInv, Early
  <1> QED
    BY <1>2, <1>4, <1>5

Extract == ExtractDir \/ ExtractFile \/ ExtractChunk \/ ExtractedFile \/ ExtractRefuses \/ Extracted

LEMMA BaseExtract == BaseInv /\ Extract => BaseInv'
  <1> SUFFICES ASSUME BaseInv, Extract PROVE BaseInv'
    OBVIOUS
  <1> USE DEF BaseInv
  <1>0. /\ pc \in Reading
        /\ pc' \in Reading \cup {"restored", "refused"}
        /\ UNCHANGED <<tree, entries, container, opened, copied, budget>>
    BY DEF Extract, ExtractDir, ExtractFile, ExtractChunk, ExtractedFile, ExtractRefuses,
           Extracted, Reading
  <1>1. Len(entries) \in Nat /\ \A j \in 1..Len(entries) : entries[j].size \in Nat
    BY EntryFacts
  <1>2. pc \in Live /\ pc' \in Labels /\ pc' \notin Early \cup {"scan", "open", "copy", "failed"}
    BY <1>0 DEF Live, Early, Labels, Reading, Ended
  <1>3. TreeInv' /\ HeaderInv' /\ ManifestInv' /\ CopiedInv' /\ entries' \in Seq(EntryT)
    BY <1>0, <1>2 DEF TreeInv, HeaderInv, ManifestInv, CopiedInv, container
  <1>4. idx \in 1..(Len(entries) + 1) /\ pos \in Nat /\ seq \in Nat
        /\ (idx <= Len(entries) => pos <= entries[idx].size)
    BY DEF TypeOK, Cur
  <1>5. /\ idx' \in 1..(Len(entries) + 1) /\ pos' \in Nat /\ seq' \in Nat
        /\ (idx' <= Len(entries) => pos' <= entries[idx'].size)
        /\ pc' = "extract" => pos' = 0
        /\ pc' = "chunk" => idx' <= Len(entries) /\ ~entries[idx'].is_dir
        /\ pc' = "restored" => idx' > Len(entries)
    <2>1. CASE ExtractDir \/ ExtractedFile
      <3>1. idx <= Len(entries) /\ idx' = idx + 1 /\ pos' = 0 /\ seq' = seq /\ pc' = "extract"
        BY <2>1 DEF ExtractDir, ExtractedFile, NextEntry, PlaceInv
      <3> QED
        BY <1>1, <1>4, <3>1
    <2>2. CASE ExtractFile \/ ExtractRefuses \/ Extracted
      <3>1. UNCHANGED <<idx, pos, seq>>
        BY <2>2 DEF ExtractFile, ExtractRefuses, Extracted
      <3>2. /\ pc' # "extract"
            /\ pc' = "chunk" => idx <= Len(entries) /\ ~entries[idx].is_dir
            /\ pc' = "restored" => idx > Len(entries)
        BY <2>2 DEF ExtractFile, ExtractRefuses, Extracted, Cur
      <3> QED
        BY <1>4, <3>1, <3>2
    <2>3. CASE ExtractChunk
      <3>1. /\ idx' = idx /\ pc' = "chunk" /\ seq' = seq + 1 /\ pos < entries[idx].size
            /\ pos' = pos + NextChunk(entries[idx].size - pos)
            /\ idx <= Len(entries) /\ ~entries[idx].is_dir
        BY <2>3 DEF ExtractChunk, PlaceInv, Cur
      <3>2. entries[idx].size \in Nat
        BY <1>1, <1>4, <3>1
      <3>3. entries[idx].size - pos \in Nat
        BY <1>4, <3>1, <3>2
      <3>4. /\ NextChunk(entries[idx].size - pos) \in Nat
            /\ NextChunk(entries[idx].size - pos) <= entries[idx].size - pos
        BY <3>3, NextChunkBounds
      <3> QED
        BY <1>4, <3>1, <3>2, <3>4
    <2> QED
      BY <2>1, <2>2, <2>3 DEF Extract
  <1>6. TypeOK'
    BY <1>0, <1>2, <1>5 DEF TypeOK, Cur, budget
  <1>7. PlaceInv'
    BY <1>0, <1>2, <1>5 DEF PlaceInv, Cur, Early
  <1> QED
    BY <1>3, <1>6, <1>7

LEMMA BaseStep == BaseInv /\ [Next]_vars => BaseInv'
  <1> SUFFICES ASSUME BaseInv, [Next]_vars PROVE BaseInv'
    OBVIOUS
  <1>1. CASE Write
    BY <1>1, BaseScan, BaseCreate, BaseWalk, BaseCopy DEF Write
  <1>2. CASE Read
    BY <1>2, BaseOpen, BaseExtract DEF Read, Extract
  <1>3. CASE EditFile \/ RemoveFile \/ Damage
    BY <1>3, BaseEdit, BaseDamage
  <1>4. CASE UNCHANGED vars
    BY <1>4 DEF BaseInv, TypeOK, TreeInv, HeaderInv, ManifestInv, CopiedInv, PlaceInv,
               vars, container, budget, Cur, OnDisk
  <1> QED
    BY <1>1, <1>2, <1>3, <1>4 DEF Next

LEMMA BaseInvariant == Spec => []BaseInv
  BY BaseInit, BaseStep, PTL DEF Spec

-----------------------------------------------------------------------------
(* Theorems for every folder *)

(* Type correctness: positions stay inside the entry and the entry inside  *)
(* the manifest, in the copy loop of write_container and in that of        *)
(* extract_entries, although the latter walks a manifest it has read from  *)
(* a container that may be damaged.                                        *)
THEOREM ContainerTypes == Spec => []TypeOK
  <1>1. BaseInv => TypeOK
    BY DEF BaseInv
  <1> QED
    BY <1>1, BaseInvariant, PTL

LEMMA CopiedFileIsWhole ==
    ASSUME BaseInv, [Next]_vars, pc = "copy", pc' = "open"
    PROVE  Len(copied.files[Cur.path]) >= Len(tree[Cur.path].bytes)
  <1>1. CopiedFile
    BY DEF Next, vars, Write, Read, Scan, Create, OpenFile, CopyChunk, Written, WriteFails,
           Open, ExtractDir, ExtractFile, ExtractChunk, ExtractedFile, ExtractRefuses,
           Extracted, EditFile, RemoveFile, Damage, Truncate, Rearrange, AlterHeader
  <1>2. ~(Len(tree[Cur.path].bytes) > pos)
    BY <1>1 DEF CopiedFile
  <1>3. OnDisk(Cur.path) /\ Len(copied.files[Cur.path]) >= pos /\ pos \in Nat
    BY DEF BaseInv, PlaceInv, TypeOK
  <1>4. tree[Cur.path].bytes \in Seq(Byte)
    BY <1>3 DEF OnDisk, BaseInv, TreeInv, Node
  <1>5. idx \in 1..Len(entries) /\ ~entries[idx].is_dir
    BY EntryFacts DEF BaseInv, PlaceInv, TypeOK, Cur
  <1>6. Cur.path \in Files(entries)
    BY <1>5, EntryFacts DEF BaseInv, Cur
  <1>7. copied.files[Cur.path] \in Seq(Byte)
    BY <1>6 DEF BaseInv, CopiedInv, Live, Early, Labels, Writing
  <1>8. Len(tree[Cur.path].bytes) \in Nat /\ Len(copied.files[Cur.path]) \in Nat
    BY <1>4, <1>7
  <1> QED
    BY <1>2, <1>3, <1>8

(* When the copy loop leaves a file, no byte of the file as it is then     *)
(* lies past the copy, whatever was written to it since the scan and       *)
(* however many entries share its recorded path (write_container's probe   *)
(* for one byte more).                                                     *)
THEOREM CopyIsNotTruncated == Spec => NoTruncatedCopy
  <1>1. BaseInv /\ [Next]_vars =>
          [pc = "copy" /\ pc' = "open"
             => Len(copied.files[Cur.path]) >= Len(tree[Cur.path].bytes)]_vars
    BY CopiedFileIsWhole
  <1> QED
    BY <1>1, BaseInvariant, PTL DEF Spec, NoTruncatedCopy

-----------------------------------------------------------------------------
(* Lemmas about the log *)

LEMMA LogFacts ==
    ASSUME BaseInv, NEW log, LogInv(log), NEW m \in 1..Len(log)
    PROVE  /\ Len(log) \in Nat
           /\ log[m] \in PlaceT /\ log[m].entry \in Nat /\ log[m].at \in Nat
           /\ EndOf(log[m]) \in Nat /\ log[m].at < EndOf(log[m])
           /\ EndOf(log[m]) <= entries[log[m].entry].size
           /\ EndOf(log[m]) - log[m].at <= CHUNK_SIZE
           /\ entries[log[m].entry].path \in Files(entries)
           /\ pc \in Live => FileOf(log[m]) \in Seq(Byte)
  <1> USE DEF LogInv, BaseInv
  <1>1. log[m] \in PlaceT /\ Len(log) \in Nat
    BY ElementOfSeq, LenProperties
  <1>2. log[m].entry \in Nat /\ log[m].at \in Nat
    BY <1>1 DEF PlaceT
  <1>3. /\ log[m].entry \in 1..Len(entries) /\ ~entries[log[m].entry].is_dir
        /\ log[m].at < entries[log[m].entry].size
    OBVIOUS
  <1>4. entries[log[m].entry].path \in Files(entries) /\ entries[log[m].entry].size \in Nat
    BY <1>3, EntryFacts
  <1> DEFINE left == entries[log[m].entry].size - log[m].at
  <1>5. left \in Nat /\ left > 0
    BY <1>2, <1>3, <1>4
  <1>6. NextChunk(left) \in Nat /\ NextChunk(left) > 0 /\ NextChunk(left) <= left
        /\ NextChunk(left) <= CHUNK_SIZE
    BY <1>5, NextChunkBounds
  <1>7. EndOf(log[m]) = log[m].at + NextChunk(left)
    BY DEF EndOf
  <1>8. pc \in Live => FileOf(log[m]) \in Seq(Byte)
    BY <1>4 DEF FileOf, CopiedInv
  <1> HIDE DEF LogInv, BaseInv
  <1> QED
    BY <1>1, <1>2, <1>4, <1>6, <1>7, <1>8, ChunkAssumption

(* The place that n chunks have led to is one, where there are bytes. *)
LEMMA AfterUnique ==
    ASSUME BaseInv, NEW log, LogInv(log), NEW n \in 0..Len(log),
           NEW j \in 1..Len(entries), NEW u \in Nat, After(log, n, j, u),
           ~entries[j].is_dir, u < entries[j].size,
           NEW k \in 1..Len(entries), NEW v \in Nat, After(log, n, k, v),
           ~entries[k].is_dir, v < entries[k].size
    PROVE  j = k /\ u = v
  <1>1. ~NoChunks(j) /\ ~NoChunks(k)
    BY EntryFacts DEF NoChunks, BaseInv
  <1>2. CASE n = 0
    <2>1. u = 0 /\ v = 0 /\ ~(k \in 1..(j - 1)) /\ ~(j \in 1..(k - 1))
      BY <1>1, <1>2 DEF After
    <2> QED
      BY <2>1
  <1>3. CASE n # 0
    <2>1. n \in 1..Len(log)
      BY <1>3
    <2>2. log[n].entry \in Nat
      BY <2>1, LogFacts
    <2>3. j = log[n].entry /\ k = log[n].entry /\ u = EndOf(log[n]) /\ v = EndOf(log[n])
          => j = k /\ u = v
      OBVIOUS
    <2>4. CASE /\ j > log[n].entry /\ u = 0 /\ k > log[n].entry /\ v = 0
               /\ \A i \in (log[n].entry + 1)..(j - 1) : NoChunks(i)
               /\ \A i \in (log[n].entry + 1)..(k - 1) : NoChunks(i)
      BY <1>1, <2>2, <2>4
    <2> QED
      BY <1>3, <2>3, <2>4 DEF After
  <1> QED
    BY <1>2, <1>3

(* The end of an entry is the start of the next. *)
LEMMA AfterNext ==
    ASSUME BaseInv, NEW log, LogInv(log), NEW n \in 0..Len(log),
           NEW k \in 1..Len(entries), NEW o \in Nat, After(log, n, k, o),
           (entries[k].is_dir /\ o = 0) \/ o = entries[k].size
    PROVE  After(log, n, k + 1, 0)
  <1>1. o = 0 => NoChunks(k)
    BY DEF NoChunks
  <1>2. CASE n = 0
    BY <1>1, <1>2 DEF After
  <1>3. CASE n # 0
    <2>1. n \in 1..Len(log)
      BY <1>3
    <2>2. /\ log[n].entry \in Nat /\ EndOf(log[n]) \in Nat /\ EndOf(log[n]) > 0
          /\ ~entries[log[n].entry].is_dir
      <3>1. /\ log[n].entry \in Nat /\ log[n].at \in Nat
            /\ EndOf(log[n]) \in Nat /\ log[n].at < EndOf(log[n])
        BY <2>1, LogFacts
      <3>2. ~entries[log[n].entry].is_dir
        BY <2>1 DEF LogInv
      <3> QED
        BY <3>1, <3>2
    <2>3. CASE k = log[n].entry /\ o = EndOf(log[n])
      BY <1>3, <2>2, <2>3 DEF After
    <2>4. CASE /\ k > log[n].entry /\ o = 0
               /\ EndOf(log[n]) = entries[log[n].entry].size
               /\ \A j \in (log[n].entry + 1)..(k - 1) : NoChunks(j)
      BY <1>1, <1>3, <2>2, <2>4 DEF After
    <2> QED
      BY <1>3, <2>3, <2>4 DEF After
  <1> QED
    BY <1>2, <1>3

LEMMA LogSame ==
    ASSUME NEW log, LogInv(log), UNCHANGED <<entries, copied>>,
           pc' \in Early => pc \in Early, pc' \in Live => pc \in Live
    PROVE  LogInv(log)'
  BY DEF LogInv, After, EndOf, FileOf, NoChunks

LEMMA FramesSame ==
    ASSUME NEW log, FramesInv(log), UNCHANGED <<entries, copied, frames>>,
           pc' \in Live => pc \in Live
    PROVE  FramesInv(log)'
  BY DEF FramesInv, Genuine, Chunk, EndOf, FileOf

LEMMA PathsSame ==
    ASSUME PathsInv, UNCHANGED entries
    PROVE  PathsInv'
  BY DEF PathsInv

LEMMA GotFacts ==
    ASSUME BaseInv, pc \in Live, NEW j \in DOMAIN entries, ~entries[j].is_dir
    PROVE  /\ copied.files[entries[j].path] \in Seq(Byte)
           /\ Got(j) \in Nat
  <1>1. entries[j].path \in Files(entries)
    BY DEF Files
  <1>2. copied.files[entries[j].path] \in Seq(Byte)
    BY <1>1 DEF BaseInv, CopiedInv
  <1> QED
    BY <1>2 DEF Got

-----------------------------------------------------------------------------
(* ContentInv is inductive *)

LEMMA ContentInit == Init => ContentInv(<<>>)
  <1> SUFFICES ASSUME Init PROVE ContentInv(<<>>)
    OBVIOUS
  <1> USE DEF Init
  <1>1. <<>> \in Seq(PlaceT) /\ Len(<<>>) = 0
    BY EmptySeq
  <1>2. LogInv(<<>>)
    BY <1>1 DEF LogInv
  <1>3. FramesInv(<<>>) /\ WriteInv(<<>>)
    BY DEF FramesInv, WriteInv, Live, Early
  <1>4. PathsInv
    BY DEF PathsInv
  <1>5. ReadInv(<<>>)
    BY DEF ReadInv, Reading, Fresh
  <1> QED
    BY <1>2, <1>3, <1>4, <1>5 DEF ContentInv

LEMMA ContentScan ==
    ASSUME DistinctPaths, BaseInv, NEW log, ContentInv(log), Scan
    PROVE  ContentInv(log)'
  <1> USE DEF Scan
  <1>1. log = <<>> /\ tree \in Trees
    BY DEF ContentInv, LogInv, Early, BaseInv, PlaceInv
  <1>2. <<>> \in Seq(PlaceT) /\ Len(<<>>) = 0
    BY EmptySeq
  <1>3. pc' \in {"create", "failed"}
    OBVIOUS
  <1>4. LogInv(log)'
    BY <1>1, <1>2 DEF LogInv
  <1>5. FramesInv(log)' /\ WriteInv(log)'
    BY <1>3 DEF FramesInv, WriteInv, Live, Early
  <1>6. ReadInv(log)'
    BY <1>3 DEF ReadInv, ContentInv, Reading
  <1>7. PathsInv'
    <2>1. PICK order : Lists(order, tree) /\ entries' = Recorded(order)
      BY <1>1, ScanLists
    <2>2. /\ order \in Seq(DOMAIN tree)
          /\ \A i, j \in 1..Len(order) : order[i] = order[j] => i = j
          /\ \A i \in 1..Len(order) : tree[order[i]].kind # "link"
      BY <2>1 DEF Lists
    <2>3. Len(entries') = Len(order) /\ entries' \in Seq(EntryT)
          /\ \A i \in 1..Len(order) : entries'[i] = Entry(order[i])
      BY <2>1, <2>2, RecordedTypes DEF BaseInv
    <2>4. ASSUME NEW i \in 1..Len(order), ~entries'[i].is_dir
          PROVE  /\ order[i] \in DOMAIN tree /\ tree[order[i]].kind = "file"
                 /\ entries'[i].path = rel_path(order[i])
      <3>1. order[i] \in DOMAIN tree
        BY <2>2, ElementOfSeq
      <3>2. tree[order[i]].kind \in {"dir", "file", "link"}
        BY <3>1 DEF BaseInv, TreeInv, Node
      <3> QED
        BY <2>2, <2>3, <2>4, <3>1, <3>2, EntryTypes DEF BaseInv
    <2>5. DOMAIN entries' = 1..Len(order)
      BY <2>3
    <2>6. ASSUME NEW i \in 1..Len(order), NEW j \in 1..Len(order),
                 ~entries'[i].is_dir, ~entries'[j].is_dir, entries'[i].path = entries'[j].path
          PROVE  i = j
      BY <1>1, <2>2, <2>4, <2>6 DEF DistinctPaths
    <2> QED
      BY <2>5, <2>6 DEF PathsInv
  <1> QED
    BY <1>4, <1>5, <1>6, <1>7 DEF ContentInv

LEMMA ContentCreate ==
    ASSUME BaseInv, NEW log, ContentInv(log), Create
    PROVE  ContentInv(log)'
  <1> USE DEF Create
  <1>1. log = <<>> /\ idx = 1 /\ pos = 0 /\ seq = 0
    BY DEF ContentInv, LogInv, Early, BaseInv, PlaceInv
  <1>2. <<>> \in Seq(PlaceT) /\ Len(<<>>) = 0
    BY EmptySeq
  <1>3. LogInv(log)'
    BY <1>1, <1>2 DEF LogInv
  <1>4. FramesInv(log)'
    <2>1. DOMAIN frames' = {1} /\ frames'[1] = seal_to(MANIFEST_SEQ, entries)
      OBVIOUS
    <2> QED
      BY <2>1 DEF FramesInv, Genuine, seal_to
  <1>5. PathsInv'
    BY PathsSame DEF ContentInv
  <1>6. ReadInv(log)'
    BY DEF ReadInv, ContentInv, Reading
  <1>7. \A j \in DOMAIN entries : ~entries[j].is_dir => Got(j)' = 0
    <2> SUFFICES ASSUME NEW j \in DOMAIN entries, ~entries[j].is_dir PROVE Got(j)' = 0
      OBVIOUS
    <2>1. entries[j].path \in Files(entries)
      BY DEF Files
    <2>2. copied'.files[entries[j].path] = <<>>
      BY <2>1
    <2> QED
      BY <2>2, <1>2 DEF Got
  <1>8. WriteInv(log)'
    <2>1. Len(entries) \in Nat /\ DOMAIN entries = 1..Len(entries)
          /\ \A j \in DOMAIN entries : entries[j].size \in Nat
      BY EntryFacts DEF BaseInv
    <2>2. After(log, seq, idx, pos)'
      BY <1>1 DEF After
    <2> QED
      BY <1>1, <1>2, <1>7, <2>1, <2>2 DEF WriteInv
  <1> QED
    BY <1>3, <1>4, <1>5, <1>6, <1>8 DEF ContentInv

LEMMA ContentWalk ==
    ASSUME BaseInv, NEW log, ContentInv(log),
           OpenFile \/ CopiedFile \/ Written \/ WriteFails
    PROVE  ContentInv(log)'
  <1>0. /\ pc \in Writing
        /\ UNCHANGED <<entries, frames, seq, opened, copied, restored>>
    BY DEF OpenFile, CopiedFile, Written, WriteFails, Writing, container
  <1>1. pc' \in {"open", "copy", "stored", "failed"}
    BY DEF OpenFile, CopiedFile, Written, WriteFails
  <1>2. pc' \in Live => pc \in Live /\ pc \in {"open", "copy"}
    BY <1>0, <1>1 DEF OpenFile, CopiedFile, Written, WriteFails, Live, Early, Writing, Labels
  <1>3. LogInv(log)' /\ FramesInv(log)' /\ PathsInv'
    <2>1. pc' \notin Early
      BY <1>1 DEF Early
    <2> QED
      BY <1>0, <1>2, <2>1, LogSame, FramesSame, PathsSame DEF ContentInv
  <1>4. ReadInv(log)'
    BY <1>0, <1>1 DEF ReadInv, ContentInv, Reading, Writing
  <1>5. /\ pc' \in Live =>
             \A j \in DOMAIN entries : ~entries[j].is_dir => Got(j)' <= entries[j].size
        /\ \A j \in DOMAIN entries : Got(j)' = Got(j)
    BY <1>0, <1>2 DEF WriteInv, ContentInv, Got
  <1>6. Len(entries) \in Nat /\ DOMAIN entries = 1..Len(entries)
        /\ \A j \in DOMAIN entries : entries[j].size \in Nat
    BY EntryFacts DEF BaseInv
  <1>7. ASSUME pc' \in {"open", "copy"}
        PROVE  /\ seq' = Len(log) /\ After(log, seq, idx, pos)'
               /\ \A j \in DOMAIN entries : ~entries[j].is_dir =>
                    Got(j) = IF j < idx' THEN entries[j].size ELSE IF j = idx' THEN pos' ELSE 0
    <2>1. /\ seq = Len(log) /\ After(log, seq, idx, pos)
          /\ \A j \in DOMAIN entries : ~entries[j].is_dir =>
               Got(j) = IF j < idx THEN entries[j].size ELSE IF j = idx THEN pos ELSE 0
      BY <1>2, <1>7 DEF ContentInv, WriteInv, Live, Labels, Early, Writing
    <2>2. CASE UNCHANGED <<idx, pos>>
      BY <1>0, <2>1, <2>2 DEF After, EndOf, NoChunks
    <2>3. CASE /\ idx <= Len(entries) /\ idx' = idx + 1 /\ pos' = 0
               /\ (entries[idx].is_dir /\ pos = 0) \/ pos = entries[idx].size
      <3>1. idx \in 1..Len(entries) /\ pos \in Nat
        BY <1>6, <2>3 DEF BaseInv, TypeOK
      <3>2. seq \in 0..Len(log)
        BY <2>1 DEF BaseInv, TypeOK
      <3>3. After(log, seq, idx + 1, 0)
        BY <2>1, <2>3, <3>1, <3>2, AfterNext DEF ContentInv
      <3>4. After(log, seq, idx, pos)'
        BY <1>0, <2>3, <3>3 DEF After, EndOf, NoChunks
      <3>5. ASSUME NEW j \in DOMAIN entries, ~entries[j].is_dir
            PROVE  Got(j) = IF j < idx + 1 THEN entries[j].size ELSE IF j = idx + 1 THEN 0 ELSE 0
        BY <1>6, <2>1, <2>3, <3>1, <3>5
      <3> QED
        BY <1>0, <2>1, <2>3, <3>4, <3>5
    <2>4. \/ UNCHANGED <<idx, pos>>
          \/ /\ idx <= Len(entries) /\ idx' = idx + 1 /\ pos' = 0
             /\ (entries[idx].is_dir /\ pos = 0) \/ pos = entries[idx].size
      BY <1>7 DEF OpenFile, CopiedFile, Written, WriteFails, NextEntry, Cur, BaseInv, PlaceInv
    <2> QED
      BY <2>2, <2>3, <2>4
  <1>8. WriteInv(log)'
    BY <1>0, <1>5, <1>7 DEF WriteInv, Got
  <1> QED
    BY <1>3, <1>4, <1>8 DEF ContentInv

(* The user's edits and the damage leave what was copied alone. *)
LEMMA ContentEdit ==
    ASSUME BaseInv, NEW log, ContentInv(log), EditFile \/ RemoveFile
    PROVE  ContentInv(log)'
  <1>0. UNCHANGED <<entries, frames, pc, idx, pos, seq, opened, copied, restored>>
    BY DEF EditFile, RemoveFile, container
  <1>1. LogInv(log)' /\ FramesInv(log)' /\ PathsInv'
    BY <1>0, LogSame, FramesSame, PathsSame DEF ContentInv
  <1>2. WriteInv(log)' /\ ReadInv(log)'
    BY <1>0 DEF ContentInv, WriteInv, ReadInv, ReadAt, ReadDirs, ReadFiles, ReadBytes, ReadPart,
               Got, After, EndOf, NoChunks, Held, Cur
  <1> QED
    BY <1>1, <1>2 DEF ContentInv

LEMMA DerivedIsGenuine ==
    ASSUME BaseInv, pc \in Live, NEW log, LogInv(log),
           NEW g \in FrameT, Genuine(log, g), NEW f \in FrameT, Derived(f, g)
    PROVE  Genuine(log, f)
  <1>1. CASE f.dk = g.dk /\ f.aad = g.aad /\ f.plain = g.plain
    BY <1>1 DEF Genuine
  <1>2. CASE /\ f.dk = Other /\ f.aad = <<Other, g.aad[2]>>
             /\ f.plain = IF g.aad[2] = MANIFEST_SEQ THEN g.plain ELSE OtherBytes(g.plain)
    <2>1. CASE g.aad[2] = MANIFEST_SEQ
      BY <1>2, <2>1 DEF Genuine
    <2>2. CASE g.aad[2] # MANIFEST_SEQ
      <3>1. PICK m \in 1..Len(log) : g.aad[2] = m - 1 /\ g.plain = Held(g.dk, Chunk(log[m]))
        BY <2>2 DEF Genuine
      <3>2. Chunk(log[m]) \in Seq(Byte)
        <4>1. FileOf(log[m]) \in Seq(Byte) /\ log[m].at \in Nat /\ EndOf(log[m]) \in Nat
          BY <3>1, LogFacts
        <4>2. EndOf(log[m]) <= Len(FileOf(log[m]))
          BY <3>1 DEF LogInv
        <4> QED
          BY <4>1, <4>2 DEF Chunk
      <3>3. OtherBytes(g.plain) = OtherBytes(Chunk(log[m]))
        BY <3>1, <3>2, OtherBytesTypes DEF Held
      <3> QED
        BY <1>2, <2>2, <3>1, <3>3 DEF Genuine, Held, This, Other
    <2> QED
      BY <2>1, <2>2
  <1> QED
    BY <1>1, <1>2 DEF Derived

LEMMA ContentDamage ==
    ASSUME BaseInv, NEW log, ContentInv(log), Damage
    PROVE  ContentInv(log)'
  <1>0. /\ pc \in {"open", "copy", "stored"} /\ pc' = "stored"
        /\ UNCHANGED <<entries, idx, pos, seq, opened, copied, restored>>
        /\ (Truncate \/ Rearrange) \/ UNCHANGED frames
    BY DEF Damage, Truncate, Rearrange, AlterHeader, Writing
  <1>1. pc \in Live /\ pc' \in Live /\ pc' \notin Early
    BY <1>0 DEF Live, Labels, Early, Writing
  <1>2. LogInv(log)' /\ PathsInv'
    BY <1>0, <1>1, LogSame, PathsSame DEF ContentInv
  <1>3. WriteInv(log)'
    BY <1>0, <1>1 DEF ContentInv, WriteInv, Got
  <1>4. ReadInv(log)'
    BY <1>0 DEF ContentInv, ReadInv, Reading
  <1>5. FramesInv(log)'
    <2>1. CASE UNCHANGED frames
      BY <1>0, <1>1, <2>1, FramesSame DEF ContentInv
    <2>2. CASE Truncate \/ Rearrange
      <3>1. frames \in Seq(FrameT)
        BY DEF BaseInv, ManifestInv
      <3>2. /\ frames' \in Seq(FrameT)
            /\ \A k \in DOMAIN frames' : \E j \in DOMAIN frames : Derived(frames'[k], frames[j])
        BY <2>2, <3>1, DamagedFrames
      <3>3. ASSUME NEW k \in DOMAIN frames'
            PROVE  Genuine(log, frames'[k])
        <4>1. PICK j \in DOMAIN frames : Derived(frames'[k], frames[j])
          BY <3>2
        <4>2. frames'[k] \in FrameT /\ frames[j] \in FrameT
          BY <3>1, <3>2
        <4>3. Genuine(log, frames[j])
          BY <1>1 DEF ContentInv, FramesInv
        <4> QED
          BY <1>1, <4>1, <4>2, <4>3, DerivedIsGenuine DEF ContentInv
      <3> QED
        BY <1>0, <3>3 DEF FramesInv, Genuine, Chunk, EndOf, FileOf
    <2> QED
      BY <1>0, <2>1, <2>2
  <1> QED
    BY <1>2, <1>3, <1>4, <1>5 DEF ContentInv

LEMMA SecondPart ==
    ASSUME NEW s \in Seq(Byte), NEW t \in Seq(Byte), Len(t) > 0
    PROVE  SubSeq(s \o t, Len(s) + 1, Len(s) + Len(t)) = t
  <1>1. Len(s) \in Nat /\ Len(t) \in Nat
    OBVIOUS
  <1>2. /\ Len(s) + 1 \in (Len(s) + 1)..(Len(s) + Len(t))
        /\ Len(s) + Len(t) \in (Len(s) + 1)..(Len(s) + Len(t))
    BY <1>1
  <1>3. SubSeq(s \o t, Len(s) + 1, Len(s) + Len(t))
          = SubSeq(t, Len(s) + 1 - Len(s), Len(s) + Len(t) - Len(s))
    BY <1>2, SubSeqOfConcat2
  <1>4. Len(s) + 1 - Len(s) = 1 /\ Len(s) + Len(t) - Len(s) = Len(t)
    BY <1>1
  <1> QED
    BY <1>3, <1>4, SubSeqFull

LEMMA AfterAppend ==
    ASSUME NEW log \in Seq(PlaceT), NEW c \in PlaceT, UNCHANGED entries,
           NEW n \in 0..Len(log), NEW k, NEW o, After(log, n, k, o)
    PROVE  After(Append(log, c), n, k, o)'
  <1>1. n # 0 => Append(log, c)[n] = log[n]
    BY AppendProperties
  <1> QED
    BY <1>1 DEF After, EndOf, NoChunks

(* the chunk that the copy loop adds to the log and to the container *)
Grows(log, log2) ==
    \/ pc' = "failed"
    \/ \E c \in PlaceT :
         /\ log2 = Append(log, c)
         /\ frames' = Append(frames, seal_to(Len(log), Chunk(c)'))
         /\ \A m \in 1..Len(log) : Chunk(log[m])' = Chunk(log[m])

LEMMA ContentCopy ==
    ASSUME BaseInv, NEW log, ContentInv(log), CopyChunk
    PROVE  \E log2 : ContentInv(log2)' /\ Grows(log, log2)
  <1>0. /\ pc = "copy" /\ pc \in Live
        /\ UNCHANGED <<tree, entries, header, idx, opened, restored, budget>>
    BY DEF CopyChunk, Live, Early, Labels, Writing
  <1>1. CASE pc' = "failed" /\ UNCHANGED <<frames, copied, seq, pos>>
    <2>1. pc' \notin Early /\ pc' \notin Live
      BY <1>1 DEF Early, Live
    <2>2. LogInv(log)' /\ FramesInv(log)' /\ PathsInv'
      BY <1>0, <1>1, <2>1, LogSame, FramesSame, PathsSame DEF ContentInv
    <2>3. WriteInv(log)' /\ ReadInv(log)'
      BY <1>0, <1>1, <2>1 DEF ContentInv, WriteInv, ReadInv, Reading
    <2> QED
      BY <1>1, <2>2, <2>3 DEF ContentInv, Grows
  <1>2. CASE pc' # "failed"
    <2>1. PICK n \in 1..CHUNK_SIZE, chunk \in Seq(Byte) :
            /\ n = NextChunk(Cur.size - pos) /\ n <= Cur.size - pos
            /\ Len(chunk) = n /\ CopyStep(n, chunk)
      BY <1>2, CopyFacts
    <2>2. /\ idx \in 1..Len(entries) /\ ~entries[idx].is_dir
          /\ Cur.path \in Files(entries)
          /\ pos \in Nat /\ pos < Cur.size /\ Cur.size \in Nat /\ seq \in Nat
      BY CopyFacts
    <2>3. n \in Nat /\ n > 0
      BY ChunkAssumption
    <2>4. /\ frames' = Append(frames, seal_to(seq, chunk))
          /\ copied' = [copied EXCEPT !.files[Cur.path] = @ \o chunk]
          /\ seq' = seq + 1 /\ pos' = pos + n /\ pc' = pc
      BY <2>1 DEF CopyStep
    <2>0. PICK c : c = [entry |-> idx, at |-> pos]
      OBVIOUS
    <2> DEFINE old == copied.files[Cur.path]
               log2 == Append(log, c)
    <2>5. /\ seq = Len(log) /\ After(log, seq, idx, pos)
          /\ \A j \in DOMAIN entries : ~entries[j].is_dir =>
               Got(j) = IF j < idx THEN entries[j].size ELSE IF j = idx THEN pos ELSE 0
      BY <1>0 DEF ContentInv, WriteInv
    <2>6. DOMAIN entries = 1..Len(entries) /\ Len(entries) \in Nat
          /\ \A j \in DOMAIN entries : entries[j].size \in Nat
      BY EntryFacts DEF BaseInv
    <2>7. Len(old) = pos /\ old \in Seq(Byte)
      BY <1>0, <2>2, <2>5, <2>6, GotFacts DEF Got, Cur
    <2>8. /\ old \o chunk \in Seq(Byte) /\ Len(old \o chunk) = pos + n
      <3> HIDE DEF old
      <3>1. Len(chunk) = n
        BY <2>1
      <3> QED
        BY <2>7, <3>1, ConcatProperties
    <2>9. \A q \in Files(entries) :
             copied'.files[q] = IF q = Cur.path THEN old \o chunk ELSE copied.files[q]
      <3>1. copied \in [dirs : {Dirs(entries)}, files : [Files(entries) -> Seq(Byte)]]
        BY <1>0 DEF BaseInv, CopiedInv
      <3> QED
        BY <2>2, <2>4, <3>1
    <2>10. log \in Seq(PlaceT) /\ Len(log) \in Nat /\ c \in PlaceT
      BY <2>0, <2>2, LenProperties DEF ContentInv, LogInv, PlaceT
    <2>11. /\ log2 \in Seq(PlaceT) /\ Len(log2) = Len(log) + 1
           /\ \A m \in 1..Len(log) : log2[m] = log[m]
           /\ log2[Len(log) + 1] = c
      BY <2>10, AppendProperties
    <2>12. EndOf(c)' = pos + n
      BY <1>0, <2>0, <2>1 DEF EndOf, Cur
    <2>13. FileOf(c)' = old \o chunk
      BY <1>0, <2>0, <2>2, <2>9 DEF FileOf, Cur
    <2>14. Chunk(c)' = chunk
      <3>1. SubSeq(old \o chunk, pos + 1, pos + n) = chunk
        <4> HIDE DEF old
        <4>1. Len(chunk) = n
          BY <2>1
        <4> QED
          BY <2>3, <2>7, <4>1, SecondPart
      <3>3. Chunk(c)' = SubSeq(FileOf(c)', pos + 1, EndOf(c)')
        BY <2>0 DEF Chunk
      <3> QED
        BY <2>12, <2>13, <3>1, <3>3
    <2>15. ASSUME NEW m \in 1..Len(log)
           PROVE  /\ EndOf(log[m])' = EndOf(log[m])
                  /\ EndOf(log[m]) <= Len(FileOf(log[m]))
                  /\ EndOf(log[m]) <= Len(FileOf(log[m])')
                  /\ Chunk(log[m])' = Chunk(log[m])
      <3>1. /\ log[m].at \in Nat /\ EndOf(log[m]) \in Nat /\ log[m].at < EndOf(log[m])
            /\ entries[log[m].entry].path \in Files(entries)
            /\ FileOf(log[m]) \in Seq(Byte)
        BY <1>0, LogFacts DEF ContentInv
      <3>2. EndOf(log[m]) <= Len(FileOf(log[m]))
        BY <1>0 DEF ContentInv, LogInv
      <3>3. EndOf(log[m])' = EndOf(log[m])
        BY <1>0 DEF EndOf
      <3>4. CASE entries[log[m].entry].path = Cur.path
        <4>1. FileOf(log[m]) = old /\ FileOf(log[m])' = old \o chunk
          BY <1>0, <2>2, <2>9, <3>4 DEF FileOf
        <4>2. EndOf(log[m]) <= pos + n
          BY <2>2, <2>3, <2>7, <3>1, <3>2, <4>1, SMTT(30)
        <4>3. SubSeq(old \o chunk, log[m].at + 1, EndOf(log[m]))
                = SubSeq(old, log[m].at + 1, EndOf(log[m]))
          <5>1. log[m].at + 1 \in 1..Len(old) /\ EndOf(log[m]) \in 1..Len(old)
            BY <2>2, <2>7, <3>1, <3>2, <4>1, SMTT(30)
          <5> QED
            BY <2>7, <5>1, SubSeqOfConcat1
        <4> QED
          BY <2>8, <3>2, <3>3, <4>1, <4>2, <4>3 DEF Chunk
      <3>5. CASE entries[log[m].entry].path # Cur.path
        <4>1. FileOf(log[m])' = FileOf(log[m])
          BY <1>0, <2>9, <3>1, <3>5 DEF FileOf
        <4> QED
          BY <3>2, <3>3, <4>1 DEF Chunk
      <3> QED
        BY <3>4, <3>5
    <2>16. LogInv(log2)'
      <3>1. ASSUME NEW m \in 1..Len(log2)
            PROVE  /\ log2[m].entry \in 1..Len(entries) /\ ~entries[log2[m].entry].is_dir
                   /\ log2[m].at < entries[log2[m].entry].size
                   /\ After(log2, m - 1, log2[m].entry, log2[m].at)'
                   /\ EndOf(log2[m])' <= Len(FileOf(log2[m])')
        <4>1. CASE m \in 1..Len(log)
          <5>1. /\ log[m].entry \in 1..Len(entries) /\ ~entries[log[m].entry].is_dir
                /\ log[m].at < entries[log[m].entry].size
                /\ After(log, m - 1, log[m].entry, log[m].at)
            BY <4>1 DEF ContentInv, LogInv
          <5>2. After(log2, m - 1, log[m].entry, log[m].at)'
            <6>1. m - 1 \in 0..Len(log)
              BY <2>10, <4>1
            <6> QED
              BY <1>0, <2>10, <5>1, <6>1, AfterAppend
          <5>3. log2[m] = log[m]
            BY <2>11, <4>1
          <5> HIDE DEF log2
          <5> QED
            BY <2>15, <4>1, <5>1, <5>2, <5>3
        <4>2. CASE m = Len(log) + 1
          <5>1. log2[m] = c /\ m - 1 = Len(log)
            BY <2>10, <2>11, <4>2
          <5>2. After(log2, Len(log), c.entry, c.at)'
            <6>1. Len(log) \in 0..Len(log) /\ After(log, Len(log), c.entry, c.at)
              BY <2>0, <2>5, <2>10
            <6> QED
              BY <1>0, <2>10, <6>1, AfterAppend
          <5>3. EndOf(c)' <= Len(FileOf(c)')
            <6> HIDE DEF old
            <6> QED
              BY <2>2, <2>3, <2>8, <2>12, <2>13
          <5>4. c.entry = idx /\ c.at = pos
            BY <2>0
          <5> HIDE DEF log2
          <5>5. /\ c.entry \in 1..Len(entries) /\ ~entries[c.entry].is_dir
                /\ c.at < entries[c.entry].size
            BY <2>2, <5>4 DEF Cur
          <5> QED
            BY <5>1, <5>2, <5>3, <5>5
        <4> QED
          BY <2>10, <2>11, <4>1, <4>2
      <3>2. pc' \notin Early
        BY <1>0, <2>4 DEF Early
      <3> HIDE DEF log2
      <3> QED
        BY <1>0, <2>11, <3>1, <3>2 DEF LogInv
    <2>17. FramesInv(log2)'
      <3>0. PICK f : f = seal_to(seq, chunk)
        OBVIOUS
      <3>1. Genuine(log2, f)'
        <4>1. f.aad[1] = f.dk /\ f.aad[2] = Len(log2) - 1 /\ f.plain = Held(f.dk, Chunk(c)')
          BY <2>5, <2>10, <2>11, <2>14, <3>0 DEF seal_to, Held
        <4>2. Len(log2) \in 1..Len(log2) /\ log2[Len(log2)] = c
          BY <2>10, <2>11
        <4> HIDE DEF log2
        <4> QED
          BY <4>1, <4>2 DEF Genuine, Held
      <3>2. ASSUME NEW g, Genuine(log, g)
            PROVE  Genuine(log2, g)'
        <4>1. CASE g.aad[2] = MANIFEST_SEQ
          BY <3>2, <4>1 DEF Genuine
        <4>2. CASE g.aad[2] # MANIFEST_SEQ
          <5>1. PICK m \in 1..Len(log) : g.aad[2] = m - 1 /\ g.plain = Held(g.dk, Chunk(log[m]))
            BY <3>2, <4>2 DEF Genuine
          <5>2. m \in 1..Len(log2) /\ log2[m] = log[m] /\ Chunk(log[m])' = Chunk(log[m])
            BY <2>10, <2>11, <2>15
          <5> HIDE DEF log2
          <5> QED
            BY <3>2, <5>1, <5>2 DEF Genuine, Held
        <4> QED
          BY <4>1, <4>2
      <3>3. ASSUME NEW k \in DOMAIN frames'
            PROVE  frames'[k] = f \/ (k \in DOMAIN frames /\ frames'[k] = frames[k])
        <4>1. frames \in Seq(FrameT)
          BY DEF BaseInv, ManifestInv
        <4> QED
          BY <2>4, <3>0, <4>1
      <3>4. ASSUME NEW k \in DOMAIN frames'
            PROVE  \E g : g = frames'[k] /\ Genuine(log2, g)'
        <4>1. CASE frames'[k] = f
          BY <3>1, <4>1
        <4>2. CASE k \in DOMAIN frames /\ frames'[k] = frames[k]
          <5>1. PICK g : g = frames[k]
            OBVIOUS
          <5>2. Genuine(log, g)
            BY <1>0, <4>2, <5>1 DEF ContentInv, FramesInv
          <5> QED
            BY <3>2, <4>2, <5>1, <5>2
        <4> QED
          BY <3>3, <4>1, <4>2
      <3> HIDE DEF log2
      <3> QED
        BY <3>4 DEF FramesInv, Genuine
    <2>18. PathsInv'
      BY <1>0, PathsSame DEF ContentInv
    <2>19. ReadInv(log2)'
      BY <1>0, <2>4 DEF ContentInv, ReadInv, Reading
    <2>20. ASSUME NEW j \in DOMAIN entries, ~entries[j].is_dir
           PROVE  Got(j)' = IF j < idx THEN entries[j].size ELSE IF j = idx THEN pos + n ELSE 0
      <3>1. entries[j].path \in Files(entries)
        BY <2>20 DEF Files
      <3>2. CASE j = idx
        <4>1. copied'.files[entries[j].path] = old \o chunk
          BY <2>9, <3>1, <3>2 DEF Cur
        <4> HIDE DEF old
        <4>2. Got(j)' = pos + n
          BY <1>0, <2>8, <4>1 DEF Got
        <4> QED
          BY <2>2, <3>2, <4>2
      <3>3. CASE j # idx
        <4>1. entries[j].path # Cur.path
          BY <2>2, <2>6, <2>20, <3>3 DEF ContentInv, PathsInv, Cur
        <4>2. Got(j)' = Got(j)
          BY <1>0, <2>9, <3>1, <4>1 DEF Got
        <4> QED
          BY <2>5, <2>20, <3>3, <4>2
      <3> QED
        BY <3>2, <3>3
    <2>21. WriteInv(log2)'
      <3>1. After(log2, seq, idx, pos)'
        <4>1. seq' = Len(log) + 1 /\ seq' # 0 /\ log2[seq'] = c
          BY <2>4, <2>5, <2>10, <2>11
        <4>2. c.entry = idx
          BY <2>0
        <4> HIDE DEF log2
        <4> QED
          BY <1>0, <2>4, <2>12, <4>1, <4>2 DEF After
      <3>2. pos + n <= entries[idx].size
        BY <2>1, <2>2, <2>3 DEF Cur
      <3>3. \A j \in DOMAIN entries : ~entries[j].is_dir => Got(j)' <= entries[j].size
        BY <2>6, <2>20, <3>2
      <3>4. seq' = Len(log2)
        BY <2>4, <2>5, <2>11
      <3> HIDE DEF log2
      <3> QED
        BY <1>0, <2>4, <2>20, <3>1, <3>3, <3>4 DEF WriteInv, Got
    <2>22. Grows(log, log2)
      <3>1. frames' = Append(frames, seal_to(Len(log), Chunk(c)'))
        BY <2>4, <2>5, <2>14
      <3>2. \A m \in 1..Len(log) : Chunk(log[m])' = Chunk(log[m])
        BY <2>15
      <3> QED
        BY <2>10, <3>1, <3>2 DEF Grows
    <2> HIDE DEF log2
    <2> QED
      BY <2>16, <2>17, <2>18, <2>19, <2>21, <2>22 DEF ContentInv
  <1> QED
    BY <1>0, <1>1, <1>2, CopyFacts DEF CopyStep

LEMMA ContentOpen ==
    ASSUME BaseInv, NEW log, ContentInv(log), Open
    PROVE  ContentInv(log)'
  <1>0. /\ pc = "stored" /\ UNCHANGED <<entries, frames, copied, restored>>
        /\ \/ pc' = "extract" /\ idx' = 1 /\ pos' = 0 /\ seq' = 0
           \/ pc' = "refused"
    BY OpenFacts DEF container
  <1>1. pc \in Live /\ pc' \in Live /\ pc' \notin Early /\ pc' \notin {"open", "copy", "chunk"}
    BY <1>0 DEF Live, Early, Labels, Reading, Ended
  <1>2. LogInv(log)' /\ FramesInv(log)' /\ PathsInv'
    BY <1>0, <1>1, LogSame, FramesSame, PathsSame DEF ContentInv
  <1>3. WriteInv(log)'
    BY <1>0, <1>1 DEF ContentInv, WriteInv, Got
  <1>4. ReadInv(log)'
    <2>1. CASE pc' = "refused"
      BY <2>1 DEF ReadInv, Reading
    <2>2. CASE pc' = "extract" /\ idx' = 1 /\ pos' = 0 /\ seq' = 0
      <3>1. restored = Fresh
        BY <1>0 DEF ContentInv, ReadInv, Reading
      <3>2. Len(log) \in Nat /\ DOMAIN entries = 1..Len(entries) /\ Len(entries) \in Nat
        BY LenProperties, EntryFacts DEF ContentInv, LogInv, BaseInv
      <3>3. After(log, seq, idx, pos)'
        BY <2>2 DEF After
      <3>4. {i \in DOMAIN entries : i < 1} = {}
        BY <3>2
      <3>5. restored.files \in [{} -> Seq(Byte)] /\ restored.dirs = {}
            /\ restored = [dirs |-> restored.dirs, files |-> restored.files]
        BY <3>1 DEF Fresh
      <3>6. {entries[j].path : j \in {i \in DOMAIN entries : i < 1 /\ entries[i].is_dir}} = {}
        BY <3>4
      <3> QED
        <4>1. ReadAt(log)'
          BY <2>2, <3>2, <3>3 DEF ReadAt
        <4>2. ReadDirs'
          BY <1>0, <2>2, <3>5, <3>6 DEF ReadDirs
        <4>3. ReadFiles'
          <5>1. {i \in DOMAIN entries' : ~entries'[i].is_dir
                   /\ (i < idx' \/ (i = idx' /\ pc' = "chunk"))} = {}
            BY <1>0, <2>2, <3>4
          <5>2. {entries'[j].path : j \in {}} = {}
            OBVIOUS
          <5>3. restored' = restored
            BY <1>0
          <5> QED
            BY <3>5, <5>1, <5>2, <5>3 DEF ReadFiles
        <4>4. ReadBytes'
          BY <1>0, <2>2, <3>2, <3>4 DEF ReadBytes
        <4> QED
          BY <2>2, <4>1, <4>2, <4>3, <4>4 DEF ReadInv, Reading
    <2> QED
      BY <1>0, <2>1, <2>2
  <1> QED
    BY <1>2, <1>3, <1>4 DEF ContentInv

(* what the other conjuncts keep while an unlock reads *)
LEMMA ContentReading ==
    ASSUME BaseInv, NEW log, ContentInv(log), Extract
    PROVE  /\ pc \in Reading /\ pc \in Live
           /\ UNCHANGED <<entries, frames, opened, copied>>
           /\ LogInv(log)' /\ FramesInv(log)' /\ PathsInv' /\ WriteInv(log)'
           /\ \A j : Got(j)' = Got(j)
           /\ Len(entries) \in Nat /\ DOMAIN entries = 1..Len(entries)
           /\ \A j \in DOMAIN entries : entries[j].size \in Nat /\ entries[j].is_dir \in BOOLEAN
           /\ idx \in 1..(Len(entries) + 1) /\ pos \in Nat /\ seq \in Nat
           /\ Len(log) \in Nat /\ seq <= Len(log) /\ After(log, seq, idx, pos)
  <1>0. /\ pc \in Reading
        /\ pc' \in Reading \cup {"restored", "refused"}
        /\ UNCHANGED <<entries, frames, opened, copied>>
    BY DEF Extract, ExtractDir, ExtractFile, ExtractChunk, ExtractedFile, ExtractRefuses,
           Extracted, Reading, container
  <1>1. pc \in Live /\ pc' \in Live /\ pc' \notin Early /\ pc' \notin {"open", "copy"}
    BY <1>0 DEF Live, Early, Labels, Reading, Ended
  <1>2. LogInv(log)' /\ FramesInv(log)' /\ PathsInv'
    BY <1>0, <1>1, LogSame, FramesSame, PathsSame DEF ContentInv
  <1>3. WriteInv(log)' /\ \A j : Got(j)' = Got(j)
    BY <1>0, <1>1 DEF ContentInv, WriteInv, Got
  <1>4. Len(entries) \in Nat /\ DOMAIN entries = 1..Len(entries)
        /\ \A j \in DOMAIN entries : entries[j].size \in Nat /\ entries[j].is_dir \in BOOLEAN
    BY EntryFacts DEF BaseInv
  <1>5. idx \in 1..(Len(entries) + 1) /\ pos \in Nat /\ seq \in Nat
    BY DEF BaseInv, TypeOK
  <1>6. Len(log) \in Nat /\ seq <= Len(log) /\ After(log, seq, idx, pos)
    BY <1>0, LenProperties DEF ContentInv, LogInv, ReadInv, ReadAt
  <1> QED
    BY <1>0, <1>1, <1>2, <1>3, <1>4, <1>5, <1>6

LEMMA ContentDir ==
    ASSUME BaseInv, NEW log, ContentInv(log), ExtractDir
    PROVE  ContentInv(log)'
  <1>0. /\ pc \in Reading /\ UNCHANGED <<entries, frames, opened, copied>>
        /\ LogInv(log)' /\ FramesInv(log)' /\ PathsInv' /\ WriteInv(log)'
        /\ \A j : Got(j)' = Got(j)
        /\ Len(entries) \in Nat /\ DOMAIN entries = 1..Len(entries)
        /\ idx \in 1..(Len(entries) + 1) /\ pos \in Nat /\ seq \in Nat
        /\ Len(log) \in Nat /\ seq <= Len(log) /\ After(log, seq, idx, pos)
    BY ContentReading DEF Extract
  <1>1. /\ pc = "extract" /\ pc' = "extract" /\ idx <= Len(entries) /\ entries[idx].is_dir
        /\ restored' = [restored EXCEPT !.dirs = @ \cup {entries[idx].path}]
        /\ idx' = idx + 1 /\ pos' = 0 /\ seq' = seq /\ pos = 0
    BY DEF ExtractDir, NextEntry, Cur, BaseInv, PlaceInv
  <1>2. idx \in 1..Len(entries) /\ seq \in 0..Len(log)
    BY <1>0, <1>1
  <1>3. After(log, seq, idx, pos)'
    <2>1. After(log, seq, idx + 1, 0)
      BY <1>0, <1>1, <1>2, AfterNext DEF ContentInv
    <2> QED
      BY <1>0, <1>1, <2>1 DEF After, EndOf, NoChunks
  <1>4. /\ restored = [dirs |-> restored.dirs, files |-> restored.files]
        /\ restored.dirs = {entries[j].path : j \in {i \in DOMAIN entries : i < idx /\ entries[i].is_dir}}
        /\ restored.files \in
             [{entries[j].path : j \in {i \in DOMAIN entries :
                 ~entries[i].is_dir /\ (i < idx \/ (i = idx /\ pc = "chunk"))}} -> Seq(Byte)]
        /\ \A j \in DOMAIN entries : j < idx /\ ~entries[j].is_dir =>
              /\ Got(j) = entries[j].size
              /\ restored.files[entries[j].path] = Held(opened, copied.files[entries[j].path])
    BY <1>0 DEF ContentInv, ReadInv, ReadDirs, ReadFiles, ReadBytes
  <1>5. /\ restored' = [dirs |-> restored'.dirs, files |-> restored'.files]
        /\ restored'.dirs = restored.dirs \cup {entries[idx].path}
        /\ restored'.files = restored.files
    BY <1>1, <1>4
  <1>6. {i \in DOMAIN entries : i < idx + 1 /\ entries[i].is_dir}
          = {i \in DOMAIN entries : i < idx /\ entries[i].is_dir} \cup {idx}
    BY <1>0, <1>1, <1>2
  <1>7. restored'.dirs = {entries[j].path : j \in {i \in DOMAIN entries : i < idx + 1 /\ entries[i].is_dir}}
    BY <1>4, <1>5, <1>6
  <1>8. {i \in DOMAIN entries : ~entries[i].is_dir /\ (i < idx + 1 \/ (i = idx + 1 /\ pc' = "chunk"))}
          = {i \in DOMAIN entries : ~entries[i].is_dir /\ (i < idx \/ (i = idx /\ pc = "chunk"))}
    BY <1>0, <1>1
  <1>9. \A j \in DOMAIN entries : j < idx + 1 /\ ~entries[j].is_dir => j < idx
    BY <1>0, <1>1
  <1>10. ReadInv(log)'
    <2>1. ReadAt(log)'
      BY <1>0, <1>1, <1>3 DEF ReadAt
    <2>2. ReadDirs'
      BY <1>0, <1>1, <1>5, <1>7 DEF ReadDirs
    <2>3. ReadFiles'
      <3>1. restored'.files \in [{entries[j].path : j \in {i \in DOMAIN entries :
               ~entries[i].is_dir /\ (i < idx + 1 \/ (i = idx + 1 /\ pc' = "chunk"))}} -> Seq(Byte)]
        BY <1>4, <1>5, <1>8
      <3> QED
        BY <1>0, <1>1, <3>1 DEF ReadFiles
    <2>4. ReadBytes'
      BY <1>0, <1>1, <1>4, <1>5, <1>9 DEF ReadBytes, Held
    <2> QED
      BY <1>1, <2>1, <2>2, <2>3, <2>4 DEF ReadInv, Reading
  <1> QED
    BY <1>0, <1>10 DEF ContentInv

LEMMA ContentFile ==
    ASSUME BaseInv, NEW log, ContentInv(log), ExtractFile
    PROVE  ContentInv(log)'
  <1>0. /\ pc \in Reading /\ pc \in Live /\ UNCHANGED <<entries, frames, opened, copied>>
        /\ LogInv(log)' /\ FramesInv(log)' /\ PathsInv' /\ WriteInv(log)'
        /\ \A j : Got(j)' = Got(j)
        /\ Len(entries) \in Nat /\ DOMAIN entries = 1..Len(entries)
        /\ idx \in 1..(Len(entries) + 1) /\ pos \in Nat /\ seq \in Nat
        /\ Len(log) \in Nat /\ seq <= Len(log) /\ After(log, seq, idx, pos)
    BY ContentReading DEF Extract
  <1> DEFINE path == entries[idx].path
             Before == {i \in DOMAIN entries : ~entries[i].is_dir /\ i < idx}
  <1>1. /\ pc = "extract" /\ pc' = "chunk" /\ idx <= Len(entries) /\ ~entries[idx].is_dir
        /\ restored' = [restored EXCEPT !.files =
             [q \in DOMAIN @ \cup {path} |-> IF q = path THEN <<>> ELSE @[q]]]
        /\ UNCHANGED <<idx, pos, seq>> /\ pos = 0
    BY DEF ExtractFile, Cur, BaseInv, PlaceInv
  <1>2. idx \in 1..Len(entries)
    BY <1>0, <1>1
  <1>3. After(log, seq, idx, pos)'
    BY <1>0, <1>1 DEF After, EndOf, NoChunks
  <1>4. /\ restored = [dirs |-> restored.dirs, files |-> restored.files]
        /\ restored.dirs = {entries[j].path : j \in {i \in DOMAIN entries : i < idx /\ entries[i].is_dir}}
        /\ restored.files \in [{entries[j].path : j \in {i \in DOMAIN entries :
                 ~entries[i].is_dir /\ (i < idx \/ (i = idx /\ pc = "chunk"))}} -> Seq(Byte)]
        /\ \A j \in DOMAIN entries : j < idx /\ ~entries[j].is_dir =>
              /\ Got(j) = entries[j].size
              /\ restored.files[entries[j].path] = Held(opened, copied.files[entries[j].path])
    BY <1>0 DEF ContentInv, ReadInv, ReadDirs, ReadFiles, ReadBytes
  <1>5. /\ {i \in DOMAIN entries : ~entries[i].is_dir /\ (i < idx \/ (i = idx /\ pc = "chunk"))}
             = Before
        /\ {i \in DOMAIN entries : ~entries[i].is_dir /\ (i < idx \/ (i = idx /\ pc' = "chunk"))}
             = Before \cup {idx}
    BY <1>0, <1>1, <1>2
  <1>6. restored.files \in [{entries[j].path : j \in Before} -> Seq(Byte)]
    BY <1>4, <1>5
  <1> HIDE DEF path
  <1>7. /\ restored' = [dirs |-> restored'.dirs, files |-> restored'.files]
        /\ restored'.dirs = restored.dirs
        /\ restored'.files = [q \in {entries[j].path : j \in Before} \cup {path} |->
                                IF q = path THEN <<>> ELSE restored.files[q]]
    <2> HIDE DEF Before
    <2> QED
      BY <1>1, <1>4, <1>6
  <1>8. restored'.files \in [{entries[j].path : j \in Before \cup {idx}} -> Seq(Byte)]
    <2>1. {entries[j].path : j \in Before \cup {idx}} = {entries[j].path : j \in Before} \cup {path}
      BY DEF path
    <2>2. <<>> \in Seq(Byte)
      BY EmptySeq
    <2> HIDE DEF Before
    <2> QED
      BY <1>6, <1>7, <2>1, <2>2
  <1>9. ASSUME NEW j \in DOMAIN entries, j < idx, ~entries[j].is_dir
        PROVE  restored'.files[entries[j].path] = restored.files[entries[j].path]
    <2>1. entries[j].path # path
      BY <1>0, <1>1, <1>2, <1>9 DEF ContentInv, PathsInv, path
    <2>2. j \in Before
      BY <1>9
    <2> HIDE DEF Before
    <2> QED
      BY <1>7, <2>1, <2>2
  <1>10. restored'.files[path] = <<>>
    BY <1>7
  <1>11. Held(opened, SubSeq(copied.files[path], 1, 0)) = <<>>
    <2>1. SubSeq(copied.files[path], 1, 0) = <<>>
      BY SubSeqEmpty
    <2>2. OtherBytes(<<>>) = <<>>
      BY EmptySeq DEF OtherBytes
    <2> QED
      BY <2>1, <2>2 DEF Held
  <1>12. 0 <= Got(idx)
    BY <1>0, <1>1, <1>2, GotFacts
  <1>13. ReadInv(log)'
    <2>1. restored'.files \in [{entries[j].path : j \in {i \in DOMAIN entries :
             ~entries[i].is_dir /\ (i < idx \/ (i = idx /\ pc' = "chunk"))}} -> Seq(Byte)]
      BY <1>5, <1>8
    <2>2. Cur' = entries[idx] /\ pc' \in Reading
      BY <1>0, <1>1 DEF Cur, Reading
    <2>3. restored'.files[Cur'.path] = Held(opened, SubSeq(copied.files[path], 1, 0))
      BY <1>10, <1>11, <2>2 DEF path
    <2> HIDE DEF Before
    <2> QED
      <3>1. ReadAt(log)'
        BY <1>0, <1>1, <1>3 DEF ReadAt
      <3>2. ReadDirs'
        BY <1>0, <1>1, <1>4, <1>7 DEF ReadDirs
      <3>3. ReadFiles'
        BY <1>0, <1>1, <2>1 DEF ReadFiles
      <3>4. ReadBytes'
        BY <1>0, <1>1, <1>4, <1>9 DEF ReadBytes, Held
      <3>5. ReadPart'
        BY <1>0, <1>1, <1>12, <2>2, <2>3 DEF ReadPart, Held, path
      <3> QED
        BY <1>1, <3>1, <3>2, <3>3, <3>4, <3>5 DEF ReadInv, Reading
  <1> QED
    BY <1>0, <1>13 DEF ContentInv

LEMMA HeldConcat ==
    ASSUME NEW dk, NEW s \in Seq(Byte), NEW t \in Seq(Byte)
    PROVE  /\ Held(dk, s) \in Seq(Byte)
           /\ Held(dk, s) \o Held(dk, t) = Held(dk, s \o t)
  <1>1. OtherBytes(s) \in Seq(Byte) /\ OtherBytes(t) \in Seq(Byte)
        /\ Len(OtherBytes(s)) = Len(s) /\ Len(OtherBytes(t)) = Len(t)
    BY OtherBytesTypes
  <1>2. s \o t \in Seq(Byte) /\ Len(s \o t) = Len(s) + Len(t)
    BY ConcatProperties
  <1>3. OtherBytes(s \o t) \in Seq(Byte) /\ Len(OtherBytes(s \o t)) = Len(s) + Len(t)
    BY <1>2, OtherBytesTypes
  <1>4. /\ OtherBytes(s) \o OtherBytes(t) \in Seq(Byte)
        /\ Len(OtherBytes(s) \o OtherBytes(t)) = Len(s) + Len(t)
        /\ \A i \in 1..(Len(s) + Len(t)) : (OtherBytes(s) \o OtherBytes(t))[i] =
             IF i <= Len(s) THEN OtherBytes(s)[i] ELSE OtherBytes(t)[i - Len(s)]
    BY <1>1, ConcatProperties, SMTT(30)
  <1>5. \A i \in 1..(Len(s) + Len(t)) : (OtherBytes(s) \o OtherBytes(t))[i] = OtherBytes(s \o t)[i]
    <2> SUFFICES ASSUME NEW i \in 1..(Len(s) + Len(t))
                 PROVE  (OtherBytes(s) \o OtherBytes(t))[i] = OtherBytes(s \o t)[i]
      OBVIOUS
    <2>1. OtherBytes(s \o t)[i] = 255
      BY <1>2 DEF OtherBytes
    <2>2. CASE i <= Len(s)
      <3>1. i \in 1..Len(s)
        BY <2>2
      <3>2. OtherBytes(s)[i] = 255
        BY <3>1 DEF OtherBytes
      <3> QED
        BY <1>4, <2>1, <2>2, <3>2
    <2>3. CASE ~(i <= Len(s))
      <3>1. i - Len(s) \in 1..Len(t)
        BY <2>3
      <3>2. OtherBytes(t)[i - Len(s)] = 255
        BY <3>1 DEF OtherBytes
      <3> QED
        BY <1>4, <2>1, <2>3, <3>2
    <2> QED
      BY <2>2, <2>3
  <1>6. OtherBytes(s) \o OtherBytes(t) = OtherBytes(s \o t)
    BY <1>3, <1>4, <1>5, SeqEqual
  <1> QED
    BY <1>1, <1>6 DEF Held

(* A frame that opens is the chunk that belongs here. *)
LEMMA OpenedFrame ==
    ASSUME BaseInv, NEW log, ContentInv(log), pc = "chunk", pos < Cur.size, FrameOpens
    PROVE  /\ seq + 1 \in 1..Len(log)
           /\ log[seq + 1].entry = idx /\ log[seq + 1].at = pos
           /\ frames[seq + 2].plain = Held(opened, Chunk(log[seq + 1]))
  <1>1. pc \in Live /\ pc \in Reading
    BY DEF Live, Early, Labels, Reading
  <1>2. /\ seq \in Nat /\ pos \in Nat /\ idx \in 1..Len(entries) /\ ~entries[idx].is_dir
    <2>1. Len(entries) \in Nat
      BY EntryFacts DEF BaseInv
    <2> QED
      BY <2>1 DEF BaseInv, TypeOK, PlaceInv, Cur
  <1> DEFINE f == frames[seq + 2]
  <1>3. /\ seq + 2 \in DOMAIN frames /\ f.dk = opened /\ f.aad = <<header.uuid, seq>>
    <2>1. frames \in Seq(FrameT)
      BY DEF BaseInv, ManifestInv
    <2> QED
      BY <1>2, <2>1 DEF FrameOpens, read_frame, open_in_place
  <1>4. Genuine(log, f)
    BY <1>1, <1>3 DEF ContentInv, FramesInv
  <1>5. f.aad[2] = seq /\ f.aad[2] # MANIFEST_SEQ
    BY <1>2, <1>3 DEF MANIFEST_SEQ
  <1>6. PICK m \in 1..Len(log) : seq = m - 1 /\ f.plain = Held(opened, Chunk(log[m]))
    BY <1>3, <1>4, <1>5 DEF Genuine
  <1>7. Len(log) \in Nat
    BY LenProperties DEF ContentInv, LogInv
  <1>8. m = seq + 1 /\ seq \in 0..Len(log)
    BY <1>2, <1>6, <1>7
  <1>9. /\ log[m].entry \in 1..Len(entries) /\ ~entries[log[m].entry].is_dir
        /\ log[m].at < entries[log[m].entry].size /\ log[m].at \in Nat
        /\ After(log, m - 1, log[m].entry, log[m].at)
    BY <1>6, LogFacts DEF ContentInv, LogInv
  <1>10. After(log, seq, idx, pos)
    BY <1>1 DEF ContentInv, ReadInv, ReadAt
  <1>11. log[m].entry = idx /\ log[m].at = pos
    <2>1. After(log, seq, log[m].entry, log[m].at)
      BY <1>6, <1>9
    <2>2. pos < entries[idx].size
      BY DEF Cur
    <2>3. LogInv(log)
      BY DEF ContentInv
    <2> QED
      BY <1>2, <1>8, <1>9, <1>10, <2>1, <2>2, <2>3, AfterUnique
  <1> QED
    BY <1>6, <1>8, <1>11

LEMMA ContentChunk ==
    ASSUME BaseInv, NEW log, ContentInv(log), ExtractChunk
    PROVE  ContentInv(log)'
  <1>0. /\ pc \in Reading /\ pc \in Live /\ UNCHANGED <<entries, frames, opened, copied>>
        /\ LogInv(log)' /\ FramesInv(log)' /\ PathsInv' /\ WriteInv(log)'
        /\ \A j : Got(j)' = Got(j)
        /\ Len(entries) \in Nat /\ DOMAIN entries = 1..Len(entries)
        /\ idx \in 1..(Len(entries) + 1) /\ pos \in Nat /\ seq \in Nat
        /\ Len(log) \in Nat
    BY ContentReading DEF Extract
  <1> DEFINE path == entries[idx].path
             n == NextChunk(entries[idx].size - pos)
             file == copied.files[path]
             plain == frames[seq + 2].plain
  <1>1. /\ pc = "chunk" /\ pc' = "chunk" /\ idx <= Len(entries) /\ ~entries[idx].is_dir
        /\ pos < entries[idx].size
        /\ restored' = [restored EXCEPT !.files[path] = @ \o plain]
        /\ seq' = seq + 1 /\ pos' = pos + n /\ idx' = idx
    BY DEF ExtractChunk, Cur, BaseInv, PlaceInv
  <1>2. idx \in 1..Len(entries)
    BY <1>0, <1>1
  <1>3. /\ seq + 1 \in 1..Len(log)
        /\ log[seq + 1].entry = idx /\ log[seq + 1].at = pos
        /\ plain = Held(opened, Chunk(log[seq + 1]))
    BY OpenedFrame DEF ExtractChunk
  <1>4. /\ EndOf(log[seq + 1]) = pos + n
        /\ FileOf(log[seq + 1]) = file
        /\ Chunk(log[seq + 1]) = SubSeq(file, pos + 1, pos + n)
    BY <1>3 DEF EndOf, FileOf, Chunk
  <1>5. /\ pos + n \in Nat /\ pos < pos + n /\ file \in Seq(Byte)
    <2> HIDE DEF n, file
    <2> QED
      BY <1>0, <1>3, <1>4, LogFacts DEF ContentInv
  <1>6. pos + n <= Len(file)
    <2> HIDE DEF n, file
    <2> QED
      BY <1>0, <1>3, <1>4 DEF ContentInv, LogInv
  <1>7. Got(idx) = Len(file) /\ Got(idx)' = Len(file)
    BY <1>0, <1>1 DEF Got
  <1> HIDE DEF n, file, path
  <1>8. /\ SubSeq(file, 1, pos) \in Seq(Byte)
        /\ SubSeq(file, pos + 1, pos + n) \in Seq(Byte)
        /\ SubSeq(file, 1, pos) \o SubSeq(file, pos + 1, pos + n) = SubSeq(file, 1, pos + n)
    <2>1. Len(file) \in Nat /\ \A k \in 1..Len(file) : file[k] \in Byte
      BY <1>5
    <2>2. SubSeq(file, 1, pos) \in Seq(Byte)
      <3>1. \A k \in 1..pos : file[k] \in Byte
        BY <1>0, <1>5, <1>6, <2>1
      <3> QED
        BY <1>0, <3>1, SubSeqProperties
    <2>3. SubSeq(file, pos + 1, pos + n) \in Seq(Byte)
      <3>1. \A k \in (pos + 1)..(pos + n) : file[k] \in Byte
        BY <1>0, <1>5, <1>6, <2>1
      <3>2. pos + 1 \in Int /\ pos + n \in Int
        BY <1>0, <1>5
      <3> QED
        BY <3>1, <3>2, SubSeqProperties
    <2>4. SubSeq(file, 1, pos) \o SubSeq(file, pos + 1, pos + n) = SubSeq(file, 1, pos + n)
      <3>1. /\ 1 \in 1..(Len(file) + 1) /\ pos \in (1 - 1)..Len(file)
            /\ pos + n \in pos..Len(file)
        BY <1>0, <1>5, <1>6, <2>1
      <3> QED
        BY <1>5, <3>1, ConcatAdjacentSubSeq
    <2> QED
      BY <2>2, <2>3, <2>4
  <1>9. /\ restored = [dirs |-> restored.dirs, files |-> restored.files]
        /\ restored.dirs = {entries[j].path : j \in {i \in DOMAIN entries : i < idx /\ entries[i].is_dir}}
        /\ restored.files \in [{entries[j].path : j \in {i \in DOMAIN entries :
                 ~entries[i].is_dir /\ (i < idx \/ (i = idx /\ pc = "chunk"))}} -> Seq(Byte)]
        /\ ReadBytes /\ restored.files[path] = Held(opened, SubSeq(file, 1, pos))
    BY <1>0, <1>1 DEF ContentInv, ReadInv, ReadDirs, ReadFiles, ReadPart, Cur, file, path
  <1> DEFINE Made == {entries[j].path : j \in {i \in DOMAIN entries :
                       ~entries[i].is_dir /\ (i < idx \/ (i = idx /\ pc = "chunk"))}}
  <1>10. path \in Made
    BY <1>0, <1>1, <1>2 DEF path
  <1>11. /\ restored.files[path] \o plain = Held(opened, SubSeq(file, 1, pos + n))
         /\ Held(opened, SubSeq(file, 1, pos + n)) \in Seq(Byte)
    <2>1. SubSeq(file, 1, pos + n) \in Seq(Byte)
      BY <1>8, ConcatProperties
    <2> HIDE DEF plain
    <2>2. plain = Held(opened, SubSeq(file, pos + 1, pos + n))
      BY <1>3, <1>4
    <2> QED
      <3>1. Held(opened, SubSeq(file, 1, pos + n)) \in Seq(Byte)
        BY <2>1, HeldConcat
      <3>2. Held(opened, SubSeq(file, 1, pos)) \o Held(opened, SubSeq(file, pos + 1, pos + n))
              = Held(opened, SubSeq(file, 1, pos) \o SubSeq(file, pos + 1, pos + n))
        BY <1>8, HeldConcat
      <3> QED
        BY <1>8, <1>9, <2>2, <3>1, <3>2
  <1> HIDE DEF plain
  <1>12. /\ restored' = [dirs |-> restored'.dirs, files |-> restored'.files]
         /\ restored'.dirs = restored.dirs
         /\ restored'.files = [restored.files EXCEPT ![path] = @ \o plain]
    BY <1>1, <1>9
  <1>13. /\ restored'.files \in [Made -> Seq(Byte)]
         /\ restored'.files[path] = Held(opened, SubSeq(file, 1, pos + n))
         /\ \A q \in Made : q # path => restored'.files[q] = restored.files[q]
    <2>1. restored.files \in [Made -> Seq(Byte)]
      BY <1>9
    <2> HIDE DEF Made
    <2> QED
      BY <1>10, <1>11, <1>12, <2>1
  <1>14. ReadAt(log)'
    <2>1. /\ log[seq'].entry = idx /\ EndOf(log[seq']) = pos + n /\ seq' # 0
          /\ seq' <= Len(log)
      BY <1>0, <1>1, <1>3, <1>4
    <2> QED
      BY <1>0, <1>1, <2>1 DEF ReadAt, After, EndOf
  <1>15. ReadDirs'
    BY <1>0, <1>1, <1>9, <1>12 DEF ReadDirs
  <1>16. ReadFiles'
    BY <1>0, <1>1, <1>13 DEF ReadFiles
  <1>17. ReadBytes'
    <2>1. ASSUME NEW j \in DOMAIN entries, j < idx, ~entries[j].is_dir
          PROVE  restored'.files[entries[j].path] = restored.files[entries[j].path]
      <3>1. entries[j].path # path
        BY <1>0, <1>1, <1>2, <2>1 DEF ContentInv, PathsInv, path
      <3>2. entries[j].path \in Made
        BY <2>1
      <3> QED
        BY <1>13, <3>1, <3>2
    <2> QED
      BY <1>0, <1>1, <1>9, <2>1 DEF ReadBytes, Held
  <1>18. ReadPart'
    <2>1. Cur' = entries[idx] /\ Got(idx)' = Len(file) /\ idx' = idx
      BY <1>0, <1>1, <1>7 DEF Cur
    <2> QED
      BY <1>0, <1>1, <1>6, <1>7, <1>13, <2>1 DEF ReadPart, Held, path, file, Got
  <1> QED
    BY <1>0, <1>1, <1>14, <1>15, <1>16, <1>17, <1>18 DEF ContentInv, ReadInv, Reading

LEMMA ContentFileEnd ==
    ASSUME BaseInv, NEW log, ContentInv(log), ExtractedFile
    PROVE  ContentInv(log)'
  <1>0. /\ pc \in Reading /\ pc \in Live /\ UNCHANGED <<entries, frames, opened, copied>>
        /\ LogInv(log)' /\ FramesInv(log)' /\ PathsInv' /\ WriteInv(log)'
        /\ \A j : Got(j)' = Got(j)
        /\ Len(entries) \in Nat /\ DOMAIN entries = 1..Len(entries)
        /\ \A j \in DOMAIN entries : entries[j].size \in Nat
        /\ idx \in 1..(Len(entries) + 1) /\ pos \in Nat /\ seq \in Nat
        /\ Len(log) \in Nat /\ seq <= Len(log) /\ After(log, seq, idx, pos)
    BY ContentReading DEF Extract
  <1>1. /\ pc = "chunk" /\ pc' = "extract" /\ idx <= Len(entries) /\ ~entries[idx].is_dir
        /\ pos = entries[idx].size
        /\ idx' = idx + 1 /\ pos' = 0 /\ UNCHANGED <<seq, restored>>
    BY DEF ExtractedFile, NextEntry, Cur, BaseInv, PlaceInv
  <1>2. idx \in 1..Len(entries) /\ seq \in 0..Len(log)
    BY <1>0, <1>1
  <1>3. ReadAt(log)'
    <2>1. After(log, seq, idx + 1, 0)
      BY <1>0, <1>1, <1>2, AfterNext DEF ContentInv
    <2> QED
      BY <1>0, <1>1, <2>1 DEF ReadAt, After, EndOf, NoChunks
  <1>4. ReadDirs /\ ReadFiles /\ ReadBytes /\ ReadPart
    BY <1>0, <1>1 DEF ContentInv, ReadInv
  <1>5. ReadDirs'
    <2>1. {i \in DOMAIN entries : i < idx + 1 /\ entries[i].is_dir}
            = {i \in DOMAIN entries : i < idx /\ entries[i].is_dir}
      BY <1>0, <1>1, <1>2
    <2> QED
      BY <1>0, <1>1, <1>4, <2>1 DEF ReadDirs
  <1>6. ReadFiles'
    <2>1. {i \in DOMAIN entries : ~entries[i].is_dir /\ (i < idx + 1 \/ (i = idx + 1 /\ pc' = "chunk"))}
            = {i \in DOMAIN entries : ~entries[i].is_dir /\ (i < idx \/ (i = idx /\ pc = "chunk"))}
      BY <1>0, <1>1, <1>2
    <2>2. restored'.files \in [{entries[j].path : j \in {i \in DOMAIN entries :
             ~entries[i].is_dir /\ (i < idx + 1 \/ (i = idx + 1 /\ pc' = "chunk"))}} -> Seq(Byte)]
      BY <1>1, <1>4, <2>1 DEF ReadFiles
    <2> QED
      BY <1>0, <1>1, <2>2 DEF ReadFiles
  <1>7. /\ Got(idx) = entries[idx].size
        /\ restored.files[entries[idx].path] = Held(opened, copied.files[entries[idx].path])
    <2>1. copied.files[entries[idx].path] \in Seq(Byte) /\ Got(idx) \in Nat
      BY <1>0, <1>1, <1>2, GotFacts
    <2>2. Got(idx) <= entries[idx].size
      BY <1>0, <1>1, <1>2 DEF ContentInv, WriteInv
    <2>3. pos <= Got(idx)
      BY <1>4 DEF ReadPart
    <2>4. pos = Got(idx) /\ entries[idx].size \in Nat
      BY <1>0, <1>1, <1>2, <2>1, <2>2, <2>3
    <2>5. SubSeq(copied.files[entries[idx].path], 1, pos) = copied.files[entries[idx].path]
      BY <2>1, <2>4, SubSeqFull DEF Got
    <2> QED
      BY <1>1, <1>4, <2>4, <2>5 DEF ReadPart, Cur
  <1>8. ReadBytes'
    <2>1. \A j \in DOMAIN entries : j < idx + 1 => j < idx \/ j = idx
      BY <1>0
    <2> QED
      BY <1>0, <1>1, <1>4, <1>7, <2>1 DEF ReadBytes, Held
  <1> QED
    BY <1>0, <1>1, <1>3, <1>5, <1>6, <1>8 DEF ContentInv, ReadInv, Reading

LEMMA ContentEnd ==
    ASSUME BaseInv, NEW log, ContentInv(log), ExtractRefuses \/ Extracted
    PROVE  ContentInv(log)'
  <1>0. /\ pc \in Reading /\ UNCHANGED <<entries, frames, opened, copied>>
        /\ LogInv(log)' /\ FramesInv(log)' /\ PathsInv' /\ WriteInv(log)'
    BY ContentReading DEF Extract
  <1>1. UNCHANGED <<idx, pos, seq, restored>>
    BY DEF ExtractRefuses, Extracted
  <1>2. CASE ExtractRefuses
    BY <1>0, <1>2 DEF ExtractRefuses, ContentInv, ReadInv, Reading
  <1>3. CASE Extracted
    <2>1. pc = "extract" /\ pc' = "restored"
      BY <1>3 DEF Extracted
    <2>2. ReadAt(log) /\ ReadDirs /\ ReadFiles /\ ReadBytes
      BY <1>0 DEF ContentInv, ReadInv
    <2>3. ReadAt(log)' /\ ReadDirs' /\ ReadBytes'
      BY <1>0, <1>1, <2>2 DEF ReadAt, After, EndOf, NoChunks, ReadDirs, ReadBytes, Got, Held
    <2>4. ReadFiles'
      BY <1>0, <1>1, <2>1, <2>2 DEF ReadFiles
    <2> QED
      BY <1>0, <2>1, <2>3, <2>4 DEF ContentInv, ReadInv, Reading
  <1> QED
    BY <1>2, <1>3

LEMMA ContentStutter ==
    ASSUME NEW log, ContentInv(log), UNCHANGED vars
    PROVE  ContentInv(log)'
  <1>1. UNCHANGED <<entries, frames, pc, idx, pos, seq, opened, copied, restored>>
    BY DEF vars, container
  <1>2. LogInv(log)' /\ FramesInv(log)' /\ PathsInv'
    BY <1>1, LogSame, FramesSame, PathsSame DEF ContentInv
  <1>3. WriteInv(log)' /\ ReadInv(log)'
    BY <1>1 DEF ContentInv, WriteInv, ReadInv, ReadAt, ReadDirs, ReadFiles, ReadBytes,
                ReadPart, Got, After, EndOf, NoChunks, Held, Cur
  <1> QED
    BY <1>2, <1>3 DEF ContentInv

LEMMA ContentStep ==
    ASSUME DistinctPaths, BaseInv, NEW log, ContentInv(log), [Next]_vars
    PROVE  \E log2 : ContentInv(log2)'
  <1>1. CASE Write
    BY <1>1, ContentScan, ContentCreate, ContentWalk, ContentCopy DEF Write
  <1>2. CASE Read
    BY <1>2, ContentOpen, ContentDir, ContentFile, ContentChunk, ContentFileEnd, ContentEnd DEF Read
  <1>3. CASE EditFile \/ RemoveFile \/ Damage
    BY <1>3, ContentEdit, ContentDamage
  <1>4. CASE UNCHANGED vars
    BY <1>4, ContentStutter
  <1> QED
    BY <1>1, <1>2, <1>3, <1>4 DEF Next

(* What holds of folders without colliding paths: some log explains it. *)
Explained == \E log : ContentInv(log)

LEMMA ExplainedStep ==
    ASSUME DistinctPaths
    PROVE  BaseInv /\ Explained /\ [Next]_vars => Explained'
  <1> SUFFICES ASSUME BaseInv, Explained, [Next]_vars PROVE Explained'
    OBVIOUS
  <1>1. PICK log : ContentInv(log)
    BY DEF Explained
  <1>2. \E log2 : ContentInv(log2)'
    BY <1>1, ContentStep
  <1> QED
    BY <1>2 DEF Explained

LEMMA ExplainedInvariant ==
    ASSUME DistinctPaths
    PROVE  Spec => []Explained
  <1>1. Init => Explained
    BY ContentInit DEF Explained
  <1>2. BaseInv /\ Explained /\ [Next]_vars => Explained'
    BY ExplainedStep
  <1> QED
    BY <1>1, <1>2, BaseInvariant, PTL DEF Spec

-----------------------------------------------------------------------------
(* Theorems for folders without colliding paths *)

LEMMA RestoredIsLocked == BaseInv /\ Explained => ExtractExact
  <1> SUFFICES ASSUME BaseInv, Explained, pc = "restored"
               PROVE  restored = LockedIn(opened)
    BY DEF ExtractExact
  <1>1. PICK log : ContentInv(log)
    BY DEF Explained
  <1>2. ReadDirs /\ ReadFiles /\ ReadBytes /\ pc \in Live
    BY <1>1 DEF ContentInv, ReadInv, Live, Early, Labels, Ended
  <1>3. Len(entries) \in Nat /\ DOMAIN entries = 1..Len(entries)
    BY EntryFacts DEF BaseInv
  <1>4. \A i \in DOMAIN entries : i < idx
    BY <1>3 DEF BaseInv, PlaceInv, TypeOK
  <1>5. copied \in [dirs : {Dirs(entries)}, files : [Files(entries) -> Seq(Byte)]]
    BY <1>2 DEF BaseInv, CopiedInv
  <1>6. restored.dirs = Dirs(entries)
    BY <1>2, <1>4 DEF ReadDirs, Dirs
  <1>7. restored.files \in [Files(entries) -> Seq(Byte)]
    BY <1>2, <1>4 DEF ReadFiles, Files
  <1>8. \A q \in Files(entries) : restored.files[q] = Held(opened, copied.files[q])
    BY <1>2, <1>4 DEF ReadBytes, Files
  <1>9. restored = [dirs |-> restored.dirs, files |-> restored.files]
    BY <1>2 DEF ReadDirs
  <1>10. CASE opened = This
    <2>1. restored.files = copied.files
      BY <1>5, <1>7, <1>8, <1>10 DEF Held
    <2> QED
      BY <1>5, <1>6, <1>9, <1>10, <2>1 DEF LockedIn
  <1>11. CASE opened # This
    <2>1. restored.files = [q \in Files(entries) |-> OtherBytes(copied.files[q])]
      BY <1>7, <1>8, <1>11 DEF Held
    <2>2. DOMAIN copied.files = Files(entries)
      BY <1>5
    <2>3. LockedIn(opened) = [dirs |-> copied.dirs,
                              files |-> [q \in Files(entries) |-> OtherBytes(copied.files[q])]]
      BY <1>5, <1>11, <2>2 DEF LockedIn
    <2> QED
      BY <1>5, <1>6, <1>9, <2>1, <2>3
  <1> QED
    BY <1>10, <1>11

(* Whatever was done to the container, and however often, an unlock that   *)
(* succeeds creates exactly what the lock recorded under the data key it   *)
(* opened: extract_entries and open_in_place refuse everything else.       *)
THEOREM UnlockIsExact ==
    ASSUME DistinctPaths
    PROVE  Spec => []ExtractExact
  <1>1. BaseInv /\ Explained => ExtractExact
    BY RestoredIsLocked
  <1> QED
    BY <1>1, BaseInvariant, ExplainedInvariant, PTL

-----------------------------------------------------------------------------
(* What locks can be unlocked *)

LEMMA ChunkFacts ==
    ASSUME BaseInv, pc \in Live, NEW log, LogInv(log), NEW m \in 1..Len(log)
    PROVE  /\ Chunk(log[m]) \in Seq(Byte)
           /\ Len(Chunk(log[m])) = NextChunk(entries[log[m].entry].size - log[m].at)
           /\ Len(Chunk(log[m])) <= CHUNK_SIZE
  <1>1. /\ log[m].at \in Nat /\ EndOf(log[m]) \in Nat /\ log[m].at < EndOf(log[m])
        /\ EndOf(log[m]) - log[m].at <= CHUNK_SIZE /\ FileOf(log[m]) \in Seq(Byte)
    BY LogFacts
  <1>2. EndOf(log[m]) <= Len(FileOf(log[m]))
    BY DEF LogInv
  <1>3. /\ log[m].at + 1 \in Int /\ log[m].at + 1 <= EndOf(log[m])
        /\ \A k \in (log[m].at + 1)..EndOf(log[m]) : FileOf(log[m])[k] \in Byte
    BY <1>1, <1>2
  <1>4. /\ Chunk(log[m]) \in Seq(Byte)
        /\ Len(Chunk(log[m])) = EndOf(log[m]) - (log[m].at + 1) + 1
    BY <1>1, <1>3, SubSeqProperties DEF Chunk
  <1>5. entries[log[m].entry].size - log[m].at \in Nat
    <2>1. log[m].entry \in 1..Len(entries) /\ log[m].at < entries[log[m].entry].size
      BY DEF LogInv
    <2> QED
      BY <1>1, <2>1, EntryFacts DEF BaseInv
  <1>6. NextChunk(entries[log[m].entry].size - log[m].at) \in Nat
    BY <1>5, NextChunkBounds
  <1>7. EndOf(log[m]) - (log[m].at + 1) + 1 = NextChunk(entries[log[m].entry].size - log[m].at)
    BY <1>1, <1>6 DEF EndOf
  <1> QED
    BY <1>1, <1>4, <1>7

LEMMA CleanSame ==
    ASSUME NEW log, Clean(log), UNCHANGED <<entries, header, frames, copied>>
    PROVE  Clean(log)'
  BY DEF Clean, CleanHeader, Chunk, EndOf, FileOf, seal_to

LEMMA OpensScan ==
    ASSUME SafeDirs, BaseInv, NEW log, OpensInv(log), Scan
    PROVE  OpensInv(log)'
  <1>1. tree \in Trees /\ pc = "scan" /\ pc' \in {"create", "failed"}
        /\ UNCHANGED <<damage, opened>>
    BY DEF BaseInv, PlaceInv, Scan, budget
  <1>2. PICK order : Lists(order, tree) /\ entries' = Recorded(order)
    BY <1>1, ScanLists
  <1>3. /\ order \in Seq(DOMAIN tree)
        /\ \A i \in 1..Len(order) : tree[order[i]].kind # "link"
        /\ \A q \in DOMAIN tree : tree[q].kind # "link" => \E i \in 1..Len(order) : order[i] = q
    BY <1>2 DEF Lists
  <1>4. /\ Len(entries') = Len(order) /\ entries' \in Seq(EntryT) /\ Len(order) \in Nat
        /\ \A i \in 1..Len(order) : entries'[i] = Entry(order[i])
    BY <1>2, <1>3, RecordedTypes, LenProperties DEF BaseInv
  <1>5. DOMAIN entries' = 1..Len(order)
    BY <1>4
  <1>6. ASSUME NEW i \in 1..Len(order)
        PROVE  /\ order[i] \in DOMAIN tree
               /\ entries'[i].path = rel_path(order[i])
               /\ entries'[i].is_dir <=> tree[order[i]].kind = "dir"
    BY <1>3, <1>4, ElementOfSeq, EntryTypes DEF BaseInv
  <1>7. ASSUME SafeFiles(Len(entries) + 1)' PROVE SafeDirEntries'
    <2>1. \A i \in 1..Len(order) : ~entries'[i].is_dir => safe_join(entries'[i].path)
      BY <1>4, <1>5, <1>7 DEF SafeFiles, safe_join, is_safe_component
    <2>2. \A q \in DOMAIN tree : tree[q].kind = "file" => safe_join(rel_path(q))
      <3> SUFFICES ASSUME NEW q \in DOMAIN tree, tree[q].kind = "file"
                   PROVE  safe_join(rel_path(q))
        OBVIOUS
      <3>1. PICK i \in 1..Len(order) : order[i] = q
        BY <1>3
      <3> QED
        BY <1>6, <2>1, <3>1
    <2>3. \A q \in DOMAIN tree : tree[q].kind = "dir" => safe_join(rel_path(q))
      BY <1>1, <2>2 DEF SafeDirs
    <2>4. \A i \in 1..Len(order) : entries'[i].is_dir => safe_join(entries'[i].path)
      BY <1>6, <2>3
    <2> QED
      BY <1>5, <2>4 DEF SafeDirEntries, safe_join, is_safe_component
  <1>8. damage' = 0 /\ opened' = This
    BY <1>1 DEF OpensInv, Early
  <1> QED
    BY <1>1, <1>7, <1>8 DEF OpensInv, Live, Early

(* the parts that steps after the scan leave alone *)
LEMMA OpensSame ==
    ASSUME NEW log, OpensInv(log), UNCHANGED entries
    PROVE  /\ (SafeFiles(Len(entries) + 1) => SafeDirEntries)'
           /\ SafeDirEntries' <=> SafeDirEntries
           /\ \A n : SafeFiles(n) => SafeFiles(n)'
  BY DEF OpensInv, SafeFiles, SafeDirEntries, safe_join, is_safe_component

LEMMA OpensCreate ==
    ASSUME BaseInv, NEW log, ContentInv(log), OpensInv(log), Create
    PROVE  OpensInv(log)'
  <1> USE DEF Create
  <1>1. /\ log = <<>> /\ idx = 1 /\ UNCHANGED <<entries, idx, damage, opened>>
    BY DEF ContentInv, LogInv, Early, BaseInv, PlaceInv, budget
  <1>2. Len(<<>>) = 0 /\ DOMAIN entries = 1..Len(entries) /\ Len(entries) \in Nat
    BY EmptySeq, EntryFacts DEF BaseInv
  <1>3. Clean(log)'
    <2>1. CleanHeader'
      BY <1>1 DEF CleanHeader, wrap_key, NoWrap, MasterKey
    <2>2. Len(frames') = 1 /\ frames'[1] = seal_to(MANIFEST_SEQ, entries)
      OBVIOUS
    <2> QED
      BY <1>1, <1>2, <2>1, <2>2 DEF Clean, seal_to, MANIFEST_SEQ
  <1>4. SafeFiles(idx)'
    BY <1>1, <1>2 DEF SafeFiles
  <1>5. opened' = This
    BY <1>1 DEF OpensInv, Early
  <1> QED
    BY <1>1, <1>3, <1>4, <1>5, OpensSame DEF OpensInv, Early

LEMMA OpensWalk ==
    ASSUME BaseInv, NEW log, ContentInv(log), OpensInv(log),
           OpenFile \/ CopiedFile \/ Written \/ WriteFails
    PROVE  OpensInv(log)'
  <1>0. /\ pc \in Writing
        /\ UNCHANGED <<entries, header, frames, seq, opened, copied, restored, damage>>
    BY DEF OpenFile, CopiedFile, Written, WriteFails, Writing, container, budget
  <1>1. pc' \in {"open", "copy", "stored", "failed"} /\ pc' \notin Early
    BY DEF OpenFile, CopiedFile, Written, WriteFails, Early
  <1>2. pc' \in Live => pc \in Live /\ pc \in {"open", "copy"}
    BY <1>0, <1>1 DEF OpenFile, CopiedFile, Written, WriteFails, Live, Early, Writing, Labels
  <1>3. Len(entries) \in Nat /\ DOMAIN entries = 1..Len(entries)
        /\ idx \in 1..(Len(entries) + 1)
    BY EntryFacts DEF BaseInv, TypeOK
  <1>4. ASSUME damage = 0, pc' \in Live
        PROVE  /\ pc' # "refused" /\ Clean(log)' /\ opened' = This
               /\ pc' \in {"open", "copy"} => SafeFiles(idx)'
               /\ pc' \notin {"open", "copy"} =>
                    SafeFiles(Len(entries) + 1)' /\ After(log, Len(log), Len(entries) + 1, 0)'
    <2>1. Clean(log) /\ opened = This /\ SafeFiles(idx)
      BY <1>2, <1>4 DEF OpensInv
    <2>2. Clean(log)' /\ opened' = This /\ pc' # "refused"
      BY <1>0, <1>1, <2>1, CleanSame
    <2>3. CASE UNCHANGED idx /\ pc' \in {"open", "copy"}
      BY <1>0, <2>1, <2>2, <2>3 DEF SafeFiles, safe_join, is_safe_component
    <2>4. CASE /\ idx <= Len(entries) /\ idx' = idx + 1 /\ pc' = "open"
               /\ entries[idx].is_dir \/ safe_join(entries[idx].path)
      <3>1. \A j \in DOMAIN entries : j < idx + 1 => j < idx \/ j = idx
        BY <1>3
      <3> QED
        BY <1>0, <2>1, <2>2, <2>4, <3>1 DEF SafeFiles, safe_join, is_safe_component
    <2>5. CASE Written
      <3>1. pc = "open" /\ idx = Len(entries) + 1 /\ pos = 0 /\ pc' = "stored"
        BY <1>3, <2>5 DEF Written, BaseInv, PlaceInv
      <3>2. After(log, Len(log), Len(entries) + 1, 0)
        BY <3>1 DEF ContentInv, WriteInv
      <3>3. After(log, Len(log), Len(entries) + 1, 0)'
        BY <1>0, <3>2 DEF After, EndOf, NoChunks
      <3>4. SafeFiles(Len(entries) + 1)'
        BY <1>0, <2>1, <3>1 DEF SafeFiles, safe_join, is_safe_component
      <3> QED
        BY <2>2, <3>1, <3>3, <3>4
    <2>6. \/ UNCHANGED idx /\ pc' \in {"open", "copy"}
          \/ /\ idx <= Len(entries) /\ idx' = idx + 1 /\ pc' = "open"
             /\ entries[idx].is_dir \/ safe_join(entries[idx].path)
          \/ Written
      BY <1>4 DEF OpenFile, CopiedFile, WriteFails, NextEntry, Cur, Live, BaseInv, PlaceInv
    <2> QED
      BY <2>3, <2>4, <2>5, <2>6
  <1> QED
    BY <1>0, <1>1, <1>4, OpensSame DEF OpensInv

LEMMA OpensCopy ==
    ASSUME BaseInv, NEW log, ContentInv(log), OpensInv(log), CopyChunk,
           NEW log2, Grows(log, log2)
    PROVE  OpensInv(log2)'
  <1>0. /\ pc = "copy" /\ pc \in Live /\ pc' \in {"copy", "failed"}
        /\ UNCHANGED <<entries, header, idx, opened, damage>>
    BY DEF CopyChunk, Live, Early, Labels, Writing, budget
  <1>1. pc' \notin Early /\ (pc' \in Live => pc' = "copy")
    BY <1>0 DEF Early, Live
  <1>2. ASSUME damage = 0, pc' = "copy"
        PROVE  Clean(log2)' /\ opened' = This /\ SafeFiles(idx)'
    <2>1. Clean(log) /\ opened = This /\ SafeFiles(idx)
      BY <1>0, <1>2 DEF OpensInv
    <2>2. SafeFiles(idx)'
      BY <1>0, <2>1 DEF SafeFiles, safe_join, is_safe_component
    <2>3. PICK c \in PlaceT :
            /\ log2 = Append(log, c)
            /\ frames' = Append(frames, seal_to(Len(log), Chunk(c)'))
            /\ \A m \in 1..Len(log) : Chunk(log[m])' = Chunk(log[m])
      BY <1>2 DEF Grows
    <2>4. log \in Seq(PlaceT) /\ Len(log) \in Nat
      BY LenProperties DEF ContentInv, LogInv
    <2>5. /\ Len(log2) = Len(log) + 1 /\ log2[Len(log) + 1] = c
          /\ \A m \in 1..Len(log) : log2[m] = log[m]
      BY <2>3, <2>4, AppendProperties
    <2>6. frames \in Seq(FrameT) /\ Len(frames) = Len(log) + 1
      BY <2>1 DEF BaseInv, ManifestInv, Clean
    <2>7. /\ Len(frames') = Len(log) + 2
          /\ frames'[Len(log) + 2] = seal_to(Len(log), Chunk(c)')
          /\ \A k \in 1..(Len(log) + 1) : frames'[k] = frames[k]
      BY <2>3, <2>4, <2>6
    <2>8. ASSUME NEW m \in 1..Len(log2)
          PROVE  frames'[m + 1] = seal_to(m - 1, Chunk(log2[m])')
      <3>1. CASE m \in 1..Len(log)
        <4>1. frames[m + 1] = seal_to(m - 1, Chunk(log[m]))
          BY <2>1, <3>1 DEF Clean
        <4>2. m + 1 \in 1..(Len(log) + 1)
          BY <2>4, <3>1
        <4> QED
          BY <2>3, <2>5, <2>7, <3>1, <4>1, <4>2
      <3>2. CASE m = Len(log) + 1
        BY <2>4, <2>5, <2>7, <3>2
      <3> QED
        BY <2>4, <2>5, <3>1, <3>2
    <2>9. frames'[1] = seal_to(MANIFEST_SEQ, entries)
      BY <2>1, <2>4, <2>7 DEF Clean
    <2>10. Clean(log2)'
      <3>1. CleanHeader'
        BY <1>0, <2>1 DEF Clean, CleanHeader, wrap_key, NoWrap
      <3>2. Len(frames') = Len(log2) + 1 /\ Len(entries) <= MAX_MANIFEST_LEN
        BY <2>1, <2>4, <2>5, <2>7 DEF Clean
      <3> QED
        BY <1>0, <2>8, <2>9, <3>1, <3>2 DEF Clean, seal_to
    <2> QED
      BY <1>0, <2>1, <2>2, <2>10
  <1> QED
    BY <1>0, <1>1, <1>2, OpensSame DEF OpensInv

LEMMA OpensEdit ==
    ASSUME NEW log, OpensInv(log), EditFile \/ RemoveFile
    PROVE  OpensInv(log)'
  <1>0. UNCHANGED <<entries, header, frames, pc, idx, pos, opened, copied, damage>>
    BY DEF EditFile, RemoveFile, container
  <1> QED
    BY <1>0, OpensSame, CleanSame
       DEF OpensInv, SafeFiles, safe_join, is_safe_component, After, EndOf, NoChunks

LEMMA OpensDamage ==
    ASSUME BaseInv, NEW log, OpensInv(log), Damage
    PROVE  OpensInv(log)'
  <1>0. /\ pc' = "stored" /\ damage' = damage + 1 /\ damage \in Nat /\ UNCHANGED entries
    BY DEF Damage, Truncate, Rearrange, AlterHeader, BaseInv, TypeOK
  <1>1. damage' # 0 /\ pc' \notin Early
    BY <1>0 DEF Early
  <1> QED
    BY <1>0, <1>1, OpensSame DEF OpensInv

LEMMA OpensOpen ==
    ASSUME BaseInv, NEW log, ContentInv(log), OpensInv(log), Open
    PROVE  OpensInv(log)'
  <1>0. /\ pc = "stored" /\ pc \in Live /\ pc' \in {"extract", "refused"} /\ pc' \notin Early
        /\ UNCHANGED <<entries, header, frames, copied, damage>>
        /\ pc' = "extract" => opened' \in DataKeys(header)
    BY OpenFacts DEF Live, Early, Labels, container, budget
  <1>1. ASSUME damage = 0
        PROVE  /\ pc' = "extract" /\ opened' = This
               /\ Clean(log)' /\ SafeFiles(Len(entries) + 1)'
               /\ After(log, Len(log), Len(entries) + 1, 0)'
    <2>1. /\ Clean(log) /\ SafeFiles(Len(entries) + 1)
          /\ After(log, Len(log), Len(entries) + 1, 0)
      BY <1>0, <1>1 DEF OpensInv
    <2>2. DataKeys(header) = {This}
      BY <2>1 DEF Clean, CleanHeader, DataKeys, HeaderParses, validate, unwrap_key,
                  derive_kek, wrap_key, NoWrap
    <2>3. ManifestOpens(This)
      <3>1. frames \in Seq(FrameT) /\ Len(frames) >= 1
        <4>1. Len(frames) = Len(log) + 1 /\ frames[1] = seal_to(MANIFEST_SEQ, entries)
          BY <2>1 DEF Clean
        <4>2. Len(log) \in Nat
          BY LenProperties DEF ContentInv, LogInv
        <4> QED
          BY <4>1, <4>2 DEF BaseInv, ManifestInv
      <3> QED
        BY <2>1, <3>1 DEF Clean, CleanHeader, ManifestOpens, read_frame, open_in_place, seal_to
    <2>4. pc' # "refused"
      BY <2>2, <2>3 DEF Open
    <2>5. Clean(log)' /\ SafeFiles(Len(entries) + 1)'
      BY <1>0, <2>1, CleanSame DEF SafeFiles, safe_join, is_safe_component
    <2>6. After(log, Len(log), Len(entries) + 1, 0)'
      BY <1>0, <2>1 DEF After, EndOf, NoChunks
    <2> QED
      BY <1>0, <2>2, <2>4, <2>5, <2>6
  <1> QED
    BY <1>0, <1>1, OpensSame DEF OpensInv

(* No frame, path or length of an untouched container is turned down. *)
LEMMA NothingRefused ==
    ASSUME BaseInv, NEW log, ContentInv(log), OpensInv(log), damage = 0
    PROVE  ~ExtractRefuses
  <1> SUFFICES ASSUME ExtractRefuses PROVE FALSE
    OBVIOUS
  <1>1. pc \in Reading /\ pc \in Live /\ pc \notin {"open", "copy"}
    BY DEF ExtractRefuses, Reading, Live, Early, Labels
  <1>2. /\ Clean(log) /\ opened = This /\ SafeFiles(Len(entries) + 1) /\ SafeDirEntries
        /\ After(log, Len(log), Len(entries) + 1, 0)
    BY <1>1 DEF OpensInv
  <1>3. Len(entries) \in Nat /\ DOMAIN entries = 1..Len(entries)
        /\ idx \in 1..(Len(entries) + 1) /\ pos \in Nat /\ seq \in Nat
    BY EntryFacts DEF BaseInv, TypeOK
  <1>4. CASE pc = "extract" /\ idx <= Len(entries) /\ ~safe_join(Cur.path)
    BY <1>2, <1>3, <1>4 DEF SafeFiles, SafeDirEntries, Cur
  <1>5. CASE pc = "chunk" /\ pos < Cur.size /\ ~FrameOpens
    <2>1. /\ idx \in 1..Len(entries) /\ ~entries[idx].is_dir /\ pos < entries[idx].size
      BY <1>3, <1>5 DEF BaseInv, PlaceInv, Cur
    <2>2. LogInv(log) /\ seq <= Len(log) /\ After(log, seq, idx, pos) /\ Len(log) \in Nat
      BY <1>1, LenProperties DEF ContentInv, ReadInv, ReadAt, LogInv
    <2>3. ~NoChunks(idx)
      BY <1>3, <2>1 DEF NoChunks
    <2>4. seq # Len(log)
      <3> SUFFICES ASSUME seq = Len(log) PROVE FALSE
        OBVIOUS
      <3>1. CASE seq = 0
        BY <1>2, <1>3, <2>1, <2>3, <3>1 DEF After
      <3>2. CASE seq # 0
        <4>1. seq \in 1..Len(log)
          BY <1>3, <2>2, <3>2
        <4>2. log[seq].entry \in 1..Len(entries)
          BY <2>2, <4>1 DEF LogInv
        <4>3. /\ EndOf(log[seq]) = entries[log[seq].entry].size
              /\ \A j \in (log[seq].entry + 1)..(Len(entries) + 1 - 1) : NoChunks(j)
          BY <1>2, <1>3, <3>2, <4>2 DEF After
        <4>4. ~(idx \in (log[seq].entry + 1)..Len(entries))
          BY <1>3, <2>3, <4>2, <4>3
        <4> QED
          BY <1>3, <2>1, <2>2, <3>2, <4>2, <4>3, <4>4 DEF After
      <3> QED
        BY <3>1, <3>2
    <2>5. seq + 1 \in 1..Len(log) /\ seq \in 0..Len(log)
      BY <1>3, <2>2, <2>4
    <2>6. /\ log[seq + 1].entry = idx /\ log[seq + 1].at = pos
      <3>1. /\ log[seq + 1].entry \in 1..Len(entries) /\ ~entries[log[seq + 1].entry].is_dir
            /\ log[seq + 1].at < entries[log[seq + 1].entry].size
            /\ After(log, (seq + 1) - 1, log[seq + 1].entry, log[seq + 1].at)
        BY <2>2, <2>5 DEF LogInv
      <3>2. log[seq + 1].at \in Nat
        BY <2>2, <2>5, LogFacts
      <3>3. (seq + 1) - 1 = seq
        BY <1>3
      <3> QED
        BY <1>3, <2>1, <2>2, <2>5, <3>1, <3>2, <3>3, AfterUnique
    <2>7. /\ Len(Chunk(log[seq + 1])) = NextChunk(entries[idx].size - pos)
          /\ Len(Chunk(log[seq + 1])) <= CHUNK_SIZE
      BY <1>1, <2>2, <2>5, <2>6, ChunkFacts
    <2>8. frames[seq + 2] = seal_to(seq, Chunk(log[seq + 1])) /\ seq + 2 <= Len(frames)
      <3>1. frames[(seq + 1) + 1] = seal_to((seq + 1) - 1, Chunk(log[seq + 1]))
            /\ Len(frames) = Len(log) + 1
        BY <1>2, <2>5 DEF Clean
      <3>2. (seq + 1) + 1 = seq + 2 /\ (seq + 1) - 1 = seq
        BY <1>3
      <3> QED
        BY <1>3, <2>2, <2>5, <3>1, <3>2
    <2>9. header.uuid = This
      BY <1>2 DEF Clean, CleanHeader
    <2>10. FrameOpens
      BY <1>2, <2>7, <2>8, <2>9 DEF FrameOpens, read_frame, open_in_place, seal_to, Cur
    <2> QED
      BY <1>5, <2>10
  <1> QED
    BY <1>4, <1>5 DEF ExtractRefuses

LEMMA OpensExtract ==
    ASSUME BaseInv, NEW log, ContentInv(log), OpensInv(log), Extract
    PROVE  OpensInv(log)'
  <1>0. /\ pc \in Reading /\ pc' \in Reading \cup {"restored", "refused"}
        /\ UNCHANGED <<entries, header, frames, opened, copied, damage>>
        /\ pc' = "refused" => ExtractRefuses
    BY DEF Extract, ExtractDir, ExtractFile, ExtractChunk, ExtractedFile, ExtractRefuses,
           Extracted, Reading, container, budget
  <1>1. pc \in Live /\ pc \notin {"open", "copy"} /\ pc' \notin {"open", "copy"} /\ pc' \notin Early
    BY <1>0 DEF Live, Early, Labels, Reading
  <1>2. ASSUME damage = 0
        PROVE  /\ pc' # "refused" /\ Clean(log)' /\ opened' = This
               /\ SafeFiles(Len(entries) + 1)' /\ After(log, Len(log), Len(entries) + 1, 0)'
    <2>1. /\ Clean(log) /\ opened = This /\ SafeFiles(Len(entries) + 1)
          /\ After(log, Len(log), Len(entries) + 1, 0)
      BY <1>1, <1>2 DEF OpensInv
    <2>2. pc' # "refused"
      BY <1>0, <1>2, NothingRefused
    <2>3. Clean(log)' /\ SafeFiles(Len(entries) + 1)'
      BY <1>0, <2>1, CleanSame DEF SafeFiles, safe_join, is_safe_component
    <2>4. After(log, Len(log), Len(entries) + 1, 0)'
      BY <1>0, <2>1 DEF After, EndOf, NoChunks
    <2> QED
      BY <1>0, <2>1, <2>2, <2>3, <2>4
  <1> QED
    BY <1>0, <1>1, <1>2, OpensSame DEF OpensInv

(* One log explains the frames and accounts for an untouched container. *)
Openable == \E log : ContentInv(log) /\ OpensInv(log)

LEMMA OpensInit == Init => Openable
  <1> SUFFICES ASSUME Init PROVE OpensInv(<<>>)
    BY ContentInit DEF Openable
  <1>1. pc = "scan" /\ damage = 0 /\ opened = This /\ entries = <<>>
    BY DEF Init
  <1>2. DOMAIN entries = {}
    BY <1>1
  <1> QED
    BY <1>1, <1>2 DEF OpensInv, SafeDirEntries, Live, Early

LEMMA OpensStep ==
    ASSUME DistinctPaths, SafeDirs
    PROVE  BaseInv /\ Openable /\ [Next]_vars => Openable'
  <1> SUFFICES ASSUME BaseInv, Openable, [Next]_vars PROVE Openable'
    OBVIOUS
  <1>0. PICK log : ContentInv(log) /\ OpensInv(log)
    BY DEF Openable
  <1>1. CASE Scan \/ Create \/ OpenFile \/ CopiedFile \/ Written \/ WriteFails
    <2>1. ContentInv(log)'
      BY <1>0, <1>1, ContentScan, ContentCreate, ContentWalk
    <2>2. OpensInv(log)'
      BY <1>0, <1>1, OpensScan, OpensCreate, OpensWalk
    <2> QED
      BY <2>1, <2>2 DEF Openable
  <1>2. CASE CopyChunk
    <2>1. PICK log2 : ContentInv(log2)' /\ Grows(log, log2)
      BY <1>0, <1>2, ContentCopy
    <2>2. OpensInv(log2)'
      BY <1>0, <1>2, <2>1, OpensCopy
    <2> QED
      BY <2>1, <2>2 DEF Openable
  <1>3. CASE Read
    <2>1. ContentInv(log)'
      BY <1>0, <1>3, ContentOpen, ContentDir, ContentFile, ContentChunk, ContentFileEnd,
         ContentEnd DEF Read
    <2>2. OpensInv(log)'
      BY <1>0, <1>3, OpensOpen, OpensExtract DEF Read, Extract
    <2> QED
      BY <2>1, <2>2 DEF Openable
  <1>4. CASE EditFile \/ RemoveFile \/ Damage
    <2>1. ContentInv(log)'
      BY <1>0, <1>4, ContentEdit, ContentDamage
    <2>2. OpensInv(log)'
      BY <1>0, <1>4, OpensEdit, OpensDamage
    <2> QED
      BY <2>1, <2>2 DEF Openable
  <1>5. CASE UNCHANGED vars
    <2>1. ContentInv(log)'
      BY <1>0, <1>5, ContentStutter
    <2>2. UNCHANGED <<entries, header, frames, pc, idx, opened, copied, damage>>
      BY <1>5 DEF vars, container, budget
    <2>3. OpensInv(log)'
      BY <1>0, <2>2, OpensSame, CleanSame
         DEF OpensInv, SafeFiles, safe_join, is_safe_component, After, EndOf, NoChunks
    <2> QED
      BY <2>1, <2>3 DEF Openable
  <1> QED
    BY <1>1, <1>2, <1>3, <1>4, <1>5 DEF Next, Write

(* verify_structure accepts what write_container wrote. *)
LEMMA CleanVerifies ==
    ASSUME BaseInv, pc \in Live, NEW log, LogInv(log), Clean(log)
    PROVE  verify_structure
  <1>1. Len(log) \in Nat /\ Len(frames) = Len(log) + 1
    BY LenProperties DEF LogInv, Clean
  <1>2. HeaderParses(header)
    BY DEF Clean, CleanHeader, HeaderParses
  <1>3. read_frame(1, MAX_MANIFEST_LEN)
    BY <1>1 DEF Clean, read_frame, seal_to
  <1>4. ASSUME NEW k \in 2..Len(frames) PROVE read_frame(k, CHUNK_SIZE)
    <2>1. k - 1 \in 1..Len(log) /\ (k - 1) + 1 = k /\ k <= Len(frames)
      BY <1>1, <1>4
    <2>2. frames[(k - 1) + 1] = seal_to((k - 1) - 1, Chunk(log[k - 1]))
      BY <2>1 DEF Clean
    <2>3. frames[k].plain = Chunk(log[k - 1]) /\ ~frames[k].cut
      BY <2>1, <2>2 DEF seal_to
    <2>4. Len(Chunk(log[k - 1])) <= CHUNK_SIZE
      BY <2>1, ChunkFacts
    <2> QED
      BY <2>1, <2>3, <2>4 DEF read_frame
  <1> QED
    BY <1>2, <1>3, <1>4 DEF verify_structure

LEMMA OpenableOpens == BaseInv /\ Openable => LockedOpens
  <1> SUFFICES ASSUME BaseInv, Openable, damage = 0
               PROVE  pc # "refused" /\ (pc = "stored" => verify_structure)
    BY DEF LockedOpens
  <1>1. PICK log : ContentInv(log) /\ OpensInv(log)
    BY DEF Openable
  <1>2. pc \in {"refused", "stored"} => pc \in Live
    BY DEF Live, Labels, Ended, Early
  <1>3. pc # "refused"
    BY <1>1, <1>2 DEF OpensInv
  <1>4. ASSUME pc = "stored" PROVE verify_structure
    BY <1>1, <1>2, <1>4, CleanVerifies DEF OpensInv, ContentInv
  <1> QED
    BY <1>3, <1>4

(* Every folder that locks can be unlocked, whatever is edited while it is *)
(* copied: verify_structure accepts the container, and no frame, path or   *)
(* length of it is refused by extract_entries as long as nobody touches    *)
(* it.  SafeDirs is needed: write_container checks the paths of files only.*)
THEOREM WhatLocksOpens ==
    ASSUME DistinctPaths, SafeDirs
    PROVE  Spec => []LockedOpens
  <1>1. Init => Openable
    BY OpensInit
  <1>2. BaseInv /\ Openable /\ [Next]_vars => Openable'
    BY OpensStep
  <1>3. BaseInv /\ Openable => LockedOpens
    BY OpenableOpens
  <1> QED
    BY <1>1, <1>2, <1>3, BaseInvariant, PTL DEF Spec

-----------------------------------------------------------------------------
(* The round trip *)

LEMMA UnicodeIsDistinct == UnicodeNames => DistinctPaths
  BY DEF UnicodeNames, DistinctPaths

(* the steps that leave folder, scan and copy alone *)
LEMMA SameSame ==
    ASSUME SameInv, UNCHANGED <<tree, entries, copied, edits>>,
           pc' \notin {"scan", "failed"} => pc \notin {"scan", "failed"},
           pc' \in Live => pc \in Live
    PROVE  SameInv'
  BY DEF SameInv, Dirs, Files, Of, Got

LEMMA SameScan ==
    ASSUME UnicodeNames, BaseInv, Scan
    PROVE  SameInv'
  <1>1. tree \in Trees /\ pc = "scan" /\ pc' \in {"create", "failed"} /\ UNCHANGED tree
    BY DEF BaseInv, PlaceInv, Scan
  <1>2. PICK order : Lists(order, tree) /\ entries' = Recorded(order)
    BY <1>1, ScanLists
  <1>3. /\ order \in Seq(DOMAIN tree)
        /\ \A i \in 1..Len(order) : tree[order[i]].kind # "link"
        /\ \A q \in DOMAIN tree : tree[q].kind # "link" => \E i \in 1..Len(order) : order[i] = q
    BY <1>2 DEF Lists
  <1>4. /\ Len(entries') = Len(order) /\ entries' \in Seq(EntryT) /\ Len(order) \in Nat
        /\ \A i \in 1..Len(order) : entries'[i] = Entry(order[i])
    BY <1>2, <1>3, RecordedTypes, LenProperties DEF BaseInv
  <1>5. DOMAIN entries' = 1..Len(order)
    BY <1>4
  <1>6. ASSUME NEW i \in 1..Len(order)
        PROVE  /\ order[i] \in DOMAIN tree
               /\ entries'[i].path = order[i]
               /\ entries'[i].size = Len(tree[order[i]].bytes)
               /\ entries'[i].is_dir <=> tree[order[i]].kind = "dir"
               /\ ~entries'[i].is_dir <=> tree[order[i]].kind = "file"
    <2>1. order[i] \in DOMAIN tree
      BY <1>3, ElementOfSeq
    <2>2. tree[order[i]].kind \in {"dir", "file"}
      BY <1>3, <2>1 DEF BaseInv, TreeInv, Node
    <2>3. rel_path(order[i]) = order[i]
      BY <1>1, <2>1 DEF UnicodeNames
    <2> QED
      BY <1>4, <2>1, <2>2, <2>3, EntryTypes DEF BaseInv
  <1>7. Dirs(entries') = Of("dir")
    BY <1>3, <1>5, <1>6 DEF Dirs, Of
  <1>8. Files(entries') = Of("file")
    BY <1>3, <1>5, <1>6 DEF Files, Of
  <1>9. \A j \in DOMAIN entries' : ~entries'[j].is_dir =>
          entries'[j].size = Len(tree[entries'[j].path].bytes)
    BY <1>5, <1>6
  <1>10. pc' \notin Live
    BY <1>1 DEF Live, Early
  <1> QED
    BY <1>1, <1>7, <1>8, <1>9, <1>10 DEF SameInv, Dirs, Files, Of

LEMMA SameCreate ==
    ASSUME BaseInv, SameInv, Create
    PROVE  SameInv'
  <1> SUFFICES ASSUME edits = 0 PROVE SameInv'
    BY DEF Create, SameInv, budget
  <1>1. /\ Dirs(entries) = Of("dir") /\ Files(entries) = Of("file")
        /\ \A j \in DOMAIN entries : ~entries[j].is_dir =>
             entries[j].size = Len(tree[entries[j].path].bytes)
    BY DEF SameInv, Create
  <1>2. UNCHANGED <<tree, entries>>
    BY DEF Create
  <1>3. ASSUME NEW j \in DOMAIN entries, ~entries[j].is_dir
        PROVE  (copied.files[entries[j].path] = SubSeq(tree[entries[j].path].bytes, 1, Got(j)))'
    <2>1. entries[j].path \in Files(entries)
      BY <1>3 DEF Files
    <2>2. copied'.files[entries[j].path] = <<>>
      BY <2>1 DEF Create
    <2>3. Got(j)' = 0
      BY <1>2, <2>2, EmptySeq DEF Got
    <2>4. SubSeq(tree[entries[j].path].bytes, 1, 0) = <<>>
      BY SubSeqEmpty
    <2> QED
      BY <1>2, <2>2, <2>3, <2>4
  <1> QED
    BY <1>1, <1>2, <1>3 DEF SameInv, Dirs, Files, Of

LEMMA SameCopy ==
    ASSUME BaseInv, Explained, SameInv, CopyChunk
    PROVE  SameInv'
  <1>0. /\ pc = "copy" /\ pc \in Live /\ UNCHANGED <<tree, entries, edits, idx>>
    BY DEF CopyChunk, Live, Early, Labels, Writing, budget
  <1>1. CASE pc' = "failed"
    BY <1>1 DEF SameInv
  <1>2. CASE pc' # "failed" /\ edits = 0
    <2>1. PICK n \in 1..CHUNK_SIZE, chunk \in Seq(Byte) :
            /\ n = NextChunk(Cur.size - pos) /\ n <= Cur.size - pos
            /\ Len(chunk) = n /\ CopyStep(n, chunk)
      BY <1>2, CopyFacts
    <2>2. /\ idx \in 1..Len(entries) /\ ~entries[idx].is_dir
          /\ Cur.path \in Files(entries) /\ OnDisk(Cur.path) /\ pos \in Nat
      BY CopyFacts
    <2>3. n \in Nat /\ n > 0
      BY ChunkAssumption
    <2>4. /\ chunk = SubSeq(tree[Cur.path].bytes, pos + 1, pos + n)
          /\ Len(tree[Cur.path].bytes) >= pos + n
          /\ copied' = [copied EXCEPT !.files[Cur.path] = @ \o chunk]
      BY <2>1 DEF CopyStep
    <2>5. DOMAIN entries = 1..Len(entries)
      BY EntryFacts DEF BaseInv
    <2>6. PathsInv /\ Got(idx) = pos
      <3>1. PICK log : ContentInv(log)
        BY DEF Explained
      <3>2. PathsInv
        BY <3>1 DEF ContentInv
      <3>3. Got(idx) = IF idx < idx THEN entries[idx].size ELSE IF idx = idx THEN pos ELSE 0
        BY <1>0, <2>2, <2>5, <3>1 DEF ContentInv, WriteInv
      <3> QED
        BY <2>2, <3>2, <3>3
    <2>7. /\ Dirs(entries) = Of("dir") /\ Files(entries) = Of("file")
          /\ \A j \in DOMAIN entries : ~entries[j].is_dir =>
               /\ entries[j].size = Len(tree[entries[j].path].bytes)
               /\ copied.files[entries[j].path] = SubSeq(tree[entries[j].path].bytes, 1, Got(j))
      BY <1>0, <1>2 DEF SameInv
    <2>8. \A q \in Files(entries) :
             copied'.files[q] = IF q = Cur.path THEN copied.files[q] \o chunk ELSE copied.files[q]
      <3>1. copied \in [dirs : {Dirs(entries)}, files : [Files(entries) -> Seq(Byte)]]
        BY <1>0 DEF BaseInv, CopiedInv
      <3> QED
        BY <2>2, <2>4, <3>1
    <2>9. ASSUME NEW j \in DOMAIN entries, ~entries[j].is_dir
          PROVE  (copied.files[entries[j].path] = SubSeq(tree[entries[j].path].bytes, 1, Got(j)))'
      <3>1. entries[j].path \in Files(entries)
        BY <2>9 DEF Files
      <3>2. CASE j = idx
        <4> DEFINE now == tree[Cur.path].bytes
        <4>1. now \in Seq(Byte)
          BY <2>2 DEF OnDisk, BaseInv, TreeInv, Node
        <4>2. copied'.files[Cur.path] = SubSeq(now, 1, pos) \o SubSeq(now, pos + 1, pos + n)
          BY <2>2, <2>4, <2>5, <2>6, <2>7, <2>8 DEF Cur
        <4> HIDE DEF now
        <4>3. Len(now) >= pos + n
          BY <2>4 DEF now
        <4>4. SubSeq(now, 1, pos) \o SubSeq(now, pos + 1, pos + n) = SubSeq(now, 1, pos + n)
          <5>1. 1 \in 1..(Len(now) + 1) /\ pos \in (1 - 1)..Len(now) /\ pos + n \in pos..Len(now)
            BY <2>2, <2>3, <4>1, <4>3
          <5> QED
            BY <4>1, <5>1, ConcatAdjacentSubSeq
        <4>5. Len(SubSeq(now, 1, pos + n)) = pos + n
          <5>1. \A k \in 1..(pos + n) : now[k] \in Byte
            BY <2>2, <2>3, <4>1, <4>3
          <5>2. 1 \in Int /\ pos + n \in Int /\ 1 <= pos + n
            BY <2>2, <2>3
          <5>3. Len(SubSeq(now, 1, pos + n)) = (pos + n) - 1 + 1
            BY <5>1, <5>2, SubSeqProperties
          <5> QED
            BY <2>2, <2>3, <5>3
        <4>6. copied'.files[entries[j].path] = SubSeq(now, 1, pos + n)
          BY <3>2, <4>2, <4>4 DEF Cur
        <4>7. Got(j)' = pos + n
          BY <1>0, <4>5, <4>6 DEF Got
        <4>8. tree'[entries'[j].path].bytes = now
          BY <1>0, <3>2 DEF now, Cur
        <4> QED
          BY <1>0, <4>6, <4>7, <4>8
      <3>3. CASE j # idx
        <4>1. entries[j].path # Cur.path
          BY <2>2, <2>5, <2>6, <2>9, <3>3 DEF PathsInv, Cur
        <4>2. copied'.files[entries[j].path] = copied.files[entries[j].path]
          BY <2>8, <3>1, <4>1
        <4>3. Got(j)' = Got(j)
          BY <1>0, <4>2 DEF Got
        <4> QED
          BY <1>0, <2>7, <2>9, <4>2, <4>3
      <3> QED
        BY <3>2, <3>3
    <2> QED
      BY <1>0, <2>7, <2>9 DEF SameInv, Dirs, Files, Of
  <1>3. CASE edits # 0
    BY <1>0, <1>3 DEF SameInv
  <1> QED
    BY <1>1, <1>2, <1>3

LEMMA SameStep ==
    ASSUME UnicodeNames
    PROVE  BaseInv /\ Explained /\ SameInv /\ [Next]_vars => SameInv'
  <1> SUFFICES ASSUME BaseInv, Explained, SameInv, [Next]_vars PROVE SameInv'
    OBVIOUS
  <1>1. CASE Scan \/ Create \/ CopyChunk
    BY <1>1, SameScan, SameCreate, SameCopy
  <1>2. CASE OpenFile \/ CopiedFile \/ Written \/ WriteFails
    <2>1. /\ UNCHANGED <<tree, entries, copied, edits>>
          /\ pc' \in {"open", "copy", "stored", "failed"} /\ pc \in Writing
          /\ pc' # "failed" => pc # "create"
      BY <1>2 DEF OpenFile, CopiedFile, Written, WriteFails, Writing, budget
    <2>2. pc \notin {"scan", "failed"} /\ (pc' \in Live => pc \in Live)
      BY <2>1 DEF Live, Labels, Early, Writing
    <2> QED
      BY <2>1, <2>2, SameSame
  <1>3. CASE Read \/ Damage
    <2>1. /\ UNCHANGED <<tree, entries, copied, edits>>
          /\ pc \in {"stored", "open", "copy"} \cup Reading
      BY <1>3, OpenFacts
         DEF Read, ExtractDir, ExtractFile, ExtractChunk, ExtractedFile, ExtractRefuses,
             Extracted, Damage, Truncate, Rearrange, AlterHeader, Reading, Writing, budget
    <2>2. pc \notin {"scan", "failed"} /\ pc \in Live
      BY <2>1 DEF Live, Labels, Early, Writing, Reading
    <2> QED
      BY <2>1, <2>2, SameSame
  <1>4. CASE EditFile \/ RemoveFile
    <2>1. edits' # 0
      BY <1>4 DEF EditFile, RemoveFile, BaseInv, TypeOK
    <2> QED
      BY <2>1 DEF SameInv
  <1>5. CASE UNCHANGED vars
    BY <1>5, SameSame DEF vars, budget
  <1> QED
    BY <1>1, <1>2, <1>3, <1>4, <1>5 DEF Next, Write

LEMMA SameRoundTrip == BaseInv /\ Explained /\ SameInv => RoundTrip
  <1> SUFFICES ASSUME BaseInv, Explained, SameInv, pc = "restored", edits = 0, opened = This
               PROVE  /\ restored.dirs = Of("dir")
                      /\ restored.files = [p \in Of("file") |-> tree[p].bytes]
    BY DEF RoundTrip
  <1>1. restored = copied
    BY RestoredIsLocked DEF ExtractExact, LockedIn
  <1>2. pc \in Live
    BY DEF Live, Labels, Early, Ended
  <1>3. copied \in [dirs : {Dirs(entries)}, files : [Files(entries) -> Seq(Byte)]]
    BY <1>2 DEF BaseInv, CopiedInv
  <1>4. /\ Dirs(entries) = Of("dir") /\ Files(entries) = Of("file")
        /\ \A j \in DOMAIN entries : ~entries[j].is_dir =>
             /\ entries[j].size = Len(tree[entries[j].path].bytes)
             /\ copied.files[entries[j].path] = SubSeq(tree[entries[j].path].bytes, 1, Got(j))
    BY <1>2 DEF SameInv
  <1>5. \A j \in DOMAIN entries : ~entries[j].is_dir => Got(j) = entries[j].size
    <2>1. ReadBytes
      BY DEF Explained, ContentInv, ReadInv
    <2>2. \A i \in DOMAIN entries : i < idx
      BY EntryFacts DEF BaseInv, PlaceInv, TypeOK
    <2> QED
      BY <2>1, <2>2 DEF ReadBytes
  <1>6. ASSUME NEW q \in Of("file") PROVE copied.files[q] = tree[q].bytes
    <2>1. PICK j \in DOMAIN entries : ~entries[j].is_dir /\ entries[j].path = q
      BY <1>4, <1>6 DEF Files
    <2>2. tree[q].bytes \in Seq(Byte)
      BY <1>6 DEF Of, BaseInv, TreeInv, Node
    <2>3. copied.files[q] = SubSeq(tree[q].bytes, 1, Len(tree[q].bytes))
      BY <1>4, <1>5, <2>1
    <2> QED
      BY <2>2, <2>3, SubSeqFull
  <1> QED
    BY <1>1, <1>3, <1>4, <1>6

(* A folder that nobody edits while it is locked comes back as scan saw it,*)
(* every directory, file and byte, for every size and every chunk size and *)
(* even if the container was tampered with on the way.  The names are      *)
(* Unicode: to_string_lossy replaces what is not.                          *)
THEOREM RoundTripCorrect ==
    ASSUME UnicodeNames
    PROVE  Spec => []RoundTrip
  <1>1. Init => SameInv
    BY DEF Init, SameInv
  <1>2. BaseInv /\ Explained /\ SameInv /\ [Next]_vars => SameInv'
    BY SameStep
  <1>3. BaseInv /\ Explained /\ SameInv => RoundTrip
    BY SameRoundTrip
  <1>4. Spec => []Explained
    BY UnicodeIsDistinct, ExplainedInvariant
  <1> QED
    BY <1>1, <1>2, <1>3, <1>4, BaseInvariant, PTL DEF Spec

=============================================================================
