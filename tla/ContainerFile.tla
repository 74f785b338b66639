---------------------------- MODULE ContainerFile ----------------------------
(***************************************************************************)
(* What is inside a container, and how it gets in and out: walk.rs scan,   *)
(* format.rs write_container, extract_entries, verify_structure, safe_join *)
(* and the header, crypto.rs key wrapping and ChunkCipher.                 *)
(*                                                                         *)
(* One folder is scanned and copied while its user may still edit it; the  *)
(* container may then be cut, its frames exchanged or its header altered;  *)
(* then it is opened with the right password or recovery code.  VaultOps   *)
(* takes from here that a file is copied or extracted as a whole, and what *)
(* verify_structure can tell.                                              *)
(*                                                                         *)
(* A path is the sequence of its component names, a file its bytes.  A     *)
(* ciphertext is the record of what was encrypted, under which key and     *)
(* with which associated data; it opens only under the same ones.          *)
(***************************************************************************)
EXTENDS Integers, SequencesExt

CONSTANTS
    Trees,      \* folders to lock: functions from paths to nodes
    Names,      \* component names
    Class,      \* Class[n]: what is_safe_component sees in a name
    Lossy,      \* Lossy[n]: the name to_string_lossy makes of it
    Edits,      \* contents the user may write over a file meanwhile
    CHUNK_SIZE, \* plaintext bytes of a full frame
    MAX_MANIFEST_LEN, \* the most entries a manifest frame has room for
    MaxEdits,   \* bound on the user's edits
    MaxDamage   \* bound on the changes made to the container

ASSUME ChunkAssumption == CHUNK_SIZE \in Nat \ {0} /\ MAX_MANIFEST_LEN \in Nat
ASSUME BoundsAssumption == MaxEdits \in Nat /\ MaxDamage \in Nat

ASSUME NamesAssumption ==
    /\ Class \in [Names -> {"plain", "special", "reserved", "trailing"}]
    /\ Lossy \in [Names -> Names]

Byte == 0..255
Node == [kind : {"dir", "file", "link"}, bytes : Seq(Byte)]

(* finite folders of nodes under paths of names *)
ASSUME TreesAssumption ==
    \A t \in Trees :
        /\ IsFiniteSet(DOMAIN t) /\ DOMAIN t \subseteq Seq(Names)
        /\ t \in [DOMAIN t -> Node]
ASSUME EditsAssumption == Edits \subseteq Seq(Byte)

(* u64::MAX in the code; no chunk count comes near it *)
MANIFEST_SEQ == -1

(* uuid, salt and data key are random and fresh for every container; one   *)
(* other container is around to take frames and header fields from         *)
This  == "this"
Other == "other"

VARIABLES
    tree,      \* the folder
    entries,   \* the scan, then the manifest as read back
    header,    \* the container: header ...
    frames,    \*                ... and frames after it
    pc,        \* where the lock or the unlock is
    idx,       \* the entry it is at
    pos,       \* bytes of that entry done; `remaining` is size - pos
    seq,       \* chunk sequence number
    opened,    \* the data key the unlock got out of the header
    copied,    \* history: what was read from the folder, by recorded path
    restored,  \* what the unlock has created in the staging folder
    edits,     \* edits made so far
    damage     \* changes made to the container so far

container == <<header, frames>>
budget == <<edits, damage>>
vars == <<tree, entries, container, pc, idx, pos, seq, opened, copied, restored, budget>>

Writing == {"create", "open", "copy"}
Reading == {"extract", "chunk"}
Ended   == {"failed", "restored", "refused"}
Labels  == {"scan", "stored"} \cup Writing \cup Reading \cup Ended

-----------------------------------------------------------------------------
(* Names and paths *)

is_safe_component(name) == Class[name] = "plain"

(* safe_join: does the path pass? *)
safe_join(rel) ==
    rel # <<>> /\ \A k \in 1..Len(rel) : is_safe_component(rel[k])

rel_path(path) == [k \in 1..Len(path) |-> Lossy[path[k]]]

Of(kind) == {p \in DOMAIN tree : tree[p].kind = kind}

(* read_dir yields items in any order, but a directory before what it holds *)
Orders(S) ==
    {s \in SetToSeqs(S) : \A j, k \in DOMAIN s : IsStrictPrefix(s[j], s[k]) => j < k}

Entry(path) ==
    [path |-> rel_path(path), size |-> Len(tree[path].bytes),
     is_dir |-> tree[path].kind = "dir"]

Recorded(order) == [k \in DOMAIN order |-> Entry(order[k])]

-----------------------------------------------------------------------------
(* Keys and frames *)

NoWrap == [key |-> <<>>, dk |-> "none", intact |-> FALSE]

(* Argon2id of the password; a wrong password is the business of Lockout *)
derive_kek(h) == <<h.salt, h.kdf>>

(* The right recovery code holds the secret half of the master key. *)
MasterKey == <<"master">>

wrap_key(key, dk) == [key |-> key, dk |-> dk, intact |-> TRUE]

(* unwrap_key: the data key, or nothing *)
unwrap_key(key, wrapped) ==
    IF wrapped.intact /\ wrapped.key = key THEN {wrapped.dk} ELSE {}

(* ChunkCipher of the container being written, frame `nonce | len | blob` *)
seal_to(n, plain) ==
    [dk |-> This, aad |-> <<This, n>>, plain |-> plain, intact |-> TRUE, cut |-> FALSE]

(* mutant: the associated data leaves out the sequence number *)
open_in_place_any(dk, uuid, n, frame) ==
    frame.intact /\ frame.dk = dk /\ frame.aad[1] = uuid

open_in_place(dk, uuid, n, frame) ==
    frame.intact /\ frame.dk = dk /\ frame.aad = <<uuid, n>>

(* mutant: a frame of the largest length is turned down *)
read_frame_below(k, max) ==
    k <= Len(frames) /\ ~frames[k].cut /\ Len(frames[k].plain) < max

(* read_frame_into: is there a whole frame of an acceptable length? *)
read_frame(k, max) ==
    k <= Len(frames) /\ ~frames[k].cut /\ Len(frames[k].plain) <= max

Min2(a, b) == IF a < b THEN a ELSE b

(* mutant: always a full chunk *)
FullChunk(left) == CHUNK_SIZE

(* the bytes of the next chunk of a file with `left` bytes to go *)
NextChunk(left) == Min2(left, CHUNK_SIZE)

(* The other container is of a folder with the same entries and other     *)
(* bytes, under its own key and uuid: what mixes the two shows.            *)
OtherBytes(bytes) == [k \in 1..Len(bytes) |-> 255]

OtherFrame(k) ==
    LET n == frames[k].aad[2] IN
    [dk |-> Other, aad |-> <<Other, n>>,
     plain |-> IF n = MANIFEST_SEQ THEN frames[k].plain ELSE OtherBytes(frames[k].plain),
     intact |-> TRUE, cut |-> FALSE]

-----------------------------------------------------------------------------
Init ==
    /\ tree \in Trees
    /\ entries = <<>>
    /\ header = [magic |-> FALSE]
    /\ frames = <<>>
    /\ pc = "scan"
    /\ idx = 1 /\ pos = 0 /\ seq = 0 /\ opened = This
    /\ copied = [dirs |-> {}, files |-> <<>>]
    /\ restored = [dirs |-> {}, files |-> <<>>]
    /\ edits = 0 /\ damage = 0

(* mutant: only files are recorded *)
ScanFiles ==
    /\ pc = "scan"
    /\ \E fs \in Orders(Of("file")) : entries' = Recorded(fs)
    /\ pc' = IF Of("link") = {} THEN "create" ELSE "failed"
    /\ UNCHANGED <<tree, container, idx, pos, seq, opened, copied, restored, budget>>

(* scan: directories first, then files; a symlink or reparse point aborts *)
Scan ==
    /\ pc = "scan"
    /\ \E ds \in Orders(Of("dir")), fs \in Orders(Of("file")) :
         entries' = Recorded(ds \o fs)
    /\ pc' = IF Of("link") = {} THEN "create" ELSE "failed"
    /\ UNCHANGED <<tree, container, idx, pos, seq, opened, copied, restored, budget>>

Files(es) == {es[k].path : k \in {j \in DOMAIN es : ~es[j].is_dir}}
Dirs(es)  == {es[k].path : k \in {j \in DOMAIN es : es[j].is_dir}}

(* write_container up to the copy loop: header and manifest.  A manifest   *)
(* that its frame has no room for ends the lock.                           *)
Create ==
    /\ pc = "create" /\ Len(entries) <= MAX_MANIFEST_LEN
    /\ \E mk \in {NoWrap, wrap_key(MasterKey, This)} :
         header' = [magic |-> TRUE, kdf |-> "default", salt |-> This, uuid |-> This,
                    pw |-> wrap_key(<<This, "default">>, This), mk |-> mk,
                    count |-> Len(entries)]
    /\ frames' = <<seal_to(MANIFEST_SEQ, entries)>>
    /\ copied' = [dirs |-> Dirs(entries), files |-> [p \in Files(entries) |-> <<>>]]
    /\ pc' = "open"
    /\ UNCHANGED <<tree, entries, idx, pos, seq, opened, restored, budget>>

Cur == entries[idx]

(* a file of that name, as the system looks it up by the recorded path *)
OnDisk(path) == path \in DOMAIN tree /\ tree[path].kind = "file"

NextEntry == idx' = idx + 1 /\ pos' = 0

(* the copy loop takes the next file; directories have no frames *)
OpenFile ==
    /\ pc = "open" /\ idx <= Len(entries)
    /\ IF Cur.is_dir
       THEN NextEntry /\ UNCHANGED pc
       ELSE /\ pc' = IF safe_join(Cur.path) /\ OnDisk(Cur.path) THEN "copy" ELSE "failed"
            /\ UNCHANGED <<idx, pos>>
    /\ UNCHANGED <<tree, entries, container, seq, opened, copied, restored, budget>>

(* read_exact of one chunk, then seal_to; a file that shrank ends the lock *)
CopyChunk ==
    /\ pc = "copy" /\ pos < Cur.size
    /\ LET now   == tree[Cur.path].bytes
           n     == NextChunk(Cur.size - pos)
           chunk == SubSeq(now, pos + 1, pos + n)
       IN IF Len(now) >= pos + n
          THEN /\ frames' = Append(frames, seal_to(seq, chunk))
               /\ copied' = [copied EXCEPT !.files[Cur.path] = @ \o chunk]
               /\ seq' = seq + 1
               /\ pos' = pos + n
               /\ UNCHANGED pc
          ELSE pc' = "failed" /\ UNCHANGED <<frames, copied, seq, pos>>
    /\ UNCHANGED <<tree, entries, header, idx, opened, restored, budget>>

(* mutant: no look past the scanned size *)
CopiedFileUnprobed ==
    /\ pc = "copy" /\ pos = Cur.size
    /\ pc' = "open" /\ NextEntry
    /\ UNCHANGED <<tree, entries, container, seq, opened, copied, restored, budget>>

(* one more byte is asked for: a file that grew ends the lock *)
CopiedFile ==
    /\ pc = "copy" /\ pos = Cur.size
    /\ IF Len(tree[Cur.path].bytes) > pos
       THEN pc' = "failed" /\ UNCHANGED <<idx, pos>>
       ELSE pc' = "open" /\ NextEntry
    /\ UNCHANGED <<tree, entries, container, seq, opened, copied, restored, budget>>

(* flush and sync_all; lock_folder commits the file *)
Written ==
    /\ pc = "open" /\ idx > Len(entries)
    /\ pc' = "stored"
    /\ UNCHANGED <<tree, entries, container, idx, pos, seq, opened, copied, restored, budget>>

(* any write may fail, and that of too long a manifest does: no container  *)
(* comes of it                                                             *)
WriteFails ==
    /\ pc \in Writing
    /\ pc' = "failed"
    /\ UNCHANGED <<tree, entries, container, idx, pos, seq, opened, copied, restored, budget>>

-----------------------------------------------------------------------------
(* The user works in the folder while it is being locked. *)

(* a file is written over: other bytes, more or fewer *)
EditFile ==
    /\ pc \in Writing /\ edits < MaxEdits
    /\ \E p \in Of("file"), new \in Edits : tree' = [tree EXCEPT ![p].bytes = new]
    /\ edits' = edits + 1
    /\ UNCHANGED <<entries, container, pc, idx, pos, seq, opened, copied, restored, damage>>

(* a file goes that the copy loop does not hold open *)
RemoveFile ==
    /\ pc \in {"create", "open"} /\ edits < MaxEdits
    /\ \E p \in Of("file") :
         tree' = [q \in DOMAIN tree \ {p} |-> tree[q]]
    /\ edits' = edits + 1
    /\ UNCHANGED <<entries, container, pc, idx, pos, seq, opened, copied, restored, damage>>

-----------------------------------------------------------------------------
(* The container changes before it is opened. *)

Cut(k) == [frames[k] EXCEPT !.cut = TRUE]

(* the file ends early, on a frame boundary or inside a frame; before      *)
(* sync_all this is what a dying process leaves                            *)
Truncate ==
    /\ pc \in (Writing \ {"create"}) \cup {"stored"}
    /\ \/ \E k \in 0..Len(frames) : frames' = SubSeq(frames, 1, k)
       \/ \E k \in DOMAIN frames : frames' = Append(SubSeq(frames, 1, k - 1), Cut(k))
    /\ pc' = "stored"
    /\ UNCHANGED header

Rearrange ==
    /\ pc = "stored"
    /\ \E j, k \in DOMAIN frames :
         \/ j < k /\ frames' = [frames EXCEPT ![j] = frames[k], ![k] = frames[j]]
         \/ j < k /\ frames' = [frames EXCEPT ![k] = frames[j]]
         \/ frames' = [frames EXCEPT ![k] = OtherFrame(k)]
         \/ frames' = [frames EXCEPT ![k].intact = FALSE]
         \/ frames' = SubSeq(frames, 1, k - 1) \o SubSeq(frames, k + 1, Len(frames))
         \/ frames' = Append(frames, OtherFrame(k))
    /\ UNCHANGED <<pc, header>>

AlterHeader ==
    /\ pc = "stored"
    /\ \/ header' = [header EXCEPT !.magic = FALSE]
       \/ \E v \in {"valid", "outside"} : header' = [header EXCEPT !.kdf = v]
       \/ header' = [header EXCEPT !.salt = Other]
       \/ header' = [header EXCEPT !.uuid = Other]
       \/ header' = [header EXCEPT !.pw.intact = FALSE]
       \/ header' = [header EXCEPT !.mk = wrap_key(MasterKey, Other)]
       \/ header' = [header EXCEPT !.count = @ + 1]
    /\ UNCHANGED <<pc, frames>>

Damage ==
    /\ damage < MaxDamage
    /\ damage' = damage + 1
    /\ Truncate \/ Rearrange \/ AlterHeader
    /\ UNCHANGED <<tree, entries, idx, pos, seq, opened, copied, restored, edits>>

-----------------------------------------------------------------------------
(* unlock_container *)

(* from_bytes: are magic and version in order?  The HMAC only decides on   *)
(* the lockout fields.                                                     *)
HeaderParses(h) == h.magic

(* validate: derive_kek takes no parameters outside its bounds *)
validate(kdf) == kdf # "outside"

(* the data keys the right password and the right code get out of a header; *)
(* open_dk is tried only where a master key is enrolled                     *)
DataKeys(h) ==
    IF HeaderParses(h)
    THEN (IF validate(h.kdf) THEN unwrap_key(derive_kek(h), h.pw) ELSE {})
             \cup unwrap_key(MasterKey, h.mk)
    ELSE {}

(* the manifest frame, under the data key *)
ManifestOpens(dk) ==
    /\ read_frame(1, MAX_MANIFEST_LEN)
    /\ open_in_place(dk, header.uuid, MANIFEST_SEQ, frames[1])
    /\ Len(frames[1].plain) = header.count

Open ==
    /\ pc = "stored"
    /\ \/ /\ opened' \in DataKeys(header)
          /\ ManifestOpens(opened')
          /\ entries' = frames[1].plain
          /\ pc' = "extract"
          /\ idx' = 1 /\ pos' = 0 /\ seq' = 0
       \/ /\ DataKeys(header) = {} \/ \E k \in DataKeys(header) : ~ManifestOpens(k)
          /\ pc' = "refused"
          /\ UNCHANGED <<entries, idx, pos, seq, opened>>
    /\ UNCHANGED <<tree, container, copied, restored, budget>>

ExtractDir ==
    /\ pc = "extract" /\ idx <= Len(entries) /\ Cur.is_dir
    /\ safe_join(Cur.path)
    /\ restored' = [restored EXCEPT !.dirs = @ \cup {Cur.path}]
    /\ NextEntry
    /\ UNCHANGED <<tree, entries, container, pc, seq, opened, copied, budget>>

(* File::create; then the chunk loop *)
ExtractFile ==
    /\ pc = "extract" /\ idx <= Len(entries) /\ ~Cur.is_dir
    /\ safe_join(Cur.path)
    /\ restored' = [restored EXCEPT !.files =
                      [p \in DOMAIN @ \cup {Cur.path} |-> IF p = Cur.path THEN <<>> ELSE @[p]]]
    /\ pc' = "chunk"
    /\ UNCHANGED <<tree, entries, container, idx, pos, seq, opened, copied, budget>>

(* the next frame, behind the manifest, and what it must be *)
FrameOpens ==
    /\ read_frame(seq + 2, CHUNK_SIZE)
    /\ open_in_place(opened, header.uuid, seq, frames[seq + 2])
    /\ Len(frames[seq + 2].plain) = NextChunk(Cur.size - pos)

ExtractChunk ==
    /\ pc = "chunk" /\ pos < Cur.size
    /\ FrameOpens
    /\ restored' = [restored EXCEPT !.files[Cur.path] = @ \o frames[seq + 2].plain]
    /\ seq' = seq + 1
    /\ pos' = pos + NextChunk(Cur.size - pos)
    /\ UNCHANGED <<tree, entries, container, pc, idx, opened, copied, budget>>

ExtractedFile ==
    /\ pc = "chunk" /\ pos = Cur.size
    /\ pc' = "extract" /\ NextEntry
    /\ UNCHANGED <<tree, entries, container, seq, opened, copied, restored, budget>>

(* mutant: a frame that does not open is tried again and again *)
ExtractRefusesPath ==
    /\ pc = "extract" /\ idx <= Len(entries) /\ ~safe_join(Cur.path)
    /\ pc' = "refused"
    /\ UNCHANGED <<tree, entries, container, idx, pos, seq, opened, copied, restored, budget>>

(* a path, a frame or a length that is not in order: Tampered *)
ExtractRefuses ==
    /\ \/ pc = "extract" /\ idx <= Len(entries) /\ ~safe_join(Cur.path)
       \/ pc = "chunk" /\ pos < Cur.size /\ ~FrameOpens
    /\ pc' = "refused"
    /\ UNCHANGED <<tree, entries, container, idx, pos, seq, opened, copied, restored, budget>>

(* what follows the last frame is not looked at *)
Extracted ==
    /\ pc = "extract" /\ idx > Len(entries)
    /\ pc' = "restored"
    /\ UNCHANGED <<tree, entries, container, idx, pos, seq, opened, copied, restored, budget>>

-----------------------------------------------------------------------------
(* verify_structure: header, manifest frame, then frames up to the end *)
verify_structure ==
    /\ HeaderParses(header)
    /\ read_frame(1, MAX_MANIFEST_LEN)
    /\ \A k \in 2..Len(frames) : read_frame(k, CHUNK_SIZE)

Write == \/ Scan \/ Create \/ OpenFile \/ CopyChunk \/ CopiedFile \/ Written
         \/ WriteFails

Read == \/ Open \/ ExtractDir \/ ExtractFile \/ ExtractChunk \/ ExtractedFile
        \/ ExtractRefuses \/ Extracted

Next == Write \/ Read \/ EditFile \/ RemoveFile \/ Damage

(* Lock and unlock run on; nobody need edit or damage anything. *)
Spec == Init /\ [][Next]_vars /\ WF_vars(Write \/ Read)

-----------------------------------------------------------------------------
(* Properties *)

(* Positions stay inside the entry, the entry inside the manifest.         *)
TypeOK ==
    /\ pc \in Labels
    /\ idx \in 1..(Len(entries) + 1)
    /\ pos \in Nat /\ (idx <= Len(entries) => pos <= Cur.size)
    /\ seq \in Nat
    /\ edits \in 0..MaxEdits /\ damage \in 0..MaxDamage

(* what was locked into the container with that data key *)
LockedIn(dk) ==
    IF dk = This THEN copied
    ELSE [copied EXCEPT !.files = [p \in DOMAIN @ |-> OtherBytes(@[p])]]

(* Whatever happened to the container, an unlock that succeeds creates     *)
(* exactly the directories, files and bytes that one lock recorded, the    *)
(* one whose data key it opened: frames that are cut off, swapped,         *)
(* repeated, altered or taken from elsewhere and header fields that were   *)
(* changed are refused (extract_entries, open_in_place).                   *)
ExtractExact == pc = "restored" => restored = LockedIn(opened)

(* What scan saw, read back as it was if nobody touched the folder: the    *)
(* round trip of write_container and extract_entries, for empty files and  *)
(* for sizes on both sides of a chunk boundary.  (The data key is that of  *)
(* this container, not of another one put in its place.)                   *)
RoundTrip ==
    pc = "restored" /\ edits = 0 /\ opened = This =>
        /\ restored.dirs = Of("dir")
        /\ restored.files = [p \in Of("file") |-> tree[p].bytes]

(* A folder that locks can be unlocked: a container nobody touched is      *)
(* accepted by verify_structure and never refused by extract_entries.      *)
LockedOpens ==
    damage = 0 => pc # "refused" /\ (pc = "stored" => verify_structure)

(* "the container would hold a truncated copy while lock reports success": *)
(* when the copy loop leaves a file, nothing of the file as it is at that  *)
(* moment lies past the end of the copy, however it grew since the scan.   *)
NoTruncatedCopy ==
    [][pc = "copy" /\ pc' = "open"
        => Len(copied.files[Cur.path]) >= Len(tree[Cur.path].bytes)]_vars

(* Copying ends although the user keeps writing, and extraction ends       *)
(* whatever the frames hold.                                               *)
Ends == <>[](pc \in Ended)

=============================================================================
