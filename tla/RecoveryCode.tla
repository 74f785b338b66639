---------------------------- MODULE RecoveryCode -----------------------------
(***************************************************************************)
(* The recovery code (recovery.rs): a secret of 256 bits as 52 characters  *)
(* of Crockford base32 and 4 characters of a checksum, copied by hand, and *)
(* typed into the unlock dialog some day with what people do to codes.     *)
(*                                                                         *)
(* A character is its code point, a byte a number below 256.  The          *)
(* accumulators are numbers modulo 2^AccBits (u32 in the code).            *)
(***************************************************************************)
EXTENDS Integers, SequencesExt

CONSTANTS
    SECRET_BYTES,      \* 32
    CODE_DATA_CHARS,   \* 52
    CODE_CHECK_CHARS,  \* 4
    AccBits,           \* width of the accumulators
    Digest(_),         \* the first three bytes of SHA-256
    Secrets,           \* secrets random_bytes may give
    Typos,             \* characters that get into a code by mistake
    MaxEdits           \* bound on what the user does to a code

ASSUME SizeAssumption ==
    /\ SECRET_BYTES \in Nat \ {0} /\ CODE_DATA_CHARS \in Nat /\ CODE_CHECK_CHARS \in Nat
    /\ 5 * (CODE_DATA_CHARS - 1) < 8 * SECRET_BYTES
    /\ 8 * SECRET_BYTES <= 5 * CODE_DATA_CHARS
    /\ 5 * (CODE_CHECK_CHARS - 1) < 24
ASSUME AccAssumption == 2^AccBits \in Nat \ {0} /\ 2^AccBits % 4096 = 0
ASSUME SecretAssumption ==
    \A s \in Secrets : s \in [1..SECRET_BYTES -> 0..255] /\ Digest(s) \in [1..3 -> 0..255]
ASSUME TyposAssumption == Typos \subseteq Nat

VARIABLES
    secret,  \* what generate drew
    typed,   \* the code as it is typed
    edits,   \* changes so far
    faulty,  \* has one of them changed more than the spelling?
    result   \* what decode_code made of it: pending, none, or a secret

vars == <<secret, typed, edits, faulty, result>>

Pending == <<"pending">>
None    == <<"none">>

CROCKFORD ==
    <<48, 49, 50, 51, 52, 53, 54, 55, 56, 57,  \* 0-9
      65, 66, 67, 68, 69, 70, 71, 72,          \* A-H
      74, 75, 77, 78,                          \* J K M N
      80, 81, 82, 83, 84,                      \* P-T
      86, 87, 88, 89, 90>>                     \* V-Z
Dash  == 45
Space == 32

Char(v) == CROCKFORD[v + 1]

Min2(a, b) == IF a < b THEN a ELSE b

Acc(n) == n % 2^AccBits

Start == [acc |-> 0, bits |-> 0, out |-> <<>>]

(* one byte of encode_base32: all the characters there are bits for *)
EncodeByte(s, b, n) ==
    LET acc  == Acc(s.acc * 256 + b)
        bits == s.bits + 8
        k    == Min2(bits \div 5, n - Len(s.out))
    IN  [acc  |-> acc,
         bits |-> bits - 5 * k,
         out  |-> s.out \o [j \in 1..k |-> Char((acc \div 2^(bits - 5 * j)) % 32)]]

(* mutant: the last bits stay right-aligned *)
FlushRight(s, n) ==
    IF Len(s.out) < n THEN Append(s.out, Char(s.acc % 2^s.bits)) ELSE s.out

(* remaining bits, left-aligned *)
Flush(s, n) ==
    IF Len(s.out) < n
    THEN Append(s.out, Char(Acc(s.acc * 2^(5 - s.bits)) % 32)) ELSE s.out

encode_base32(bytes, n) ==
    LET K[i \in 0..Len(bytes)] ==
            IF i = 0 THEN Start ELSE EncodeByte(K[i - 1], bytes[i], n)
    IN  Flush(K[Len(bytes)], n)

CheckGroup(bytes) == encode_base32(Digest(bytes), CODE_CHECK_CHARS)

(* groups of four with dashes between them *)
Grouped(chars) ==
    [i \in 1..(Len(chars) + (Len(chars) - 1) \div 4) |->
        IF i % 5 = 0 THEN Dash ELSE chars[i - i \div 5]]

encode_code(bytes) == Grouped(encode_base32(bytes, CODE_DATA_CHARS) \o CheckGroup(bytes))

-----------------------------------------------------------------------------
(* decode_code *)

to_ascii_uppercase(c) == IF c \in 97..122 THEN c - 32 ELSE c

(* mutant: only L is read as one *)
UnambiguousHalf(c) == CASE c = 76 -> 49 [] c = 79 -> 48 [] OTHER -> c

(* I and L are ones, O is a zero *)
Unambiguous(c) == CASE c \in {73, 76} -> 49 [] c = 79 -> 48 [] OTHER -> c

(* `position`, of c as u8: 0 stands for no such character *)
Position(c) ==
    SelectInSeq(CROCKFORD, LAMBDA a : a = Unambiguous(to_ascii_uppercase(c)) % 256)

(* the characters that are not skipped, as their positions *)
Positions(code) ==
    LET K[i \in 0..Len(code)] ==
            IF i = 0 THEN <<>>
            ELSE IF code[i] \in {Dash, Space} THEN K[i - 1]
            ELSE Append(K[i - 1], Position(code[i]))
    IN  K[Len(code)]

(* one character of the data part: at most one byte comes of it *)
DecodeChar(s, v) ==
    LET acc  == Acc(s.acc * 32 + v)
        bits == s.bits + 5
    IN  IF bits < 8 THEN [s EXCEPT !.acc = acc, !.bits = bits]
        ELSE [acc |-> acc, bits |-> bits - 8,
              out |-> IF Len(s.out) < SECRET_BYTES
                      THEN Append(s.out, (acc \div 2^(bits - 8)) % 256) ELSE s.out]

Decoded(vals) ==
    LET K[i \in 0..CODE_DATA_CHARS] ==
            IF i = 0 THEN Start ELSE DecodeChar(K[i - 1], vals[i] - 1)
    IN  K[CODE_DATA_CHARS].out

(* mutant: the checksum is not looked at *)
decode_code_unchecked(code) ==
    LET vals == Positions(code)
    IN  IF (\E i \in DOMAIN vals : vals[i] = 0)
             \/ Len(vals) # CODE_DATA_CHARS + CODE_CHECK_CHARS
        THEN None ELSE Decoded(vals)

decode_code(code) ==
    LET vals  == Positions(code)
        bytes == Decoded(vals)
        got   == [i \in 1..CODE_CHECK_CHARS |-> CROCKFORD[vals[CODE_DATA_CHARS + i]]]
    IN  IF \/ \E i \in DOMAIN vals : vals[i] = 0
           \/ Len(vals) # CODE_DATA_CHARS + CODE_CHECK_CHARS
           \/ Len(bytes) # SECRET_BYTES
           \/ got # CheckGroup(bytes)
        THEN None ELSE bytes

-----------------------------------------------------------------------------
Init ==
    /\ secret \in Secrets
    /\ typed = encode_code(secret)
    /\ edits = 0 /\ faulty = FALSE /\ result = Pending

Edit(new, fault) ==
    /\ result = Pending /\ edits < MaxEdits /\ edits' = edits + 1
    /\ typed' = new
    /\ faulty' = (faulty \/ fault)
    /\ UNCHANGED <<secret, result>>

(* other spellings of a character *)
Spellings(c) ==
    (IF c \in 65..90 THEN {c + 32} ELSE {})
        \cup (IF c = 49 THEN {73, 76, 105, 108} ELSE {})
        \cup (IF c = 48 THEN {79, 111} ELSE {})

Respell == \E i \in DOMAIN typed : \E c \in Spellings(typed[i]) : Edit(ReplaceAt(typed, i, c), FALSE)

(* everything in lower case *)
Lowercase == Edit([i \in DOMAIN typed |-> IF typed[i] \in 65..90 THEN typed[i] + 32 ELSE typed[i]], FALSE)

(* separators come and go *)
Separate ==
    \/ \E i \in DOMAIN typed : Edit(InsertAt(typed, i, Space), FALSE)
    \/ \E i \in DOMAIN typed : typed[i] = Dash /\ Edit(RemoveAt(typed, i), FALSE)

(* a wrong character, one too few or too many, two the wrong way round *)
Mistype ==
    \E i \in DOMAIN typed :
        \/ \E c \in Typos : Edit(ReplaceAt(typed, i, c), TRUE)
        \/ Edit(RemoveAt(typed, i), TRUE)
        \/ Edit(InsertAt(typed, i, typed[i]), TRUE)
        \/ i < Len(typed) /\ Edit([typed EXCEPT ![i] = typed[i + 1], ![i + 1] = typed[i]], TRUE)

(* open_dk *)
Submit ==
    /\ result = Pending
    /\ result' = decode_code(typed)
    /\ UNCHANGED <<secret, typed, edits, faulty>>

Next == Respell \/ Lowercase \/ Separate \/ Mistype \/ Submit

Spec == Init /\ [][Next]_vars

-----------------------------------------------------------------------------
(* Properties *)

(* generate's code opens what it sealed, in whatever case, spacing and     *)
(* with whichever of the look-alikes I, L, O it is typed (the test         *)
(* code_roundtrip_with_formatting_noise, for every place of the noise).    *)
RoundTrip == result # Pending /\ ~faulty => result = secret

(* Bit i of a sequence of bytes, most significant first; zero past the end *)
Bit(bytes, i) ==
    IF i >= 8 * Len(bytes) THEN 0
    ELSE (bytes[i \div 8 + 1] \div 2^(7 - (i % 8))) % 2

Quintet(bytes, j) ==
    16 * Bit(bytes, 5 * j) + 8 * Bit(bytes, 5 * j + 1) + 4 * Bit(bytes, 5 * j + 2)
      + 2 * Bit(bytes, 5 * j + 3) + Bit(bytes, 5 * j + 4)

(* encode_base32 against its definition: character j holds bits 5j to      *)
(* 5j + 4 of the secret, the last one padded with zeros, although the      *)
(* accumulator has long lost the bits that were shifted out of it.         *)
CodeIsBits ==
    edits = 0 =>
        \A j \in 0 .. CODE_DATA_CHARS - 1 :
            encode_base32(secret, CODE_DATA_CHARS)[j + 1] = Char(Quintet(secret, j))

(* bits of the last data character that hold nothing *)
PadBits == 5 * CODE_DATA_CHARS - 8 * SECRET_BYTES

(* decode_code never takes a code for another one: what it accepts reads,  *)
(* character for character, like the code of the secret it returns; only   *)
(* in the unused bits of the last data character may it differ.            *)
AcceptedIsACode ==
    result \notin {Pending, None} =>
        LET read == Positions(typed)
            code == Positions(encode_code(result))
        IN  /\ Len(read) = Len(code)
            /\ \A i \in DOMAIN read :
                 \/ read[i] = code[i]
                 \/ i = CODE_DATA_CHARS /\ (read[i] - 1) \div 2^PadBits = (code[i] - 1) \div 2^PadBits

=============================================================================
