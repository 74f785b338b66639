--------------------------- MODULE MCRecoveryCode ----------------------------
(* RecoveryCode for TLC: secrets of 7 bytes and 12 data characters, of which *)
(* the last holds one bit and four of padding, as with 32 bytes and 52.      *)
EXTENDS RecoveryCode

(* stands for SHA-256: three polynomials of the bytes *)
Poly(bytes, w) == FoldLeft(LAMBDA s, b : (w * s + b + 1) % 256, 0, bytes)
SomeDigest(bytes) == [k \in 1..3 |-> Poly(bytes, 2 * k + 1)]

(* a single bit at the end, a code of ones and zeros, every byte different *)
SomeSecrets == { [i \in 1..7 |-> IF i = 7 THEN 1 ELSE 255],
                 <<8, 66, 16, 132, 1, 0, 0>>,
                 [i \in 1..7 |-> (i * 37 + 11) % 256] }

(* 7, U (not in the alphabet), a dotted capital I (U+0130) *)
SomeTypos == {55, 85, 304}

=============================================================================
