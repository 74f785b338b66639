----------------------------- MODULE MCLockout ------------------------------
(* Instances of Lockout for TLC. *)
EXTENDS Lockout

CONSTANT p1

OneProc == {p1}

(* a container of this install, never attempted *)
OwnHeader == {Signed(Clear)}

(* a container another install has locked out for one or three ticks *)
ForeignHeaders ==
    {[lock |-> [fail |-> MaxAttempts, until |-> t], signed |-> FALSE] : t \in {1, 3}}

AnyHeader == OwnHeader \cup ForeignHeaders

=============================================================================
