--------------------------- MODULE MCContainerFile ---------------------------
(* Instances of ContainerFile for TLC: chunks of two bytes, files of none   *)
(* to three, so that every position about a chunk boundary occurs.          *)
EXTENDS ContainerFile, TLC

f == <<"f">>
g == <<"d", "g">>
d == <<"d">>

MCNames == {"f", "d", "g", "l", "wild", "repl", "con"}
MCClass == [n \in MCNames |-> IF n = "con" THEN "reserved" ELSE "plain"]
(* a name that is not valid Unicode is recorded with the replacement sign *)
MCLossy == [n \in MCNames |-> IF n = "wild" THEN "repl" ELSE n]

Bytes(v) == {[k \in 1..n |-> v] : n \in 0..3}
File(bytes) == [kind |-> "file", bytes |-> bytes]
Dir == [kind |-> "dir", bytes |-> <<>>]
Link == [kind |-> "link", bytes |-> <<>>]

TwoFiles ==
    {f :> File(x) @@ d :> Dir @@ g :> File(y) : x \in Bytes(0), y \in {<<>>, <<1, 1>>}}
OddTrees ==
    { d :> Dir,
      \* one entry more than the manifest has room for
      f :> File(<<0>>) @@ d :> Dir @@ <<"d", "d">> :> Dir @@ <<"d", "f">> :> File(<<>>),
      f :> File(<<0>>) @@ <<"l">> :> Link,
      f :> File(<<0>>) @@ <<"wild">> :> File(<<1>>),
      f :> File(<<0>>) @@ <<"con">> :> Dir @@ <<"con", "g">> :> File(<<1>>) }
SafeTrees == TwoFiles \cup OddTrees

(* an empty directory under a name is_safe_component turns down *)
EmptyUnsafeDir == { f :> File(<<0>>) @@ <<"con">> :> Dir }

NewBytes == {[k \in 1..n |-> 2] : n \in 0..3}

=============================================================================
