----------------------------- MODULE MCDialog -------------------------------
(* Instances of Dialog for TLC. *)
EXTENDS Dialog

(* containers as their first attempts leave them: untouched, two wrong     *)
(* passwords, locked out for two more ticks; and those another install     *)
(* made, or a rewrite left that was cut short                              *)
SomeHeaders ==
    {[lock |-> l, signed |-> g, enrolled |-> e] :
        l \in {Clear, [fail |-> MaxAttempts - 1, until |-> 0],
               [fail |-> MaxAttempts, until |-> 2]},
        g \in BOOLEAN, e \in BOOLEAN}

=============================================================================
