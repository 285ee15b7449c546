------------------------------- MODULE MCHook -------------------------------
(* Values of the constants of Hook for TLC: the functions of ld and libc that *)
(* ooops.c registers, with the alias open64, a function libc does not have,   *)
(* and a module that is far from the two.                                     *)
EXTENDS Hook, TLC

CONSTANTS ld, libc, exe, open, open64, getcwd, a1, a2, a3, a4, w1, w2, w3,
          p1, p2, p3

MCAddress ==
    ld   :> (open :> a1   @@ open64 :> a1   @@ getcwd :> None) @@
    libc :> (open :> a2   @@ open64 :> a2   @@ getcwd :> a3) @@
    exe  :> (open :> None @@ open64 :> None @@ getcwd :> a4)

MCNear == {<<m, n>> \in Module \X Module : m = exe <=> n = exe}

Ask(m, f, w, p) == [mod |-> m, func |-> f, new |-> w, ptr |-> p]

MCRequest == {Ask(ld, open, w1, p1), Ask(ld, open64, w1, p1),
              Ask(ld, getcwd, w3, p3), Ask(libc, open, w2, p2),
              Ask(libc, open64, w3, p2), Ask(libc, getcwd, w3, p3),
              Ask(exe, getcwd, w1, p3)}

=============================================================================
