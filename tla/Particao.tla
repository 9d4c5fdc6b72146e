------------------------------- MODULE Particao -------------------------------
(***************************************************************************)
(* The way three of the programs (threads/ex1.c, threads/ex2.c, ex4.c)     *)
(* share n elements among k workers: worker 0 takes n/k + n%k of them,     *)
(* each of the others n/k, starting where the one before it ends.          *)
(***************************************************************************)
EXTENDS Integers

\* The slice of worker 0.
Primeira(n, k) == [inicio |-> 0, fim |-> (n \div k) + (n % k)]

\* The slice of a worker, from the end of the slice before it.
Seguinte(n, k, anterior) == [inicio |-> anterior, fim |-> anterior + (n \div k)]

\* What a worker goes through: inicio <= e < fim.
Elementos(f) == f.inicio .. (f.fim - 1)

\* Reference: where the slice of worker t ends.
FimDe(n, k, t) == (n % k) + (t + 1) * (n \div k)
=============================================================================
