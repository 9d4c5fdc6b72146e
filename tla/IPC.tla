---------------------------------- MODULE IPC ----------------------------------
(***************************************************************************)
(* What the three programs of IPC/ name alike: a mutex, which is a binary  *)
(* semaphore or a pthread mutex, and the loop variable of main.  They are  *)
(* declared here so that one module can extend all three programs.  For    *)
(* the same reason what every specification has (Init, Next, TypeOK, ...)  *)
(* has the letter M before its name in MonitorFilosofo and L in            *)
(* LeitorEscritor; so has CopiaArquivo a C and Shell an Sh.                *)
(***************************************************************************)
VARIABLES mutex, i
================================================================================
