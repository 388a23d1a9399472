------------------------------ MODULE MCKernel ------------------------------
(* TLC instances of Kernel: the constants get their values in the .cfg.     *)
EXTENDS Kernel

\* What env_free leaves behind in a slot is overwritten by env_alloc and read
\* by nobody in between, but for the id: states that differ only in the rest
\* are taken as one.
UsedState ==
    LET Of(f) == [e \in Live |-> f[e]]
    IN <<cpuVars, env_status, env_id, Of(env_parent_id), Of(env_runs),
         Of(env_ipc_recving), env_free_list>>
=============================================================================
