-------------------------------- MODULE Modules --------------------------------
(***************************************************************************)
(* The modules of a node as the kernel services see them: which ids the    *)
(* registry of kernel/sched.c knows.  Registry.tla models how the registry *)
(* itself works; here ker_get_module(m) is simply m \in live.              *)
(***************************************************************************)
EXTENDS Naturals, FiniteSets, Sequences, FiniteSetsExt

CONSTANTS Module,    \* Ids of the modules.
          Kernel,    \* The static kernel modules among them: they stay.
          NULL_PID   \* No module.

ASSUME ModulesAssumption == Kernel \subseteq Module /\ NULL_PID \notin Module

VARIABLE live        \* The modules on the chains of mod_bin.
================================================================================
