---------------------------- MODULE MCDaemonHost ----------------------------
(***************************************************************************)
(* Daemon, ServiceInstall and Startup for TLC: three questions about the   *)
(* processes and files of one host.  A behaviour exercises one of them,    *)
(* and the other two stay in an initial state.                             *)
(***************************************************************************)
EXTENDS Daemon, ServiceInstall, Startup

\* The repository's build supports config version 2 and schema version 1; the
\* second one stands for a successor.
MCBuilds == <<[config |-> 2, db |-> 1], [config |-> 3, db |-> 2]>>

VARIABLE part   \* the module this behaviour exercises

MCInit ==
    /\ Init /\ ServiceInit /\ StartupInit
    /\ \/ part = "daemon" /\ backend = "systemd" /\ doc = NoFile
       \/ part = "service" /\ doc = NoFile
       \/ part = "startup" /\ backend = "systemd"

DaemonPart == part = "daemon" /\ Next /\ UNCHANGED <<part, serviceVars, startupVars>>
ServicePart == part = "service" /\ ServiceNext /\ UNCHANGED <<part, vars, startupVars>>
StartupPart == part = "startup" /\ StartupNext /\ UNCHANGED <<part, vars, serviceVars>>

MCSpec == MCInit /\ [][DaemonPart \/ ServicePart \/ StartupPart]_<<part, vars, serviceVars, startupVars>>
=============================================================================
