------------------------------ MODULE MCDeploy ------------------------------
(* Deploy for TLC, and a statement of the repository it does not keep.      *)
EXTENDS Deploy

\* The clean-up "kills all deployed servers" (docs/CRITERIA_AUDIT.md:51);
\* "workers are identified by a PID file [...]; the cleanup step kills via
\* PID" (docs/report/REPORT.md:372): when run() has returned, no worker is left on
\* a host that was handed to the coordinator.
CleanupStopsWorkers == pc = "exit" => \A h \in touched : job[h] # "up"
=============================================================================
