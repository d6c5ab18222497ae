---------------------------- MODULE MCDeployment ----------------------------
(* Small instances of Deployment for TLC. *)
EXTENDS Deployment, TLC

\* Several replicas are for PostgreSQL only: a JSON file is for local development.
ReplicatedInit == Init /\ postgres = TRUE
ReplicatedSpec == ReplicatedInit /\ [][Next]_vars
=============================================================================
