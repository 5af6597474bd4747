-------------------------- MODULE MCCertDirectory --------------------------
(***************************************************************************)
(* CertDirectory for TLC: the API and the agent of docker-compose.yml.     *)
(***************************************************************************)
EXTENDS CertDirectory

CONSTANTS api, agent
=============================================================================
