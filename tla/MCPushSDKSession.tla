-------------------------- MODULE MCPushSDKSession --------------------------
(***************************************************************************)
(* Instances of PushSDKSession for TLC.                                    *)
(***************************************************************************)
EXTENDS PushSDKSession

\* Every database call may fail.
AllSites == Sites

NoSites == {}
=============================================================================
