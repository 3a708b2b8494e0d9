--------------------------- MODULE MCCampaignBlast ---------------------------
(* Values for the constants of CampaignBlast that the .cfg files share.      *)
EXTENDS CampaignBlast

\* Everything a user and the recovery task can do.
EveryOp == AllOps

\* Everything that can go wrong short of a send that arrives unacknowledged.
EveryFault == AllFaults \ {"late"}

\* Text campaigns and campaigns with a picture.
TextAndMedia == BOOLEAN
=============================================================================
