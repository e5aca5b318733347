------------------------------ MODULE MCPacket ------------------------------
(***************************************************************************)
(* A small instance of Packet for TLC.                                     *)
(***************************************************************************)
EXTENDS Packet

MCOrganTypes == {"validation", "observation"}
MCBodyTypes == {"repository_verification", "qa_check"}
MCCauses == {"complete", "stalled"}

=============================================================================
