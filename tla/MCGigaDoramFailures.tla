------------------------ MODULE MCGigaDoramFailures ------------------------
(* Instances of GigaDoramFailures for TLC.                                 *)
EXTENDS GigaDoramFailures, MCGigaDoram
=============================================================================
