------------------------- MODULE MCDownloadRegistry -------------------------
(* The downloads of one repository on a small instance: two variants, the  *)
(* whole repository, or both.                                              *)
EXTENDS DownloadRegistry

CONSTANTS v1, v2

=============================================================================
