------------------------------ MODULE MCSeedData ------------------------------
(* Values of the constants of SeedData for TLC.                               *)
EXTENDS SeedData

CONSTANTS s1, s2, s3, c1, c2
===============================================================================
