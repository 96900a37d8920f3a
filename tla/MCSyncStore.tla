---------------------------- MODULE MCSyncStore -----------------------------
(* Constants for the runs of SyncStore. *)
EXTENDS SyncStore

CONSTANTS k1, v1, v2, c1, c2, w1, w2

MCPaths == Names \cup {Marker}
=============================================================================
