-------------------------- MODULE MCFileDataSource --------------------------
(* A small instance of FileDataSource. *)
EXTENDS FileDataSource

CONSTANTS p1, p2, l1, l2

MCPaths == <<p1, p2>>
=============================================================================
