------------------------------ MODULE MCRunDaily ------------------------------
(* RunDaily on a small instance: see the cfg files.                           *)
EXTENDS RunDaily

MCPosts == 1..2
=============================================================================
