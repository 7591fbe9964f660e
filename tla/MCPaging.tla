------------------------------ MODULE MCPaging ------------------------------
(* Two processes of a few pages, with lists of two entries. *)
EXTENDS Paging
=============================================================================
