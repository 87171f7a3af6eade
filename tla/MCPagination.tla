---------------------------- MODULE MCPagination ----------------------------
(* A list by creation that retains two pages of one row, of four rows. *)
EXTENDS Pagination

FourRows == 1 .. 4
ByCreation == {"CREATED_AT"}
=============================================================================
