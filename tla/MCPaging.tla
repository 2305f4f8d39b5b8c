------------------------------ MODULE MCPaging ------------------------------
(* Paging, scaled down for TLC: tables of 18 entries.                    *)
EXTENDS Paging

Header(load, vaddr, pages, offset) ==
  [load |-> load, vaddr |-> vaddr, memsz |-> pages, offset |-> offset]

\* one segment of two pages behind a header that is not loaded; two segments;
\* and a file that is no program
ProgramFiles ==
  {[valid |-> TRUE, headers |-> <<Header(FALSE, 0, 0, 0), Header(TRUE, 17, 2, 40)>>],
   [valid |-> TRUE, headers |-> <<Header(TRUE, 20, 1, 50), Header(TRUE, 21, 1, 51)>>],
   [valid |-> FALSE, headers |-> <<>>]}
=============================================================================
