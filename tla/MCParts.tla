------------------------------ MODULE MCParts ------------------------------
EXTENDS Parts, TLC

\* An object that lies across the end of a chunk (3), one that ends a chunk (0),
\* one that is not written (6), both signs and lengths.
Register(id, type, is_write) ==
  [id |-> id, type |-> type, array_size |-> 1, is_write |-> is_write]
MCRegisters ==
  <<Register(0, "uint32_t", TRUE), Register(3, "int32_t", TRUE),
    Register(5, "int16_t", TRUE), Register(6, "uint16_t", FALSE)>>
MCEntered == (0 :> 9) @@ (3 :> -5) @@ (5 :> -1) @@ (6 :> 2)

\* Sections in order and not, a page without objects, and a table.
Section(type, start, end) == [page_type |-> type, start_index |-> start, end_index |-> end]
MCPages ==
  {<<Section("param_view", 0, 0), Section("label_view", 3, 6)>>,
   <<Section("param_view", 5, 6)>>,
   <<Section("label_view", 5, 6), Section("label_view", 0, 0)>>,
   <<Section("label_view", 1, 2)>>,
   <<[page_type |-> "table_view", start_index |-> 0, row_cnt |-> 1, column_cnt |-> 2],
     Section("label_view", 5, 6)>>}

\* Dense over the borders of bytes, aligned, with a gap, overlapping, and longer
\* than an int.
Signal(start, length, kind) == [start_bit |-> start, bit_length |-> length, kind |-> kind]
MCLayouts ==
  {<<Signal(0, 3, "unsigned"), Signal(3, 9, "signed"), Signal(12, 12, "float")>>,
   <<Signal(0, 8, "unsigned"), Signal(8, 8, "signed")>>,
   <<Signal(0, 4, "unsigned"), Signal(12, 4, "signed")>>,
   <<Signal(0, 8, "unsigned"), Signal(4, 8, "signed")>>,
   <<Signal(0, 14, "unsigned"), Signal(14, 2, "signed")>>}
MCTyped == [unsigned |-> {5, 4095}, signed |-> {-1, -200, 5}, float |-> {2741}]
=============================================================================
