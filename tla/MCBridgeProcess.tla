--------------------------- MODULE MCBridgeProcess ---------------------------
EXTENDS BridgeProcess

\* A complete write-multiple PDU; a read; a write-single.
W(addr, qty) == [fn |-> 16, len |-> 6 + 2 * qty, addr |-> addr, qty |-> qty, bc |-> 2 * qty]
R(addr, qty) == [fn |-> 3, len |-> 5, addr |-> addr, qty |-> qty, bc |-> 0]
S(addr) == [fn |-> 6, len |-> 5, addr |-> addr, qty |-> 0, bc |-> 0]

RequestsMC ==
  {W(40, 2), W(42, 2), W(42, 4), W(40, 6),                      \* whole fields
   W(40, 3), W(41, 1), W(41, 2), W(43, 3), W(40, 5),            \* parts of fields
   W(44, 4), W(38, 4), W(46, 2), W(0, 2),                       \* unmapped registers
   W(40, 0), W(41, 0), W(46, 0),                                \* empty ranges
   W(65534, 2), W(65530, 52), W(65500, 78), W(65535, 123),      \* over the top
   [W(40, 2) EXCEPT !.bc = 3], [W(40, 2) EXCEPT !.len = 5],
   S(40), S(41), S(46), [S(40) EXCEPT !.len = 4],
   R(0, 4), R(60, 4), R(60, 5), R(65535, 1), R(0, 0), R(0, 126),
   [R(0, 2) EXCEPT !.fn = 4]}
=============================================================================
