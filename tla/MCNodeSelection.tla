--------------------------- MODULE MCNodeSelection ---------------------------
(* NodeSelection with three nodes on a line and clients near to each and    *)
(* halfway between two.                                                    *)
EXTENDS NodeSelection

MCNodeIds == 1..3

MCDistance ==
    <<[west |-> 0, middle |-> 1, east |-> 4],
      [west |-> 2, middle |-> 1, east |-> 2],
      [west |-> 4, middle |-> 3, east |-> 0]>>

List(n, m) == [nodes |-> n, masters |-> m]

MCLists == {List(<<1, 2>>, {1}), List(<<2, 3>>, {2}), List(<<1, 2, 3>>, {2}),
            List(<<3, 1>>, {})}
=============================================================================
