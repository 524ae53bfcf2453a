----------------------------- MODULE MCAllocate -----------------------------
(***************************************************************************)
(* Small instances of Allocate: eight addresses, and CIDRs that begin at   *)
(* the first or end at the last of them.                                   *)
(***************************************************************************)
EXTENDS Allocate

\* The blocks of one, two, four and eight addresses.
Block(first, size) == [first |-> first, last |-> first + size - 1]

Blocks ==
  UNION {{Block(n * size, size) : n \in 0 .. ((MaxIP + 1) \div size) - 1} : size \in {1, 2, 4, 8}}

Whole == Block(0, 8)
Upper == Block(4, 4)
Link  == Block(6, 2)
Last  == Block(7, 1)

AnySize   == {Whole, Upper, Link, Last}

\* Lists of exclusions: nested, adjacent, overlapping the ends.
Omits == {<<>>, <<Block(4, 2), Block(6, 2)>>, <<Block(4, 4), Block(3, 1)>>,
          <<Block(5, 1), Block(4, 4)>>}

Conf(start, end, l3, omit, pick, preferred) ==
  [RangeStart |-> start, RangeEnd |-> end, L3 |-> l3, OmitRanges |-> omit,
   PickAddresses |-> pick, PreferredIP |-> preferred]

\* Searches, with every combination of bounds and exclusions.
Searches ==
  {Conf(start, end, l3, omit, <<>>, Nil) :
     start \in {Nil, 2, 5, 7}, end \in {Nil, 1, 6}, l3 \in BOOLEAN, omit \in Omits}

\* Calls of several networks on one pool: preferred addresses inside and
\* outside the pool, pick lists, an exclusion that does not parse.
Mixed ==
  {Conf(Nil, 6, l3, omit, pick, preferred) :
     l3 \in BOOLEAN, omit \in {<<Block(5, 1)>>, <<Block(4, 2), Unparsed>>},
     pick \in {<<>>, <<6, 2, 4, 5>>}, preferred \in {Nil, 0, 3, 5}}

Calls == Searches \cup Mixed
=============================================================================
