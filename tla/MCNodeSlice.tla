---------------------------- MODULE MCNodeSlice ----------------------------
(***************************************************************************)
(* Instances of NodeSlice for TLC.                                         *)
(***************************************************************************)
EXTENDS NodeSlice, TLC

CONSTANTS net, r1, r2, r3, d1

Sliced2 == [kind |-> "sliced", net |-> net, range |-> r1, size |-> 1]
Renumbered == [kind |-> "sliced", net |-> net, range |-> r2, size |-> 1]
Moved == [kind |-> "sliced", net |-> Unnamed, range |-> r2, size |-> 1]
Other == [kind |-> "other", net |-> Unnamed, range |-> r1, size |-> 0]
Bad == [kind |-> "bad", net |-> Unnamed, range |-> r1, size |-> 0]
Half == [kind |-> "sliced", net |-> net, range |-> r3, size |-> 1]

\* Two ranges of two addresses and two slices; the third range is the upper half
\* of the first.
Subnets2(range, size) == IF range = r1 THEN <<{1}, {2}>> ELSE IF range = r2 THEN <<{3}, {4}>> ELSE <<{2}>>

AllConfs == {Sliced2, Renumbered, Moved, Other, Bad, Half}

\* Two nodes of three, one NAD and two pods.
Plain == [start |-> {1, 2}, nodes |-> Nodes, stalePools |-> TRUE, rejoin |-> FALSE, nads |-> {d1},
          confs |-> {Sliced2}, pods |-> Pods, edits |-> 1, moves |-> 2, faults |-> 0]

\* Nodes come and go while pods attach and run, and compete for one slice.
Moving == [Plain EXCEPT !.start = {1}, !.nodes = {1, 2}, !.confs = {Half}]
\* The same, and nodes come back.
Returning == [Moving EXCEPT !.start = {1, 2}, !.stalePools = FALSE, !.rejoin = TRUE]
\* A range is sliced anew while pods run.
Anew == [Plain EXCEPT !.nodes = {1, 2}, !.stalePools = FALSE, !.confs = {Sliced2, Half}, !.edits = 2, !.moves = 0]
\* NADs are created, edited, broken, moved between pools and deleted.
Editing == [Plain EXCEPT !.start = {1}, !.nodes = {1, 2}, !.nads = NADs, !.confs = AllConfs \ {Half}, !.pods = {},
                         !.edits = 2, !.moves = 1]
\* The same with a failed request or a restart, and pools read as last written.
Reslicing == [Editing EXCEPT !.start = {1, 2}, !.stalePools = FALSE, !.edits = 3, !.moves = 0,
                            !.faults = 1]
\* Nodes that come back.
Rejoining == [Plain EXCEPT !.stalePools = FALSE, !.rejoin = TRUE, !.pods = {}, !.moves = 2,
                           !.faults = 1]
Situations == {Moving, Returning, Anew, Editing, Reslicing, Rejoining}
=============================================================================
