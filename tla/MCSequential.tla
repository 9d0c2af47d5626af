---------------------------- MODULE MCSequential -----------------------------
(***************************************************************************)
(* One run of TLC for the unreliable reader and the two neighbor searches: *)
(* an initial state chooses the program, and the variables of the others   *)
(* stay as they were.                                                      *)
(***************************************************************************)
EXTENDS ReaderStream, NeighborList, PeriodicSearch

VARIABLE program

Programs == {"reader", "list", "periodic"}

\* For the open space: sites within and beyond a cutoff of each other, in cells whose
\* hash values wrap around.
At(a, b, c) == [x |-> a, y |-> b, z |-> c]
MCSites == {At(-1, 0, 0), At(1, 0, 0), At(10, -1, 0), At(12, -1, 0), At(-1, 0, -12)}

\* For the boxes, some coordinates lie outside.  In some boxes an axis has one bin or two.
MCPlaces == {At(0, 0, 0), At(-1, 19, 0), At(9, 5, 14), At(11, -4, 15), At(15, -4, 15)}
MCBoxes == {PeriodicBox(10, 10, 10), PeriodicBox(20, 30, 10), PeriodicBox(15, 10, 40),
            XYBox(10, 20), OpenBox(3)}

MCInit ==
    /\ program \in Programs
    /\ Init /\ ListInit /\ PeriodicInit
    /\ program # "periodic" => box = OpenBox(3) /\ dcut = One

Frozen(p, v) == IF program = p THEN TRUE ELSE UNCHANGED v

MCNext ==
    /\ \/ program = "reader" /\ Next
       \/ program = "list" /\ ListNext
       \/ program = "periodic" /\ PeriodicNext
    /\ UNCHANGED program
    /\ Frozen("reader", vars) /\ Frozen("list", listVars) /\ Frozen("periodic", periodicVars)

MCSpec == MCInit /\ [][MCNext]_<<program, vars, listVars, periodicVars>>
=============================================================================
