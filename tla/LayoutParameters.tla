-------------------------- MODULE LayoutParameters --------------------------
(***************************************************************************)
(* The unit in which the sizes of drives and partitions are given.  The    *)
(* smallest size that drive.c distinguishes is the 256 bytes of            *)
(* SINGLE_CLUSTERSIZE_DEFAULT.                                             *)
(***************************************************************************)
EXTENDS Integers

CONSTANTS
    Unit,       \* How many bytes there are in a unit
    MB          \* How many units there are in a megabyte

ASSUME UnitAssumption ==
    /\ Unit \in Nat \ {0} /\ MB \in Nat \ {0}
    /\ MB * Unit = 1048576

FloorAlign(x, y) == (x \div y) * y
CeilingAlign(x, y) == ((x + y - 1) \div y) * y

=============================================================================
