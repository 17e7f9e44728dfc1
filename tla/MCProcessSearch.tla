-------------------------- MODULE MCProcessSearch --------------------------
(* ProcessSearch with four processes, one of which cannot be opened, and    *)
(* two drives, on which they may have handles with several rights, after a  *)
(* handle of another kind, with or without access.                          *)
EXTENDS ProcessSearch

CONSTANTS p1, p2, p3, p4, d1, d2

H(p, d, a) == [pid |-> p, drive |-> d, access |-> a]

MCEnumerations == {
    <<>>,
    <<H(p1, d1, {"r"}), H(p1, d1, {"w"}), H(p2, d1, {"w"})>>,
    <<H(p1, NULL, {}), H(p1, d1, {"w"}), H(p4, d2, {"w"}), H(p2, d2, {"r"})>>,
    <<H(p2, d1, {"x"}), H(p2, d2, {"w"}), H(p3, d1, {"w"}), H(p1, d1, {"r"})>>}
=============================================================================
