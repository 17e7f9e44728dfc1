---------------------------- MODULE HashService ----------------------------
(***************************************************************************)
(* What the "compute image checksums" operation of hash.c promises: every  *)
(* algorithm either holds the digest string it had before (hash_str is a   *)
(* global, so that is the digest of an earlier image) or the digest of the *)
(* whole of the current image, and the operation ends as a success, the    *)
(* only outcome that opens the checksum dialog, when each of them is of    *)
(* the current image or was given up for the data being late.  A digest    *)
(* that was given up stays the one of the earlier image.  A digest is      *)
(* represented by what it was computed over: the sequence of the chunks of *)
(* the image.                                                              *)
(***************************************************************************)
EXTENDS Integers

CONSTANTS
    num_hashes,     \* How many algorithms are computed (3, or 4 with SHA512)
    NumChunks       \* How many chunks the image is read in

HashIds == 0 .. num_hashes - 1

\* The digest of the whole image, and the one of some image hashed before it.
WholeImage == [j \in 1 .. NumChunks |-> j]
EarlierImage == [j \in 1 .. 1 |-> 0]

VARIABLES
    outcome,        \* "busy", "ok" or "failed"
    given_up,       \* The algorithms that did not wait for the end of the data
    hash_str        \* The digest strings that the checksum dialog shows

Init ==
    /\ outcome = "busy"
    /\ given_up = {}
    /\ hash_str = [i \in HashIds |-> EarlierImage]

\* One algorithm delivers its digest.
Deliver(i) ==
    /\ outcome = "busy"
    /\ i \notin given_up
    /\ hash_str' = [hash_str EXCEPT ![i] = WholeImage]
    /\ UNCHANGED <<outcome, given_up>>

\* The data is late for one algorithm, which will not deliver its digest.
GiveUp(i) ==
    /\ outcome = "busy"
    /\ hash_str[i] = EarlierImage
    /\ given_up' = given_up \union {i}
    /\ UNCHANGED <<outcome, hash_str>>

\* The checksum dialog is opened.
Succeed ==
    /\ outcome = "busy"
    /\ \A i \in HashIds : hash_str[i] = WholeImage \/ i \in given_up
    /\ outcome' = "ok"
    /\ UNCHANGED <<given_up, hash_str>>

\* The operation ends without a result: an error, a timeout or the user.
Fail ==
    /\ outcome = "busy"
    /\ outcome' = "failed"
    /\ UNCHANGED <<given_up, hash_str>>

Next ==
    \/ \E i \in HashIds : Deliver(i) \/ GiveUp(i)
    \/ Succeed
    \/ Fail

Spec == Init /\ [][Next]_<<outcome, given_up, hash_str>>
=============================================================================
