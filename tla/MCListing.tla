------------------------------ MODULE MCListing ------------------------------
(***************************************************************************)
(* An instance of Listing for TLC.  "1.5" and "1.500000" are two           *)
(* directories of one snapshot, and only the latter is the one that Format *)
(* names.                                                                  *)
(***************************************************************************)
EXTENDS Listing

Short  == [secs |-> 1, len |-> 1, frac |-> 5]
Full   == [secs |-> 1, len |-> 6, frac |-> 500000]
Second == [secs |-> 2, len |-> 6, frac |-> 0]

Holds(t, best) == [index |-> Index(t), best |-> best]

MCTimes    == {3000000}
MCArchives ==
    {[n \in {Short, Full, Second} |->
        IF n = Short THEN Holds("t1", NoTitle)
        ELSE IF n = Full THEN Holds("t2", "t1") ELSE Holds(NoTitle, "t2")],
     [n \in {Full} |-> Holds("t1", "t2")]}
MCCopied   == {Short, Full}
MCAsked    == {-1, 0, 2, 9}
=============================================================================
