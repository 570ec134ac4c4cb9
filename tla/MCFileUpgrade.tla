--------------------------- MODULE MCFileUpgrade ---------------------------
(***************************************************************************)
(* FileUpgrade with two terminals and four versions of the file, with 8 in *)
(* place of 2^32 and 4 in place of 50 MB: one of the greatest length       *)
(* allowed, a shorter one, one that is too long, and one whose length is   *)
(* cut to 2.                                                               *)
(***************************************************************************)
EXTENDS FileUpgrade

CONSTANTS short, long, refused, huge

MCLength == [v \in Versions |->
    CASE v = short -> 3 [] v = long -> 4 [] v = refused -> 5 [] v = huge -> 10]
=============================================================================
