--------------------------- MODULE MCDigestRequests ---------------------------
(* DigestRequests for an empty file and a small one, with bounds up to one     *)
(* past its end, so that every case of a range meets every edge of the file.   *)
EXTENDS DigestRequests, TLC

SmallSizes == {0, 2}
SmallBounds == 0 .. 3
Interchangeable == Permutations(Tasks)
=============================================================================
