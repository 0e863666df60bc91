---------------------------- MODULE MCDownload -----------------------------
(* Instances of the download for TLC. *)
EXTENDS Download, TLC

CONSTANTS a, b

TwoOrNone == {<<a, b>>, <<>>}
OnlyTwo   == {<<a, b>>}

Found(size, ranges) == [size |-> size, ranges |-> ranges]
AnyProbe   == {Found(Size, TRUE), Found(Size, FALSE), Found(0, FALSE)}
RangeProbe == {Found(Size, TRUE)}
=============================================================================
