----------------------------- MODULE MCPageDiff -----------------------------
(* Model values for PageDiff, scaled down from 4096-byte pages:           *)
(* a page of 4 bytes, 2-byte words and 2-byte chunks, so that both the    *)
(* word loop and the chunk loop run twice and a diff can span two         *)
(* iterations; binary byte values.                                        *)
EXTENDS PageDiff

MCPageLen == 4
MCWordLen == 2
MCChunkLen == 2
MCVals == {0, 1}
=============================================================================
