--------------------------- MODULE MCBatchIngest ---------------------------
(* The small instances of BatchIngest that TLC checks.                        *)
EXTENDS BatchIngest, TLC

CONSTANTS u1, u2, u3, f, g, stamped, bare, noisy

(* File f has a line without a time, twice, a line with one that alerts, and *)
(* a line that an ingest action drops; g shares the alerting line with f.    *)
MCFileOf == [u \in Upload |-> IF u = u3 THEN g ELSE f]
MCSameFile == [u \in Upload |-> f]
MCLinesOf == [x \in File |-> IF x = f THEN <<bare, stamped, bare, noisy>> ELSE <<stamped>>]
=============================================================================
