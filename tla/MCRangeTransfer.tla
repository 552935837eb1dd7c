-------------------------- MODULE MCRangeTransfer ---------------------------
(* Instances of RangeTransfer for TLC.                                     *)
EXTENDS RangeTransfer

Upload(size, chunk)   == [kind |-> "upload", size |-> size, chunk |-> chunk]
Download(size, chunk) == [kind |-> "download", size |-> size, chunk |-> chunk]

\* No byte, one byte, whole chunks, a rest of one byte, 2^32 bytes to go after
\* the first chunk, and the chunk of zero: the default, or a wrap.
EdgeJobs == {Upload(0, 2), Upload(1, 2), Upload(4, 2), Upload(5, 2),
             Upload(11, 3), Upload(5, 0),
             Download(0, 2), Download(1, 2), Download(2, 2), Download(3, 2),
             Download(11, 2), Download(9, 0)}

TestDownload == {Download(5, 2)}
=============================================================================
