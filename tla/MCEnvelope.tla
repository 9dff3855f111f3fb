----------------------------- MODULE MCEnvelope -----------------------------
(* The sizes at which something changes: an empty file, one byte, a full   *)
(* smallest bucket and one byte more, a full record and one byte more, the *)
(* same for two records, the largest file with the largest metadata, and   *)
(* one that is too large.                                                  *)
EXTENDS Envelope

KiB == 1024
MiB == 1024 * 1024
FileLimit == 256 * MiB
TransferLimit == 258 * MiB
Bucket == 64 * KiB
Named(size) == [size |-> size, prefix |-> 60]
Boundaries ==
  {Named(n) : n \in {0, 1, Bucket - 60, Bucket - 59, MiB - 60, MiB - 59, 2 * MiB - 60, 2 * MiB - 59, FileLimit + 1}}
  \cup {[size |-> FileLimit, prefix |-> 4100], [size |-> 2 * MiB - 4100, prefix |-> 4100]}
=============================================================================
