------------------------------ MODULE Envelope ------------------------------
(***************************************************************************)
(* The encrypted envelope of a file (src/core/crypto.ts, with the limits   *)
(* of core/security.ts): the encoder that makes it one record at a time,   *)
(* and the reader that opens what was stored, sent or fetched.             *)
(*                                                                         *)
(* The numbers are the code's own, so that the boundaries are the real     *)
(* ones: a stretch of plaintext is the interval [lo, hi) of the bytes of   *)
(* its source.  AES-GCM is perfect: a record opens under the key, nonce    *)
(* and header it was sealed with, and under no other.                      *)
(***************************************************************************)
EXTENDS Integers, Sequences, FiniteSets, FiniteSetsExt

CONSTANTS
  Chunk,       \* bytes of plaintext in a record: ENVELOPE_CHUNK_BYTES
  MinBucket,   \* MIN_PADDING_BUCKET_BYTES
  TagBytes,    \* ENVELOPE_TAG_BYTES
  MaxFile,     \* MAX_PROTOTYPE_FILE_BYTES
  MaxTransfer, \* MAX_PROTOTYPE_TRANSFER_BYTES
  MaxMeta,     \* MAX_ENVELOPE_METADATA_BYTES
  Sources,     \* the files: their size and the length of their framed metadata
  None

Least(a, b) == IF a < b THEN a ELSE b
Most(a, b) == IF a < b THEN b ELSE a
CeilDiv(a, b) == (a + b - 1) \div b

PowersOfTwo == {2^k : k \in 0..20}

MaxRecords == CeilDiv(MaxFile + 4 + MaxMeta, Chunk)

(* The metadata fit into the smallest bucket, and the largest file with    *)
(* the largest metadata into a transfer.                                   *)
ASSUME EnvelopeAssumption ==
  /\ {Chunk, MinBucket, TagBytes, MaxFile, MaxTransfer, MaxMeta} \subseteq Nat \ {0}
  /\ Chunk \in PowersOfTwo /\ 4 + MaxMeta < MinBucket /\ MinBucket <= Chunk
  /\ 56 + MaxRecords * (Chunk + TagBytes) <= MaxTransfer
  /\ Sources \subseteq [size : Nat, prefix : 4..(4 + MaxMeta)]
  /\ None \notin Nat /\ None \notin Sources /\ None \notin [at : {"reading", "sealing"}, index : Nat]

Callers == {1, 2}
Versions == {"FSWNENC2", "FSWNENC1", "WBLMENC1"}

VARIABLES
  stage,    \* "new", "making", "made", "failed", "given" or "opened"
  source,   \* the file that is encrypted
  waiting,  \* the calls of next() that have not returned, with their record
  counter,  \* the records that were made
  hashed,   \* how much of the source was hashed, in order, or None
  digest,   \* whether the digest is known
  cells,    \* the sealed records that were returned
  sealed,   \* history: the counters records were sealed under
  cancelled, \* the caller's signal
  wire,     \* what a reader is given
  result    \* what it makes of it

encoder == <<waiting, counter, hashed, digest, cells, sealed>>
envelopeVars == <<stage, source, encoder, cancelled, wire, result>>

(* The sum of f over a set on which it is mostly `usual`.                  *)
SumOver(f, S, usual) ==
  Cardinality(S) * usual + MapThenSumSet(LAMBDA x : f[x] - usual, {x \in S : f[x] # usual})

(***************************************************************************)
(* Layout                                                                  *)
(***************************************************************************)

HeaderBytes(version) == IF version = "FSWNENC2" THEN 56 ELSE 24

(* Buckets: a smallest one, powers of two up to a record, whole records.   *)
paddedPlaintextLength(length) ==
  IF length <= MinBucket THEN MinBucket
  ELSE IF length <= Chunk THEN CHOOSE p \in PowersOfTwo : length <= p /\ p < 2 * length
  ELSE CeilDiv(length, Chunk) * Chunk

PlaintextLength(s) == paddedPlaintextLength(s.prefix + s.size)
RecordCount(s) == CeilDiv(PlaintextLength(s), Chunk)

(* What a sender announces and a receiver expects, before any is made.     *)
envelopeBytes(s) == HeaderBytes("FSWNENC2") + PlaintextLength(s) + RecordCount(s) * TagBytes

(* The header of an envelope; `mark` stands for its nonce prefix and salt. *)
(* The two versions before had no salt.                                    *)
HeaderOf(s, version, mark) ==
  [version |-> version, chunk |-> Chunk, records |-> RecordCount(s), mark |-> mark]

(* The AES key: derived from the input key and the salt.                   *)
DerivedKey(key, header) == IF header.version = "FSWNENC2" THEN <<key, header.mark>> ELSE <<key>>

(* Record `i` of a source.                                                 *)
Sealed(s, key, header, i) ==
  [key |-> DerivedKey(key, header), nonce |-> <<header.mark, i>>, data |-> <<header, i>>,
   of |-> s, lo |-> i * Chunk, hi |-> Least((i + 1) * Chunk, PlaintextLength(s))]

CellBytes(cell) == cell.hi - cell.lo + TagBytes

(* An envelope on the wire: `start` is where its records begin, `cut` how  *)
(* many bytes are missing at the end.                                      *)
Wire(header, records) == [header |-> header, start |-> HeaderBytes(header.version), cells |-> records, cut |-> 0]

CellStart(w, i) == w.start + SumOver([j \in 1..(i - 1) |-> CellBytes(w.cells[j])], 1..(i - 1), Chunk + TagBytes)
Size(w) == CellStart(w, Len(w.cells) + 1) - w.cut

(***************************************************************************)
(* The encoder                                                             *)
(***************************************************************************)

EnvelopeInit ==
  /\ stage = "new" /\ source = None /\ waiting = [c \in Callers |-> None]
  /\ counter = 0 /\ hashed = 0 /\ digest = FALSE /\ cells = <<>> /\ sealed = <<>>
  /\ cancelled = FALSE /\ wire = None /\ result = None

(* createEnvelopeEncoder(), by encryptPrivacyEnvelope(), which refuses an  *)
(* empty file, or for a direct transfer.                                   *)
Create(s, direct) ==
  /\ stage = "new" /\ ~cancelled /\ source' = s
  /\ stage' = IF s.size > MaxFile \/ (s.size = 0 /\ ~direct) THEN "failed" ELSE "making"
  /\ UNCHANGED <<encoder, cancelled, wire, result>>

(* Mutant: a second call of next() is let in.                              *)
Busy_Not == FALSE

Busy == \E c \in Callers : waiting[c] # None

(* next(), up to the read of its slice of the source.                      *)
CallNext(c) ==
  /\ stage = "making" /\ waiting[c] = None /\ ~Busy /\ counter < RecordCount(source)
  /\ IF cancelled THEN stage' = "failed" /\ UNCHANGED waiting
     ELSE waiting' = [waiting EXCEPT ![c] = [at |-> "reading", index |-> counter]] /\ UNCHANGED stage
  /\ UNCHANGED <<source, counter, hashed, digest, cells, sealed, cancelled, wire, result>>

(* The bytes of the source that belong in record `i`.                      *)
SliceOf(s, i) ==
  [lo |-> Most(i * Chunk, s.prefix) - s.prefix,
   hi |-> Least((i + 1) * Chunk, s.prefix + s.size) - s.prefix]

(* The slice is hashed before it is sealed; padding is not.                *)
HashedAfter(i) ==
  LET slice == SliceOf(source, i) IN
  IF slice.hi <= slice.lo THEN hashed ELSE IF hashed = slice.lo THEN slice.hi ELSE None

Reads(c) ==
  /\ waiting[c] # None /\ waiting[c].at = "reading" /\ stage = "making" /\ ~cancelled
  /\ hashed' = HashedAfter(waiting[c].index)
  /\ waiting' = [waiting EXCEPT ![c].at = "sealing"]
  /\ UNCHANGED <<stage, source, counter, digest, cells, sealed, cancelled, wire, result>>

(* The read failed, gave too little because the file has changed, or the   *)
(* signal was aborted meanwhile: whoever called gives up.                  *)
ReadFails(c) ==
  /\ waiting[c] # None /\ waiting[c].at = "reading" /\ stage = "making"
  /\ waiting' = [waiting EXCEPT ![c] = None] /\ stage' = "failed"
  /\ UNCHANGED <<source, counter, hashed, digest, cells, sealed, cancelled, wire, result>>

Header == HeaderOf(source, "FSWNENC2", "mark")

(* The record is sealed, and returned unless the signal was aborted.  The  *)
(* digest is taken with the last one.                                      *)
Seals(c) ==
  /\ waiting[c] # None /\ waiting[c].at = "sealing" /\ stage = "making"
  /\ waiting' = [waiting EXCEPT ![c] = None] /\ sealed' = Append(sealed, waiting[c].index)
  /\ IF cancelled THEN stage' = "failed" /\ UNCHANGED <<counter, cells, digest>>
     ELSE /\ counter' = counter + 1
          /\ cells' = Append(cells, Sealed(source, "key", Header, waiting[c].index))
          /\ digest' = (counter' = RecordCount(source)) /\ UNCHANGED stage
  /\ UNCHANGED <<source, hashed, cancelled, wire, result>>

(* next() has no more records: the whole is put together, and its size is  *)
(* checked again.                                                          *)
Finish ==
  /\ stage = "making" /\ ~Busy /\ counter >= RecordCount(source)
  /\ wire' = Wire(Header, cells)
  /\ stage' = IF Size(wire') <= MaxTransfer THEN "made" ELSE "failed"
  /\ UNCHANGED <<source, encoder, cancelled, result>>

Abort ==
  /\ stage \in {"new", "making"} /\ ~cancelled /\ cancelled' = TRUE
  /\ UNCHANGED <<stage, source, encoder, wire, result>>

(***************************************************************************)
(* What happens to an envelope before it is read                           *)
(***************************************************************************)

Whole(s, version, mark) ==
  LET header == HeaderOf(s, version, mark) IN
  Wire(header, [i \in 1..RecordCount(s) |-> Sealed(s, "key", header, i - 1)])

(* An envelope that an earlier release has made.                           *)
Find(s, version) ==
  /\ stage = "new" /\ version # "FSWNENC2" /\ s.size \in 1..MaxFile
  /\ stage' = "made" /\ source' = s /\ wire' = Whole(s, version, "mark")
  /\ UNCHANGED <<encoder, cancelled, result>>

(* The ends of a long sequence stand for all its places.                   *)
Places(q) == {1, 2, Len(q) - 1, Len(q)} \cap 1..Len(q)
Without(q, i) == SubSeq(q, 1, i - 1) \o SubSeq(q, i + 1, Len(q))
Exchanged(q, i, j) == [q EXCEPT ![i] = q[j], ![j] = q[i]]

(* Storage, servers and senders may lose, repeat, exchange and spoil parts *)
(* of it, or mix it with another envelope of the same file and key.        *)
Damaged(w) ==
  LET q == w.cells
      other == Whole(source, w.header.version, "other")
  IN  {[w EXCEPT !.cells = Without(q, i)] : i \in Places(q)}
      \cup {[w EXCEPT !.cells = SubSeq(q, 1, i) \o SubSeq(q, i, Len(q))] : i \in Places(q)}
      \cup {[w EXCEPT !.cells = Exchanged(q, p[1], p[2])] : p \in Places(q) \X Places(q)}
      \cup {[w EXCEPT !.cells[i] = other.cells[i]] : i \in Places(q)}
      \cup {[w EXCEPT !.cells[i].key = <<"spoilt">>] : i \in Places(q)}
      \cup {[w EXCEPT !.header.records = n] : n \in {Len(q) - 1, Len(q) + 1}}
      \cup {[w EXCEPT !.header.version = v] : v \in Versions}
      \cup {[w EXCEPT !.header.mark = "other"], [other EXCEPT !.header = w.header]}
      \cup {[w EXCEPT !.cut = n] : n \in {1, TagBytes, Chunk + TagBytes} \cap 1..(Size(w) - w.start)}

Arrives ==
  /\ stage = "made" /\ stage' = "given" /\ wire' \in {wire} \cup Damaged(wire)
  /\ UNCHANGED <<source, encoder, cancelled, result>>

(***************************************************************************)
(* The reader                                                              *)
(***************************************************************************)

(* Bytes that are no sealed record: they open under no key.                *)
Garbage == [key |-> <<>>]

(* The bytes [lo, hi) of the wire, if they are a sealed record.  A record  *)
(* starts where whole ones before it would end, or a little earlier.       *)
SliceAt(w, lo, hi) ==
  LET near == (lo - w.start) \div (Chunk + TagBytes)
      at == {i \in (near + 1)..(near + 4) \cap 1..Len(w.cells) :
               CellStart(w, i) = lo /\ lo + CellBytes(w.cells[i]) = hi /\ hi <= Size(w)}
  IN  IF at = {} THEN Garbage ELSE w.cells[CHOOSE i \in at : TRUE]

parseEnvelopeHeader(w) ==
  LET bytes == HeaderBytes(w.header.version) n == w.header.records IN
  /\ w.header.chunk = Chunk /\ n \in 1..MaxRecords
  /\ Size(w) >= bytes + (n - 1) * (Chunk + TagBytes) + 1 + TagBytes
  /\ Size(w) <= bytes + n * (Chunk + TagBytes)

(* Mutant: nonce and additional data do not count the records.             *)
Authentic_Uncounted(cell, key, header, i) ==
  /\ cell.key = DerivedKey(key, header)
  /\ cell.nonce[1] = header.mark /\ cell.data[1] = header

(* AES-GCM under the nonce and the additional data of record `i`.          *)
Authentic(cell, key, header, i) ==
  /\ cell.key = DerivedKey(key, header)
  /\ cell.nonce = <<header.mark, i>> /\ cell.data = <<header, i>>

(* The sealed metadata name a file that is not empty and not too large.    *)
parseEnvelopeMetadata(cell) == cell.of.size \in 1..MaxFile /\ cell.of.prefix <= Least(4 + MaxMeta, cell.hi)

(* decryptPrivacyEnvelope(): every record is authenticated in its place,   *)
(* the padding must be the one the metadata ask for, and the parts that    *)
(* are copied must add up.  What is recovered is told by where each part   *)
(* came from.                                                              *)
decryptPrivacyEnvelope(w, key) ==
  LET header == w.header
      n == header.records
      bytes == HeaderBytes(header.version)
      From(i) == bytes + i * (Chunk + TagBytes)
      record == [i \in 0..(n - 1) |-> SliceAt(w, From(i), IF i = n - 1 THEN Size(w) ELSE From(i + 1))]
      meta == record[0].of
      Lo(i) == Most(i * Chunk, meta.prefix)
      Hi(i) == Least(i * Chunk + record[i].hi - record[i].lo, meta.prefix + meta.size)
      parts == {i \in 0..(n - 1) : Hi(i) > Lo(i)}
  IN  IF /\ Size(w) \in 1..MaxTransfer
         /\ parseEnvelopeHeader(w)
         /\ \A i \in 0..(n - 1) : Authentic(record[i], key, header, i)
         /\ parseEnvelopeMetadata(record[0])
         /\ paddedPlaintextLength(meta.prefix + meta.size) = Size(w) - bytes - n * TagBytes
         /\ SumOver([i \in parts |-> Hi(i) - Lo(i)], parts, Chunk) = meta.size
      THEN IF \A i \in parts : record[i].lo = i * Chunk /\ record[i].of = meta THEN "source" ELSE "other"
      ELSE "refused"

(* A recovery key that is not canonical is refused like a wrong one.       *)
Open(key) ==
  /\ stage = "given" /\ stage' = "opened" /\ result' = [key |-> key, file |-> decryptPrivacyEnvelope(wire, key)]
  /\ UNCHANGED <<source, encoder, cancelled, wire>>

EnvelopeNext ==
  \/ \E s \in Sources : Create(s, TRUE) \/ Create(s, FALSE) \/ \E v \in Versions : Find(s, v)
  \/ \E c \in Callers : CallNext(c) \/ Reads(c) \/ ReadFails(c) \/ Seals(c)
  \/ Finish \/ Abort \/ Arrives
  \/ \E key \in {"key", "wrong"} : Open(key)

EnvelopeSpec == EnvelopeInit /\ [][EnvelopeNext]_envelopeVars

(***************************************************************************)
(* Properties                                                              *)
(***************************************************************************)

(* The types of the encoder's state; it never makes more records than its  *)
(* header says.                                                            *)
EnvelopeTypeOK ==
  /\ stage \in {"new", "making", "made", "failed", "given", "opened"} /\ source \in Sources \cup {None}
  /\ waiting \in [Callers -> {None} \cup [at : {"reading", "sealing"}, index : 0..(MaxRecords - 1)]]
  /\ counter \in 0..MaxRecords /\ hashed \in Nat \cup {None} /\ digest \in BOOLEAN /\ cancelled \in BOOLEAN
  /\ stage \in {"making", "made"} => counter <= RecordCount(source)

(* No record is sealed twice under one nonce, however next() is called and *)
(* wherever it fails: the padding of the two would differ.                 *)
NonceOnce == \A i \in 1..Len(sealed) : sealed[i] = i - 1

(* Once there is a digest, every byte of the source was hashed once, in    *)
(* order: END and the reader's check agree.                                *)
DigestFits == digest => hashed = source.size /\ counter = RecordCount(source)

(* What was made has exactly the announced length, whatever the size, and  *)
(* is within what transfers and readers accept.                            *)
SizesAgree ==
  stage = "made" /\ counter > 0 =>
    /\ Size(wire) = envelopeBytes(source) /\ Size(wire) <= MaxTransfer
    /\ parseEnvelopeHeader(wire)
    /\ source.prefix + source.size <= PlaintextLength(source)

(* A reader gets the source or nothing.  It does get it from an envelope   *)
(* that arrives as it was made, of this release or an earlier one; only    *)
(* the empty file can be sealed and not be opened.                         *)
OpensToSource ==
  stage = "opened" =>
    /\ result.file \in {"source", "refused"}
    /\ result.file = "source" => result.key = "key"
    /\ result.key = "key" /\ wire = Whole(source, wire.header.version, "mark") /\ source.size > 0 => result.file = "source"

(* Sealing: no nonce is used twice, every byte is hashed once, and what is *)
(* made has the announced length.                                          *)
SealingFits == EnvelopeTypeOK /\ NonceOnce /\ DigestFits /\ SizesAgree
=============================================================================
