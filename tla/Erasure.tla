------------------------------ MODULE Erasure -------------------------------
(***************************************************************************)
(* The pool's erasure coding: systematic Reed-Solomon over GF(256)         *)
(* (core/erasure.ts).  Blobs are sequences of bytes, matrices sequences of *)
(* rows; the code's loops over 64 KiB stripes work byte by byte, so one    *)
(* stripe stands for all.                                                  *)
(***************************************************************************)
EXTENDS Naturals, Sequences, FiniteSets, Bitwise

Byte == 0..255
NoMatrix == <<>>

(* A sequence given by its entries, each computed once.                    *)
Vector(entries) == SubSeq(entries, 1, Len(entries))

(* value <<= 1, reduced by the polynomial 0x11d.                           *)
Doubled(v) == IF v >= 128 THEN (v * 2) ^^ 285 ELSE v * 2

(* The product in GF(256), bit by bit: the doublings the code's table EXP  *)
(* is made of.                                                             *)
Product(a, b) ==
  LET times[n \in 0..8] ==
        IF n = 0 THEN 0
        ELSE LET high == Doubled(times[n - 1]) IN
             IF (b \div 2^(8 - n)) % 2 = 1 THEN high ^^ a ELSE high
  IN times[8]

MUL == [a \in Byte |-> [b \in Byte |-> Product(a, b)]]
INVERSE == [a \in 1..255 |-> CHOOSE b \in 1..255 : MUL[a][b] = 1]

mul(a, b) == MUL[a][b]
inverse(a) == INVERSE[a]

(* The sum in GF(256) of f(1), ..., f(n).                                  *)
Sum(n, f) == LET upto[i \in 0..n] == IF i = 0 THEN 0 ELSE LET s == upto[i - 1] IN s ^^ f[i] IN upto[n]

(* The first row from col on whose entry is not zero, swapped into place.  *)
Pivoted(work, col) ==
  LET size == Len(work)
      usable == {r \in col..size : work[r][col] # 0}
      pivot == CHOOSE r \in usable : \A q \in usable : r <= q
  IN IF usable = {} THEN NoMatrix ELSE [work EXCEPT ![col] = work[pivot], ![pivot] = work[col]]

(* One column of the elimination: scale the pivot row, clear the others.   *)
Eliminated(work, col) ==
  LET size == Len(work)
      scale == inverse(work[col][col])
      row == Vector([c \in 1..2 * size |-> mul(work[col][c], scale)])
  IN Vector([r \in 1..size |->
       IF r = col THEN row ELSE Vector([c \in 1..2 * size |-> work[r][c] ^^ mul(work[r][col], row[c])])])

(* Gauss-Jordan; NoMatrix stands for the error of a singular matrix.       *)
invert(matrix) ==
  LET size == Len(matrix)
      work[col \in 0..size] ==
        IF col = 0
        THEN Vector([r \in 1..size |-> Vector([c \in 1..2 * size |->
               IF c <= size THEN matrix[r][c] ELSE IF c - size = r THEN 1 ELSE 0])])
        ELSE LET before == work[col - 1]
                 ready == IF before = NoMatrix THEN NoMatrix ELSE Pivoted(before, col)
             IN IF ready = NoMatrix THEN NoMatrix ELSE Eliminated(ready, col)
      done == work[size]
  IN IF done = NoMatrix THEN NoMatrix ELSE Vector([r \in 1..size |-> SubSeq(done[r], size + 1, 2 * size)])

(* Row r is that of the field element r - 1, times the inverse of the top: *)
(* the first rows are the unit matrix, so the first parts are the data.    *)
generator(required, total) ==
  LET powers(x) == LET p[c \in 1..required] == IF c = 1 THEN 1 ELSE LET q == p[c - 1] IN mul(q, x)
                   IN Vector([c \in 1..required |-> p[c]])
      vandermonde == Vector([r \in 1..total |-> powers(r - 1)])
      topInverse == invert(SubSeq(vandermonde, 1, required))
  IN Vector([r \in 1..total |-> Vector([col \in 1..required |->
       Sum(required, [i \in 1..required |-> mul(vandermonde[r][i], topInverse[i][col])])])])

(* A row of coefficients applied to inputs; one that is short reads zero.  *)
combine(coefficients, inputs, size) ==
  Vector([pos \in 1..size |->
    Sum(Len(inputs), [i \in 1..Len(inputs) |->
      IF pos <= Len(inputs[i]) THEN mul(coefficients[i], inputs[i][pos]) ELSE 0])])

(* Math.ceil(length / required).                                           *)
PartSize(length, required) == (length + required - 1) \div required

encodeParts(blob, required, total) ==
  LET matrix == generator(required, total)
      size == PartSize(Len(blob), required)
      data == [i \in 1..required |-> SubSeq(blob, (i - 1) * size + 1, IF i * size < Len(blob) THEN i * size ELSE Len(blob))]
  IN Vector([i \in 1..total |-> combine(matrix[i], data, size)])

(* The rows the parts were made with.                                      *)
Rows(matrix, parts) == Vector([i \in 1..Len(parts) |-> matrix[parts[i].index]])

(* parts: a sequence of records of an index and a blob.                    *)
decodeParts(parts, required, total, length) ==
  LET matrix == generator(required, total)
      size == PartSize(length, required)
      decoding == invert(Rows(matrix, SubSeq(parts, 1, required)))
      inputs == Vector([i \in 1..required |-> parts[i].blob])
      whole[i \in 0..required] == IF i = 0 THEN <<>> ELSE LET w == whole[i - 1] IN w \o combine(decoding[i], inputs, size)
  IN SubSeq(whole[required], 1, length)
=============================================================================
