------------------------------ MODULE Splitting ------------------------------
(***************************************************************************)
(* parts.py and erasure.py: an object cut into parts, and put together     *)
(* again.  A byte is the set of its bits, so that XOR is the symmetric     *)
(* difference; contents and chunks are sequences of bytes.  Chunks are     *)
(* numbered from 0, as in the manifest.                                    *)
(***************************************************************************)
EXTENDS Integers, Sequences, Functions

Byte == SUBSET (0..7)

Xor(a, b) == (a \ b) \cup (b \ a)

(* bytes(a ^ b for a, b in zip(s, t)), of chunks of one length. *)
XorBytes(s, t) == [n \in 1..Len(s) |-> Xor(s[n], t[n])]

(* Where chunk i of an exact split begins, counting from 0: i = count is   *)
(* the end of the last one.                                                *)
Start(size, count, i) == (size * i) \div count

(* Mutant: all chunks have the length of the first. *)
SplitEvenly(content, count) ==
  [i \in 0..(count - 1) |->
     SubSeq(content, i * (Len(content) \div count) + 1,
            (i + 1) * (Len(content) \div count))]

(* split: content[size*i//count : size*(i+1)//count]. *)
Split(content, count) ==
  [i \in 0..(count - 1) |->
     SubSeq(content, Start(Len(content), count, i) + 1,
            Start(Len(content), count, i + 1))]

Width(size) == (size + 1) \div 2

(* content[width:].ljust(width, b'\0'): the second half, filled up with a  *)
(* zero byte when the length is odd.                                       *)
Right(content) ==
  [n \in 1..Width(Len(content)) |->
     IF Width(Len(content)) + n <= Len(content)
     THEN content[Width(Len(content)) + n] ELSE {}]

(* parity_split: two halves and the XOR of them. *)
ParitySplit(content) ==
  LET left == SubSeq(content, 1, Width(Len(content))) IN
  [i \in 0..2 |-> CASE i = 0 -> left
                    [] i = 1 -> Right(content)
                    [] i = 2 -> XorBytes(left, Right(content))]

(* The chunks in order, one after the other. *)
Joined(chunks, count) ==
  LET upto[n \in 0..count] ==
        IF n = 0 THEN <<>> ELSE upto[n - 1] \o chunks[n - 1]
  IN  upto[count]

(* Mutant: a missing half is taken from the parity chunk as it is. *)
RepairedByParity(chunks) ==
  [i \in {0, 1} |-> IF i \in DOMAIN chunks THEN chunks[i] ELSE chunks[2]]

(* The two halves, the missing one from the other and the parity. *)
Repaired(chunks) ==
  [i \in {0, 1} |-> IF i \in DOMAIN chunks THEN chunks[i]
                    ELSE XorBytes(chunks[1 - i], chunks[2])]

(* reconstruct, given enough of the chunks: all of an exact split, two of  *)
(* a parity one, whose padding is cut off.                                 *)
Reconstruct(scheme, count, size, chunks) ==
  IF scheme = "exact" THEN Joined(chunks, count)
  ELSE SubSeq(Repaired(chunks)[0] \o Repaired(chunks)[1], 1, size)

(* validate, of the lengths in a manifest: every chunk has at least one    *)
(* byte, exact chunks make up the size, and parity chunks are half of the  *)
(* object, rounded up.                                                     *)
LengthsValidate(scheme, size, lengths) ==
  /\ \A i \in DOMAIN lengths : lengths[i] > 0
  /\ scheme = "exact" => FoldFunction(+, 0, lengths) = size
  /\ scheme = "xor2" => /\ size >= 2
                        /\ \A i \in DOMAIN lengths : lengths[i] = Width(size)

Lengths(chunks) == [i \in DOMAIN chunks |-> Len(chunks[i])]
=============================================================================
