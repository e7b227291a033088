--------------------------- MODULE SplittingProofs ---------------------------
(***************************************************************************)
(* Proofs about Splitting, for contents of every length and any number of  *)
(* chunks: an exact split tiles the content with chunks of at least one    *)
(* byte, and whatever `reconstruct` accepts as enough gives the content    *)
(* back.  Joined is a recursive function; what it computes is shown by     *)
(* giving the function it must be, and the least argument at which two     *)
(* solutions of its equation could differ.                                 *)
(***************************************************************************)
EXTENDS Splitting, NumberProofs, SequenceTheorems

-----------------------------------------------------------------------------
(* Where the chunks of an exact split begin and end.                       *)
LEMMA DivIs ==
  ASSUME NEW a \in Nat, NEW c \in Nat \ {0}
  PROVE  /\ a \div c \in Nat
         /\ c * (a \div c) <= a
         /\ a < c * ((a \div c) + 1)
OBVIOUS

LEMMA DivBetween ==
  ASSUME NEW a \in Nat, NEW c \in Nat \ {0}, NEW q \in Nat,
         c * q <= a, a < c * (q + 1)
  PROVE  a \div c = q
<1>1. PICK p \in Nat : p = a \div c /\ c * p <= a /\ a < c * (p + 1)
  BY DivIs
<1>2. c * p < c * (q + 1) /\ c * q < c * (p + 1)
  BY <1>1
<1>3. p < q + 1 /\ q < p + 1
  BY <1>2
<1>4. QED
  BY <1>1, <1>3

LEMMA StartIs ==
  ASSUME NEW size \in Nat, NEW count \in Nat \ {0}, NEW i \in Nat
  PROVE  /\ Start(size, count, i) \in Nat
         /\ count * Start(size, count, i) <= size * i
         /\ size * i < count * (Start(size, count, i) + 1)
<1>1. size * i \in Nat
  OBVIOUS
<1>2. QED
  BY <1>1, DivIs DEF Start

LEMMA StartEnds ==
  ASSUME NEW size \in Nat, NEW count \in Nat \ {0}
  PROVE  Start(size, count, 0) = 0 /\ Start(size, count, count) = size
<1>1. size * 0 = 0 /\ 0 \in Nat /\ count * 0 <= 0 /\ 0 < count * (0 + 1)
  OBVIOUS
<1>2. Start(size, count, 0) = 0
  BY <1>1, DivBetween DEF Start
<1>3. size * count \in Nat /\ count * size <= size * count
      /\ size * count < count * (size + 1)
  OBVIOUS
<1>4. Start(size, count, count) = size
  BY <1>3, DivBetween DEF Start
<1>5. QED
  BY <1>2, <1>4

LEMMA StartGrows ==
  ASSUME NEW size \in Nat, NEW count \in Nat \ {0}, NEW i \in Nat, NEW j \in Nat,
         i <= j
  PROVE  Start(size, count, i) <= Start(size, count, j)
<1>1. PICK s \in Nat : s = Start(size, count, i) /\ count * s <= size * i
  BY StartIs
<1>2. PICK t \in Nat : t = Start(size, count, j) /\ size * j < count * (t + 1)
  BY StartIs
<1>3. size * i <= size * j
  OBVIOUS
<1>4. count * s < count * (t + 1)
  <2>1. size * i \in Nat /\ size * j \in Nat /\ count * s \in Nat
        /\ count * (t + 1) \in Nat
    OBVIOUS
  <2>2. QED
    BY <1>1, <1>2, <1>3, <2>1
<1>5. s < t + 1
  BY <1>4
<1>6. QED
  BY <1>1, <1>2, <1>5

(* As many chunks as bytes, or fewer: none is empty. *)
LEMMA StartIncreases ==
  ASSUME NEW size \in Nat, NEW count \in Nat \ {0}, count <= size, NEW i \in Nat
  PROVE  Start(size, count, i) < Start(size, count, i + 1)
<1>1. PICK s \in Nat : s = Start(size, count, i) /\ count * s <= size * i
  BY StartIs
<1>2. PICK t \in Nat :
        t = Start(size, count, i + 1) /\ size * (i + 1) < count * (t + 1)
  <2>1. i + 1 \in Nat
    OBVIOUS
  <2>2. QED
    BY <2>1, StartIs
<1>3. size * (i + 1) = size * i + size /\ count * (s + 1) = count * s + count
  OBVIOUS
<1>4. count * (s + 1) < count * (t + 1)
  <2>1. size * i \in Nat /\ size * (i + 1) \in Nat /\ count * s \in Nat
        /\ count * (s + 1) \in Nat /\ count * (t + 1) \in Nat
    OBVIOUS
  <2>2. QED
    BY <1>1, <1>2, <1>3, <2>1
<1>5. s + 1 < t + 1
  BY <1>4
<1>6. QED
  BY <1>1, <1>2, <1>5

LEMMA StartInside ==
  ASSUME NEW size \in Nat, NEW count \in Nat \ {0}, NEW i \in 0..count
  PROVE  Start(size, count, i) \in 0..size
<1>1. i \in Nat /\ i <= count /\ count \in Nat
  OBVIOUS
<1>2. Start(size, count, i) \in Nat
  BY <1>1, StartIs
<1>3. Start(size, count, i) <= Start(size, count, count)
  BY <1>1, StartGrows
<1>4. QED
  BY <1>2, <1>3, StartEnds

SumUpto(f, n) == SumOf([i \in 0..(n - 1) |-> f[i]])

LEMMA SumOfNone == ASSUME NEW f PROVE SumUpto(f, 0) = 0
<1>1. PICK g : g = [i \in 0..(0 - 1) |-> f[i]]
  OBVIOUS
<1>2. DOMAIN g = {}
  BY <1>1
<1>3. CountsOn(g, {})
  BY FS_EmptySet DEF CountsOn
<1>4. PICK h : Sums(g, {}, h)
  BY <1>3, SumsExist
<1>5. h[{}] = 0
  BY <1>4 DEF Sums, SumsOver, SumStep
<1>6. SumOf(g) = h[{}]
  BY <1>2, <1>3, <1>4, SumIs
<1>7. QED
  BY <1>1, <1>5, <1>6 DEF SumUpto

LEMMA SumOfOneMore ==
  ASSUME NEW f, NEW n \in Nat, \A i \in 0..n : f[i] \in Nat
  PROVE  SumUpto(f, n + 1) = SumUpto(f, n) + f[n]
<1>1. PICK S : S = 0..(n - 1)
  OBVIOUS
<1>2. IsFiniteSet(S)
  <2>1. 0 \in Int /\ n - 1 \in Int
    OBVIOUS
  <2>2. QED
    BY <1>1, <2>1, FS_Interval
<1>3. n \notin S /\ S \cup {n} = 0..n /\ n + 1 - 1 = n
  BY <1>1
<1>4. PICK g, h : g = [i \in S |-> f[i]] /\ h = [i \in S \cup {n} |-> f[i]]
  OBVIOUS
<1>5. g \in [S -> Nat]
  <2>1. \A i \in S : f[i] \in Nat
    BY <1>3
  <2>2. QED
    BY <1>4, <2>1
<1>6. h \in [S \cup {n} -> Nat]
  BY <1>3, <1>4
<1>7. h[n] = f[n] /\ \A y \in S : h[y] = g[y]
  BY <1>4
<1>8. SumOf(h) = SumOf(g) + h[n]
  <2>1. \A y \in S : h[y] = g[y]
    BY <1>7
  <2>2. QED
    BY <1>2, <1>3, <1>5, <1>6, <2>1, SumOfMore
<1>9. QED
  BY <1>1, <1>3, <1>4, <1>7, <1>8 DEF SumUpto

(* The sizes of pieces that begin where the one before ended add up to     *)
(* where the last one ends.                                                *)
LEMMA LengthsAddUp ==
  ASSUME NEW count \in Nat, NEW at \in [0..count -> Nat], at[0] = 0,
         NEW f \in [0..(count - 1) -> Nat],
         \A i \in 0..(count - 1) : at[i + 1] = at[i] + f[i]
  PROVE  SumOf(f) = at[count]
<1>1. \A i \in 0..(count - 1) : f[i] \in Nat
  OBVIOUS
<1>2. SumUpto(f, 0) = 0
  BY SumOfNone
<1>3. ASSUME NEW n \in 0..(count - 1), SumUpto(f, n) = at[n]
      PROVE  SumUpto(f, n + 1) = at[n + 1]
  <2>1. SumUpto(f, n + 1) = SumUpto(f, n) + f[n]
    <3>1. n \in Nat /\ 0..n \subseteq 0..(count - 1)
      OBVIOUS
    <3>2. QED
      BY <1>1, <3>1, SumOfOneMore
  <2>2. QED
    BY <1>3, <2>1
<1>4. PICK T : T = {n \in 0..count : SumUpto(f, n) # at[n]}
  OBVIOUS
<1>5. T = {}
  <2>1. SUFFICES ASSUME T # {} PROVE FALSE
    OBVIOUS
  <2>2. T \in SUBSET Nat
    BY <1>4
  <2>3. PICK x \in T : \A y \in T : x <= y
    BY <2>1, <2>2, LeastNumber
  <2>4. x \in 0..count /\ SumUpto(f, x) # at[x]
    BY <1>4, <2>3
  <2>5. x # 0
    BY <1>2, <2>4
  <2>6. PICK w \in 0..(count - 1) : w + 1 = x /\ w \in 0..count /\ ~(x <= w)
    <3>1. x - 1 \in 0..(count - 1) /\ (x - 1) + 1 = x
          /\ x - 1 \in 0..count /\ ~(x <= x - 1)
      BY <2>4, <2>5
    <3>2. QED
      BY <3>1
  <2>7. SumUpto(f, w) # at[w]
    BY <1>3, <2>4, <2>6
  <2>8. w \in T
    BY <1>4, <2>6, <2>7
  <2>9. QED
    BY <2>3, <2>6, <2>8
<1>6. count \in 0..count /\ f = [i \in 0..(count - 1) |-> f[i]]
  OBVIOUS
<1>7. SumUpto(f, count) = at[count]
  BY <1>4, <1>5, <1>6
<1>8. QED
  BY <1>6, <1>7 DEF SumUpto

(* split makes chunks that validate lets through, their lengths adding up  *)
(* to the size in the manifest, and that tile the content: the first       *)
(* begins with it, the last ends with it, each ends where the next begins, *)
(* and none is empty.                                                      *)
THEOREM SplitTiles ==
  ASSUME NEW content \in Seq(Byte), NEW count \in Nat \ {0},
         count <= Len(content)
  PROVE  /\ Start(Len(content), count, 0) = 0
         /\ Start(Len(content), count, count) = Len(content)
         /\ \A i \in 0..(count - 1) :
              Len(Split(content, count)[i]) =
                Start(Len(content), count, i + 1) - Start(Len(content), count, i)
         /\ LengthsValidate("exact", Len(content),
                            Lengths(Split(content, count)))
<1>1. PICK size \in Nat : size = Len(content) /\ count <= size
  BY LenProperties
<1>2. Start(size, count, 0) = 0 /\ Start(size, count, count) = size
  BY StartEnds
<1>3. ASSUME NEW i \in 0..(count - 1)
      PROVE  /\ Len(Split(content, count)[i]) =
                  Start(size, count, i + 1) - Start(size, count, i)
             /\ Len(Split(content, count)[i]) > 0
  <2>1. i \in Nat /\ i \in 0..count /\ i + 1 \in 0..count
    OBVIOUS
  <2>2. PICK s \in 0..size : s = Start(size, count, i)
    BY <2>1, StartInside
  <2>3. PICK t \in 0..size : t = Start(size, count, i + 1)
    BY <2>1, StartInside
  <2>4. s < t
    BY <1>1, <2>1, <2>2, <2>3, StartIncreases
  <2>5. Split(content, count)[i] = SubSeq(content, s + 1, t)
    BY <1>1, <2>2, <2>3 DEF Split
  <2>6. \A n \in (s + 1)..t : content[n] \in Byte
    BY <1>1, ElementOfSeq
  <2>7. Len(SubSeq(content, s + 1, t)) = IF s + 1 <= t THEN t - (s + 1) + 1 ELSE 0
    <3>1. s + 1 \in Int /\ t \in Int
      OBVIOUS
    <3>2. QED
      BY <2>6, <3>1, SubSeqProperties
  <2>8. Len(Split(content, count)[i]) = t - s /\ t - s > 0
    BY <2>4, <2>5, <2>7
  <2>9. QED
    BY <2>2, <2>3, <2>8
<1>4. SumOf(Lengths(Split(content, count))) = size
  <2>1. PICK at : at = [i \in 0..count |-> Start(size, count, i)]
    OBVIOUS
  <2>2. at \in [0..count -> Nat] /\ at[0] = 0 /\ at[count] = size
    <3>1. ASSUME NEW i \in 0..count PROVE Start(size, count, i) \in Nat
      <4>1. i \in Nat
        OBVIOUS
      <4>2. QED
        BY <4>1, StartIs
    <3>2. 0 \in 0..count /\ count \in 0..count
      OBVIOUS
    <3>3. QED
      BY <1>2, <2>1, <3>1, <3>2
  <2>3. PICK f : f = Lengths(Split(content, count))
    OBVIOUS
  <2>4. f = [i \in 0..(count - 1) |-> Len(Split(content, count)[i])]
    <3>1. DOMAIN Split(content, count) = 0..(count - 1)
      BY DEF Split
    <3>2. QED
      BY <2>3, <3>1 DEF Lengths
  <2>5. ASSUME NEW i \in 0..(count - 1)
        PROVE  f[i] \in Nat /\ at[i + 1] = at[i] + f[i]
    <3>1. i \in 0..count /\ i + 1 \in 0..count
      OBVIOUS
    <3>2. PICK s, t : s \in Nat /\ t \in Nat /\ s = at[i] /\ t = at[i + 1]
      BY <2>2, <3>1
    <3>3. s = Start(size, count, i) /\ t = Start(size, count, i + 1)
      BY <2>1, <3>1, <3>2
    <3>4. f[i] = t - s /\ t - s > 0
      BY <1>3, <2>4, <3>3
    <3>5. QED
      BY <3>2, <3>4
  <2>6. f \in [0..(count - 1) -> Nat]
    BY <2>4, <2>5
  <2>7. count \in Nat
    OBVIOUS
  <2>8. QED
    BY <2>2, <2>3, <2>5, <2>6, <2>7, LengthsAddUp
<1>5. LengthsValidate("exact", Len(content), Lengths(Split(content, count)))
  <2>1. DOMAIN Split(content, count) = 0..(count - 1)
    BY DEF Split
  <2>2. QED
    BY <1>1, <1>3, <1>4, <2>1 DEF LengthsValidate, Lengths, SumOf
<1>6. QED
  BY <1>1, <1>2, <1>3, <1>5

-----------------------------------------------------------------------------
(* The equation of the function in Joined, and that it has one solution.   *)
IsJoin(f, chunks, count) ==
  f = [n \in 0..count |->
         IF n = 0 THEN <<>> ELSE f[n - 1] \o chunks[n - 1]]

LEMMA JoinUnique ==
  ASSUME NEW f, NEW g, NEW chunks, NEW count \in Nat,
         IsJoin(f, chunks, count), IsJoin(g, chunks, count)
  PROVE  f[count] = g[count]
<1>1. ASSUME NEW n \in 0..count
      PROVE  /\ n = 0 => f[n] = g[n]
             /\ n # 0 /\ f[n - 1] = g[n - 1] => f[n] = g[n]
  <2>1. f[n] = IF n = 0 THEN <<>> ELSE f[n - 1] \o chunks[n - 1]
    BY DEF IsJoin
  <2>2. g[n] = IF n = 0 THEN <<>> ELSE g[n - 1] \o chunks[n - 1]
    BY DEF IsJoin
  <2>3. QED
    BY <2>1, <2>2
<1>2. PICK T : T = {n \in 0..count : f[n] # g[n]}
  OBVIOUS
<1>3. T = {}
  <2>1. SUFFICES ASSUME T # {} PROVE FALSE
    OBVIOUS
  <2>2. T \in SUBSET Nat
    BY <1>2
  <2>3. PICK x \in T : \A y \in T : x <= y
    BY <2>1, <2>2, LeastNumber
  <2>4. x \in 0..count /\ f[x] # g[x]
    BY <1>2, <2>3
  <2>5. x # 0 /\ f[x - 1] # g[x - 1]
    BY <1>1, <2>4
  <2>6. x - 1 \in 0..count /\ ~(x <= x - 1)
    BY <2>4, <2>5
  <2>7. x - 1 \in T
    BY <1>2, <2>5, <2>6
  <2>8. QED
    BY <2>3, <2>6, <2>7
<1>4. QED
  BY <1>2, <1>3

LEMMA JoinedIs ==
  ASSUME NEW g, NEW chunks, NEW count \in Nat, IsJoin(g, chunks, count)
  PROVE  Joined(chunks, count) = g[count]
<1>1. PICK f : f = CHOOSE upto : IsJoin(upto, chunks, count)
  OBVIOUS
<1>2. IsJoin(f, chunks, count)
  BY <1>1
<1>3. Joined(chunks, count) = f[count]
  BY <1>1 DEF Joined, IsJoin
<1>4. QED
  BY <1>2, <1>3, JoinUnique

(* The chunks of an exact split, joined in their order, are the content.   *)
THEOREM SplitJoins ==
  ASSUME NEW content \in Seq(Byte), NEW count \in Nat \ {0}, NEW chunks,
         \A i \in 0..(count - 1) : chunks[i] = Split(content, count)[i]
  PROVE  Joined(chunks, count) = content
<1>1. PICK size \in Nat : size = Len(content)
  BY LenProperties
<1>2. PICK g : g = [n \in 0..count |-> SubSeq(content, 1, Start(size, count, n))]
  OBVIOUS
<1>3. ASSUME NEW n \in 0..count
      PROVE  g[n] = IF n = 0 THEN <<>> ELSE g[n - 1] \o chunks[n - 1]
  <2>1. CASE n = 0
    <3>1. g[n] = SubSeq(content, 1, 0)
      BY <1>2, <2>1, StartEnds
    <3>2. SubSeq(content, 1, 0) = <<>>
      BY SubSeqEmpty
    <3>3. QED
      BY <2>1, <3>1, <3>2
  <2>2. CASE n # 0
    <3>1. PICK m \in Nat : m = n - 1 /\ m \in 0..(count - 1) /\ m \in 0..count
                           /\ m <= n /\ m + 1 = n /\ n \in Nat
      BY <2>2
    <3>2. PICK s \in 0..size : s = Start(size, count, m)
      BY <3>1, StartInside
    <3>3. PICK t \in 0..size : t = Start(size, count, n)
      BY StartInside
    <3>4. s <= t
      BY <3>1, <3>2, <3>3, StartGrows
    <3>5. chunks[m] = SubSeq(content, s + 1, t)
      BY <1>1, <3>1, <3>2, <3>3 DEF Split
    <3>6. SubSeq(content, 1, s) \o SubSeq(content, s + 1, t)
            = SubSeq(content, 1, t)
      <4>1. 1 \in 1..(Len(content) + 1) /\ s \in (1 - 1)..Len(content)
            /\ t \in s..Len(content)
        BY <1>1, <3>4
      <4>2. QED
        BY <4>1, ConcatAdjacentSubSeq
    <3>7. g[m] = SubSeq(content, 1, s) /\ g[n] = SubSeq(content, 1, t)
      BY <1>2, <3>1, <3>2, <3>3
    <3>8. QED
      BY <2>2, <3>1, <3>5, <3>6, <3>7
  <2>3. QED
    BY <2>1, <2>2
<1>4. IsJoin(g, chunks, count)
  BY <1>2, <1>3 DEF IsJoin
<1>5. Joined(chunks, count) = g[count]
  BY <1>4, JoinedIs
<1>6. g[count] = SubSeq(content, 1, size)
  BY <1>2, StartEnds
<1>7. QED
  BY <1>1, <1>5, <1>6, SubSeqFull

-----------------------------------------------------------------------------
LEMMA FunctionIsSeq ==
  ASSUME NEW S, NEW w \in Nat, NEW f \in [1..w -> S]
  PROVE  f \in Seq(S) /\ Len(f) = w
<1>1. f \in Seq(S)
  BY SeqDef
<1>2. Len(f) \in Nat /\ DOMAIN f = 1..Len(f)
  BY <1>1, LenProperties
<1>3. 1..Len(f) = 1..w
  BY <1>2
<1>4. QED
  BY <1>1, <1>2, <1>3

LEMMA XorBytesIs ==
  ASSUME NEW w \in Nat, NEW s \in Seq(Byte), NEW t \in Seq(Byte),
         Len(s) = w, Len(t) = w
  PROVE  /\ XorBytes(s, t) \in Seq(Byte) /\ Len(XorBytes(s, t)) = w
         /\ \A n \in 1..w : XorBytes(s, t)[n] = Xor(s[n], t[n])
<1>1. PICK x : x = XorBytes(s, t)
  OBVIOUS
<1>2. x = [n \in 1..w |-> Xor(s[n], t[n])]
  BY <1>1 DEF XorBytes
<1>3. \A n \in 1..w : Xor(s[n], t[n]) \in Byte
  <2>1. ASSUME NEW n \in 1..w PROVE s[n] \in Byte /\ t[n] \in Byte
    BY ElementOfSeq
  <2>2. QED
    BY <2>1 DEF Byte, Xor
<1>4. x \in [1..w -> Byte]
  BY <1>2, <1>3
<1>5. QED
  BY <1>1, <1>2, <1>4, FunctionIsSeq

(* Two of two chunks and their XOR give the third. *)
LEMMA XorGivesBack ==
  ASSUME NEW w \in Nat, NEW s \in Seq(Byte), NEW t \in Seq(Byte),
         Len(s) = w, Len(t) = w
  PROVE  /\ XorBytes(s, XorBytes(s, t)) = t
         /\ XorBytes(t, XorBytes(s, t)) = s
<1>1. PICK x : x = XorBytes(s, t)
  OBVIOUS
<1>2. x \in Seq(Byte) /\ Len(x) = w /\ \A n \in 1..w : x[n] = Xor(s[n], t[n])
  BY <1>1, XorBytesIs
<1>3. \A a, b : Xor(a, Xor(a, b)) = b /\ Xor(b, Xor(a, b)) = a
  BY DEF Xor
<1>4. XorBytes(s, x) = t
  <2>1. /\ XorBytes(s, x) \in Seq(Byte) /\ Len(XorBytes(s, x)) = w
        /\ \A n \in 1..w : XorBytes(s, x)[n] = Xor(s[n], x[n])
    BY <1>2, XorBytesIs
  <2>2. \A n \in 1..w : XorBytes(s, x)[n] = t[n]
    BY <1>2, <1>3, <2>1
  <2>3. QED
    BY <2>1, <2>2, SeqEqual
<1>5. XorBytes(t, x) = s
  <2>1. /\ XorBytes(t, x) \in Seq(Byte) /\ Len(XorBytes(t, x)) = w
        /\ \A n \in 1..w : XorBytes(t, x)[n] = Xor(t[n], x[n])
    BY <1>2, XorBytesIs
  <2>2. \A n \in 1..w : XorBytes(t, x)[n] = s[n]
    BY <1>2, <1>3, <2>1
  <2>3. QED
    BY <2>1, <2>2, SeqEqual
<1>6. QED
  BY <1>1, <1>4, <1>5

LEMMA WidthIs ==
  ASSUME NEW size \in Nat
  PROVE  /\ Width(size) \in Nat /\ Width(size) <= size
         /\ size <= Width(size) + Width(size)
BY DEF Width

(* The two halves, and that the content is at the front of them. *)
LEMMA Halves ==
  ASSUME NEW content \in Seq(Byte)
  PROVE  LET w    == Width(Len(content))
             left == SubSeq(content, 1, w)
         IN  /\ w \in Nat
             /\ left \in Seq(Byte) /\ Len(left) = w
             /\ Right(content) \in Seq(Byte) /\ Len(Right(content)) = w
             /\ SubSeq(left \o Right(content), 1, Len(content)) = content
<1>1. PICK size \in Nat : size = Len(content)
  BY LenProperties
<1>2. PICK w \in Nat : w = Width(Len(content)) /\ w <= size /\ size <= w + w
  BY <1>1, WidthIs
<1>3. PICK left : left = SubSeq(content, 1, w)
  OBVIOUS
<1>4. PICK right : right = Right(content)
  OBVIOUS
<1>5. /\ left \in Seq(Byte) /\ Len(left) = w
      /\ \A n \in 1..w : left[n] = content[n]
  <2>1. \A n \in 1..w : content[n] \in Byte
    BY <1>1, <1>2, ElementOfSeq
  <2>2. 1 \in Int /\ w \in Int
    OBVIOUS
  <2>3. /\ SubSeq(content, 1, w) \in Seq(Byte)
        /\ Len(SubSeq(content, 1, w)) = IF 1 <= w THEN w - 1 + 1 ELSE 0
        /\ \A n \in 1..(w - 1 + 1) : SubSeq(content, 1, w)[n] = content[1 + n - 1]
    BY <2>1, <2>2, SubSeqProperties
  <2>4. (IF 1 <= w THEN w - 1 + 1 ELSE 0) = w /\ w - 1 + 1 = w
        /\ \A n \in 1..w : 1 + n - 1 = n
    OBVIOUS
  <2>5. QED
    BY <1>3, <2>3, <2>4
<1>6. right = [n \in 1..w |-> IF w + n <= size THEN content[w + n] ELSE {}]
  BY <1>1, <1>2, <1>4 DEF Right
<1>7. right \in Seq(Byte) /\ Len(right) = w
  <2>1. \A n \in 1..w :
          (IF w + n <= size THEN content[w + n] ELSE {}) \in Byte
    <3>1. {} \in Byte
      BY DEF Byte
    <3>2. \A n \in 1..size : content[n] \in Byte
      BY <1>1, ElementOfSeq
    <3>3. \A n \in 1..w : w + n <= size => w + n \in 1..size
      OBVIOUS
    <3>4. QED
      BY <3>1, <3>2, <3>3
  <2>2. right \in [1..w -> Byte]
    BY <1>6, <2>1
  <2>3. QED
    BY <2>2, FunctionIsSeq
<1>8. PICK both : both = left \o right
  OBVIOUS
<1>9. /\ both \in Seq(Byte) /\ Len(both) = w + w
      /\ \A n \in 1..(w + w) : both[n] = IF n <= w THEN left[n] ELSE right[n - w]
  <2>1. /\ left \o right \in Seq(Byte)
        /\ Len(left \o right) = Len(left) + Len(right)
        /\ \A n \in 1..(Len(left) + Len(right)) :
             (left \o right)[n] =
               IF n <= Len(left) THEN left[n] ELSE right[n - Len(left)]
    BY <1>5, <1>7, ConcatProperties
  <2>2. Len(left) = w /\ Len(right) = w
    BY <1>5, <1>7
  <2>3. QED
    BY <1>8, <2>1, <2>2
<1>10. \A n \in 1..size : both[n] = content[n]
  <2>1. ASSUME NEW n \in 1..size, n <= w PROVE both[n] = content[n]
    BY <1>2, <1>5, <1>9, <2>1
  <2>2. ASSUME NEW n \in 1..size, ~(n <= w) PROVE both[n] = content[n]
    <3>1. PICK m \in 1..w : m = n - w /\ w + m = n
      BY <1>2, <2>2
    <3>2. both[n] = right[m]
      <4>1. n \in 1..(w + w)
        BY <1>2
      <4>2. both[n] = IF n <= w THEN left[n] ELSE right[n - w]
        BY <1>9, <4>1
      <4>3. QED
        BY <2>2, <3>1, <4>2
    <3>3. right[m] = content[w + m]
      BY <1>6, <3>1
    <3>4. QED
      BY <3>1, <3>2, <3>3
  <2>3. QED
    BY <2>1, <2>2
<1>11. SubSeq(both, 1, size) = content
  <2>1. \A n \in 1..size : both[n] \in Byte
    BY <1>2, <1>9, ElementOfSeq
  <2>2. 1 \in Int /\ size \in Int
    OBVIOUS
  <2>3. /\ SubSeq(both, 1, size) \in Seq(Byte)
        /\ Len(SubSeq(both, 1, size)) = IF 1 <= size THEN size - 1 + 1 ELSE 0
        /\ \A n \in 1..(size - 1 + 1) : SubSeq(both, 1, size)[n] = both[1 + n - 1]
    BY <2>1, <2>2, SubSeqProperties
  <2>4. (IF 1 <= size THEN size - 1 + 1 ELSE 0) = size /\ size - 1 + 1 = size
        /\ \A n \in 1..size : 1 + n - 1 = n
    OBVIOUS
  <2>5. /\ Len(SubSeq(both, 1, size)) = Len(content)
        /\ \A n \in 1..Len(SubSeq(both, 1, size)) :
             SubSeq(both, 1, size)[n] = content[n]
    BY <1>1, <1>10, <2>3, <2>4
  <2>6. QED
    BY <2>3, <2>5, SeqEqual
<1>12. QED
  BY <1>1, <1>2, <1>3, <1>4, <1>5, <1>7, <1>8, <1>11

(* parity_split makes chunks that validate lets through, of any content it *)
(* does not refuse: all three have half its length, rounded up.            *)
THEOREM ParityValidates ==
  ASSUME NEW content \in Seq(Byte), Len(content) >= 2
  PROVE  LengthsValidate("xor2", Len(content), Lengths(ParitySplit(content)))
<1>1. PICK size \in Nat : size = Len(content) /\ size >= 2
  BY LenProperties
<1>2. PICK w \in Nat : w = Width(size) /\ w > 0
  <2>1. Width(size) \in Nat /\ size <= Width(size) + Width(size)
    BY WidthIs
  <2>2. QED
    BY <1>1, <2>1
<1>3. PICK left, right : left = SubSeq(content, 1, w) /\ right = Right(content)
  OBVIOUS
<1>4. /\ left \in Seq(Byte) /\ Len(left) = w
      /\ right \in Seq(Byte) /\ Len(right) = w
  BY <1>1, <1>2, <1>3, Halves
<1>5. Len(XorBytes(left, right)) = w
  BY <1>4, XorBytesIs
<1>6. PICK chunks : chunks = ParitySplit(content)
  OBVIOUS
<1>7. DOMAIN chunks = 0..2
      /\ chunks[0] = left /\ chunks[1] = right /\ chunks[2] = XorBytes(left, right)
  BY <1>1, <1>2, <1>3, <1>6 DEF ParitySplit
<1>8. \A i \in 0..2 : Len(chunks[i]) = w
  <2>1. 0..2 = {0, 1, 2}
    OBVIOUS
  <2>2. QED
    BY <1>4, <1>5, <1>7, <2>1
<1>9. PICK f : f = Lengths(chunks)
  OBVIOUS
<1>10. DOMAIN f = 0..2 /\ \A i \in 0..2 : f[i] = w
  BY <1>7, <1>8, <1>9 DEF Lengths
<1>11. LengthsValidate("xor2", size, f)
  BY <1>1, <1>2, <1>10 DEF LengthsValidate
<1>12. QED
  BY <1>1, <1>6, <1>9, <1>11

(* Any two of the three chunks of the parity code give the content back,   *)
(* of odd length too.                                                      *)
THEOREM ParityRecovers ==
  ASSUME NEW content \in Seq(Byte), NEW have \in SUBSET (0..2),
         NEW a \in have, NEW b \in have, a # b,
         NEW chunks, DOMAIN chunks = have,
         \A i \in have : chunks[i] = ParitySplit(content)[i],
         NEW count
  PROVE  Reconstruct("xor2", count, Len(content), chunks) = content
<1>1. PICK w \in Nat : w = Width(Len(content))
  BY Halves
<1>2. PICK left : left = SubSeq(content, 1, w)
  OBVIOUS
<1>3. PICK right : right = Right(content)
  OBVIOUS
<1>4. /\ left \in Seq(Byte) /\ Len(left) = w
      /\ right \in Seq(Byte) /\ Len(right) = w
      /\ SubSeq(left \o right, 1, Len(content)) = content
  BY <1>1, <1>2, <1>3, Halves
<1>5. /\ 0 \in have => chunks[0] = left
      /\ 1 \in have => chunks[1] = right
      /\ 2 \in have => chunks[2] = XorBytes(left, right)
  <2>1. /\ ParitySplit(content)[0] = left
        /\ ParitySplit(content)[1] = right
        /\ ParitySplit(content)[2] = XorBytes(left, right)
    BY <1>1, <1>2, <1>3 DEF ParitySplit
  <2>2. QED
    BY <2>1
<1>6. XorBytes(left, XorBytes(left, right)) = right
      /\ XorBytes(right, XorBytes(left, right)) = left
  BY <1>4, XorGivesBack
<1>7. Repaired(chunks)[0] = left
  <2>1. Repaired(chunks)[0] = IF 0 \in have THEN chunks[0]
                              ELSE XorBytes(chunks[1], chunks[2])
    <3>1. 1 - 0 = 1 /\ 0 \in {0, 1}
      OBVIOUS
    <3>2. QED
      BY <3>1 DEF Repaired
  <2>2. 0 \notin have => 1 \in have /\ 2 \in have
    OBVIOUS
  <2>3. QED
    BY <1>5, <1>6, <2>1, <2>2
<1>8. Repaired(chunks)[1] = right
  <2>1. Repaired(chunks)[1] = IF 1 \in have THEN chunks[1]
                              ELSE XorBytes(chunks[0], chunks[2])
    <3>1. 1 - 1 = 0 /\ 1 \in {0, 1}
      OBVIOUS
    <3>2. QED
      BY <3>1 DEF Repaired
  <2>2. 1 \notin have => 0 \in have /\ 2 \in have
    OBVIOUS
  <2>3. QED
    BY <1>5, <1>6, <2>1, <2>2
<1>9. QED
  BY <1>4, <1>7, <1>8 DEF Reconstruct
=============================================================================
