---------------------------- MODULE StreamProofs ----------------------------
(***************************************************************************)
(* Proofs about HybridStream, for every content, key, chunk size and cut: the  *)
(* receiver has what follows the header in the bytes it was given, and the     *)
(* stream implements Delivery.  The argument compares both ends with one      *)
(* sequence, the stream as it is when it is complete.                         *)
(***************************************************************************)
EXTENDS HybridStream, SequenceTheorems, TLAPS

\* All that a byte may be, and what is on the wire.
Bytes ==
    {"garbage"} \cup
    UNION {{s[i] : i \in DOMAIN s} : s \in Contents \cup Preambles \cup {SEPARATOR}}
Cells == [ctr : Nat, byte : Bytes]

\* The complete stream.
Body == IF algorithm = "HYBRID" THEN Cipher(content, 0) ELSE Clear(content)
Full == Header \o Body

Chosen ==
    /\ content \in Contents /\ preamble \in Preambles
    /\ source \in {"file", "memory"} /\ CHUNK_SIZE \in CHUNK_SIZES

-----------------------------------------------------------------------------
(* Sequences                                                                 *)

LEMMA Listed ==
    ASSUME NEW S, NEW n \in Nat, NEW f \in [1 .. n -> S]
    PROVE  f \in Seq(S) /\ Len(f) = n
<1>1. f \in Seq(S)
  BY SeqDef
<1> QED
  BY <1>1, LenProperties

LEMMA InBytes ==
    ASSUME NEW s \in Contents \cup Preambles \cup {SEPARATOR}
    PROVE  s \in Seq(Bytes)
<1>1. String(s)
  BY StreamAssumption
<1>2. {s[i] : i \in DOMAIN s} \subseteq Bytes
  BY DEF Bytes
<1> QED
  BY <1>1, <1>2, SeqMonotonic DEF String

LEMMA ClearIs ==
    ASSUME NEW s \in Seq(Bytes)
    PROVE  /\ Clear(s) \in Seq(Cells) /\ Len(Clear(s)) = Len(s)
           /\ \A i \in 1 .. Len(s) : Clear(s)[i] = [ctr |-> 0, byte |-> s[i]]
<1>1. Len(s) \in Nat /\ s \in [1 .. Len(s) -> Bytes] /\ DOMAIN s = 1 .. Len(s)
  BY LenProperties
<1>2. Clear(s) \in [1 .. Len(s) -> Cells]
  BY <1>1 DEF Clear, Cells
<1> QED
  BY <1>1, <1>2, Listed DEF Clear

LEMMA CipherIs ==
    ASSUME NEW s \in Seq(Bytes), NEW k \in Nat
    PROVE  /\ Cipher(s, k) \in Seq(Cells) /\ Len(Cipher(s, k)) = Len(s)
           /\ \A i \in 1 .. Len(s) : Cipher(s, k)[i] = [ctr |-> k + i, byte |-> s[i]]
<1>1. Len(s) \in Nat /\ s \in [1 .. Len(s) -> Bytes] /\ DOMAIN s = 1 .. Len(s)
  BY LenProperties
<1>2. Cipher(s, k) \in [1 .. Len(s) -> Cells]
  BY <1>1 DEF Cipher, Cells
<1> QED
  BY <1>1, <1>2, Listed DEF Cipher

LEMMA DecipherIs ==
    ASSUME NEW s \in Seq(Cells), NEW k \in Nat
    PROVE  /\ Decipher(s, k) \in Seq(Bytes) /\ Len(Decipher(s, k)) = Len(s)
           /\ \A i \in 1 .. Len(s) :
                 Decipher(s, k)[i] = IF s[i].ctr = k + i THEN s[i].byte ELSE "garbage"
<1>1. Len(s) \in Nat /\ s \in [1 .. Len(s) -> Cells] /\ DOMAIN s = 1 .. Len(s)
  BY LenProperties
<1>2. "garbage" \in Bytes
  BY DEF Bytes
<1>3. Decipher(s, k) \in [1 .. Len(s) -> Bytes]
  BY <1>1, <1>2 DEF Decipher, Cells
<1> QED
  BY <1>1, <1>3, Listed DEF Decipher

\* A part of a sequence.
LEMMA Part ==
    ASSUME NEW S, NEW s \in Seq(S), NEW a \in Nat, NEW b \in Nat, a <= b, b <= Len(s)
    PROVE  /\ SubSeq(s, a + 1, b) \in Seq(S) /\ Len(SubSeq(s, a + 1, b)) = b - a
           /\ \A i \in 1 .. b - a : SubSeq(s, a + 1, b)[i] = s[a + i]
<1>1. \A i \in a + 1 .. b : s[i] \in S
  BY ElementOfSeq, LenProperties
<1>2. /\ SubSeq(s, a + 1, b) \in Seq(S)
      /\ Len(SubSeq(s, a + 1, b)) = IF a + 1 <= b THEN b - (a + 1) + 1 ELSE 0
      /\ \A i \in 1 .. b - (a + 1) + 1 : SubSeq(s, a + 1, b)[i] = s[(a + 1) + i - 1]
  <2>1. a + 1 \in Int /\ b \in Int
    OBVIOUS
  <2> QED
    BY <1>1, <2>1, SubSeqProperties
<1> QED
  BY <1>2

LEMMA Longer ==
    ASSUME NEW S, NEW s \in Seq(S), NEW a \in Nat, NEW b \in Nat, a <= b, b <= Len(s)
    PROVE  SubSeq(s, 1, a) \o SubSeq(s, a + 1, b) = SubSeq(s, 1, b)
<1>1. Len(s) \in Nat
  BY LenProperties
<1>2. 1 \in 1 .. Len(s) + 1 /\ a \in 1 - 1 .. Len(s) /\ b \in a .. Len(s)
  BY <1>1
<1> QED
  BY <1>2, ConcatAdjacentSubSeq

LEMMA Prefix ==
    ASSUME NEW S, NEW s \in Seq(S), NEW b \in Nat, b <= Len(s)
    PROVE  /\ SubSeq(s, 1, b) \in Seq(S) /\ Len(SubSeq(s, 1, b)) = b
           /\ \A i \in 1 .. b : SubSeq(s, 1, b)[i] = s[i]
<1>1. /\ SubSeq(s, 0 + 1, b) \in Seq(S) /\ Len(SubSeq(s, 0 + 1, b)) = b - 0
      /\ \A i \in 1 .. b - 0 : SubSeq(s, 0 + 1, b)[i] = s[0 + i]
  <2>1. 0 \in Nat /\ 0 <= b
    OBVIOUS
  <2> QED
    BY <2>1, Part
<1> QED
  BY <1>1

LEMMA PartOfPrefix ==
    ASSUME NEW S, NEW s \in Seq(S), NEW a \in Nat, NEW b \in Nat, NEW n \in Nat,
           a <= b, b <= n, n <= Len(s)
    PROVE  SubSeq(SubSeq(s, 1, n), a + 1, b) = SubSeq(s, a + 1, b)
<1> DEFINE p == SubSeq(s, 1, n)
<1> HIDE DEF p
<1>0. Len(s) \in Nat
  BY LenProperties
<1>1. p \in Seq(S) /\ Len(p) = n /\ \A i \in 1 .. n : p[i] = s[i]
  BY Prefix DEF p
<1>2. /\ SubSeq(p, a + 1, b) \in Seq(S) /\ Len(SubSeq(p, a + 1, b)) = b - a
      /\ \A i \in 1 .. b - a : SubSeq(p, a + 1, b)[i] = p[a + i]
  BY <1>1, Part
<1>3. /\ SubSeq(s, a + 1, b) \in Seq(S) /\ Len(SubSeq(s, a + 1, b)) = b - a
      /\ \A i \in 1 .. b - a : SubSeq(s, a + 1, b)[i] = s[a + i]
  BY <1>0, Part
<1>4. \A i \in 1 .. b - a : a + i \in 1 .. n
  OBVIOUS
<1>5. \A i \in 1 .. Len(SubSeq(p, a + 1, b)) : SubSeq(p, a + 1, b)[i] = SubSeq(s, a + 1, b)[i]
  BY <1>1, <1>2, <1>3, <1>4
<1> QED
  BY <1>2, <1>3, <1>5, SeqEqual DEF p
-----------------------------------------------------------------------------
(* The complete stream                                                       *)

LEMMA HeaderIs ==
    ASSUME Chosen
    PROVE  /\ Header \in Seq(Cells) /\ Len(Header) \in Nat
           /\ algorithm = "HYBRID" =>
                 /\ preamble \o SEPARATOR \in Seq(Bytes)
                 /\ Len(Header) = Len(preamble) + Len(SEPARATOR)
                 /\ Len(preamble) \in Nat \ {0} /\ Len(SEPARATOR) \in Nat \ {0}
                 /\ \A i \in 1 .. Len(Header) :
                       Header[i] = [ctr |-> 0, byte |-> (preamble \o SEPARATOR)[i]]
           /\ algorithm # "HYBRID" => Len(Header) = 0
<1>1. CASE algorithm # "HYBRID"
  <2>1. Header = << >>
    BY <1>1 DEF Header
  <2> QED
    BY <1>1, <2>1, EmptySeq
<1>2. CASE algorithm = "HYBRID"
  <2>1. preamble \in Seq(Bytes) /\ SEPARATOR \in Seq(Bytes) /\ preamble # << >> /\ SEPARATOR # << >>
    BY InBytes, StreamAssumption DEF Chosen
  <2>2. Len(preamble) \in Nat \ {0} /\ Len(SEPARATOR) \in Nat \ {0}
    BY <2>1, EmptySeq
  <2>3. preamble \o SEPARATOR \in Seq(Bytes) /\ Len(preamble \o SEPARATOR) = Len(preamble) + Len(SEPARATOR)
    BY <2>1, ConcatProperties
  <2>4. Header = Clear(preamble \o SEPARATOR)
    BY <1>2 DEF Header
  <2> DEFINE key == preamble \o SEPARATOR
  <2>5. key \in Seq(Bytes) /\ Len(key) \in Nat /\ Len(key) = Len(preamble) + Len(SEPARATOR) /\ Header = Clear(key)
    BY <2>2, <2>3, <2>4
  <2> HIDE DEF key
  <2>6. /\ Header \in Seq(Cells) /\ Len(Header) = Len(key)
        /\ \A i \in 1 .. Len(key) : Header[i] = [ctr |-> 0, byte |-> key[i]]
    BY <2>5, ClearIs
  <2> QED
    BY <1>2, <2>2, <2>5, <2>6 DEF key
<1> QED
  BY <1>1, <1>2

LEMMA BodyIs ==
    ASSUME Chosen
    PROVE  /\ content \in Seq(Bytes) /\ Len(content) \in Nat
           /\ Body \in Seq(Cells) /\ Len(Body) = Len(content)
           /\ \A i \in 1 .. Len(content) :
                 Body[i] = [ctr |-> IF algorithm = "HYBRID" THEN i ELSE 0, byte |-> content[i]]
<1>1. content \in Seq(Bytes) /\ Len(content) \in Nat
  BY InBytes, LenProperties DEF Chosen
<1>2. CASE algorithm # "HYBRID"
  BY <1>1, <1>2, ClearIs DEF Body
<1>3. CASE algorithm = "HYBRID"
  <2>1. /\ Cipher(content, 0) \in Seq(Cells) /\ Len(Cipher(content, 0)) = Len(content)
        /\ \A i \in 1 .. Len(content) : Cipher(content, 0)[i] = [ctr |-> 0 + i, byte |-> content[i]]
    BY <1>1, CipherIs
  <2> QED
    BY <1>1, <1>3, <2>1 DEF Body
<1> QED
  BY <1>2, <1>3

LEMMA FullIs ==
    ASSUME Chosen
    PROVE  /\ Full \in Seq(Cells) /\ Len(Full) = Len(Header) + Len(content)
           /\ \A i \in 1 .. Len(Header) : Full[i] = Header[i]
           /\ \A i \in 1 .. Len(content) :
                 Full[Len(Header) + i] =
                    [ctr |-> IF algorithm = "HYBRID" THEN i ELSE 0, byte |-> content[i]]
<1>1. Header \in Seq(Cells) /\ Len(Header) \in Nat
  BY HeaderIs
<1>2. /\ Full \in Seq(Cells) /\ Len(Full) = Len(Header) + Len(Body)
      /\ \A i \in 1 .. Len(Header) + Len(Body) :
            Full[i] = IF i <= Len(Header) THEN Header[i] ELSE Body[i - Len(Header)]
  BY <1>1, BodyIs, ConcatProperties DEF Full
<1>3. ASSUME NEW i \in 1 .. Len(content) PROVE Full[Len(Header) + i] = Body[i]
  <2>1. /\ Len(Header) + i \in 1 .. Len(Header) + Len(Body)
        /\ ~(Len(Header) + i <= Len(Header)) /\ (Len(Header) + i) - Len(Header) = i
    BY <1>1, BodyIs
  <2> QED
    BY <1>2, <2>1
<1>4. \A i \in 1 .. Len(Header) : i \in 1 .. Len(Header) + Len(Body) /\ i <= Len(Header)
  BY <1>1, BodyIs
<1> QED
  BY <1>2, <1>3, <1>4, BodyIs

Chunk(a, b) == SubSeq(content, a + 1, b)
PartOf(a, b) == SubSeq(Full, Len(Header) + a + 1, Len(Header) + b)

\* A chunk of the content, and its place in the complete stream.
LEMMA PartIs ==
    ASSUME Chosen, NEW a \in Nat, NEW b \in Nat, a <= b, b <= Len(content)
    PROVE  /\ Chunk(a, b) \in Seq(Bytes) /\ Len(Chunk(a, b)) = b - a
           /\ PartOf(a, b) \in Seq(Cells) /\ Len(PartOf(a, b)) = b - a
           /\ \A i \in 1 .. b - a :
                 /\ Chunk(a, b)[i] \in Bytes
                 /\ PartOf(a, b)[i] =
                       [ctr |-> IF algorithm = "HYBRID" THEN a + i ELSE 0, byte |-> Chunk(a, b)[i]]
<1> DEFINE h == Len(Header)
           chunk == SubSeq(content, a + 1, b)
           part == SubSeq(Full, h + a + 1, h + b)
<1>0. Len(content) \in Nat /\ h \in Nat /\ h + a \in Nat /\ h + b \in Nat /\ h + a <= h + b /\ h + b <= Len(Full)
  BY HeaderIs, FullIs, BodyIs
<1>1. /\ chunk \in Seq(Bytes) /\ Len(chunk) = b - a
      /\ \A i \in 1 .. b - a : chunk[i] = content[a + i] /\ chunk[i] \in Bytes
  <2>1. /\ chunk \in Seq(Bytes) /\ Len(chunk) = b - a
        /\ \A i \in 1 .. b - a : chunk[i] = content[a + i]
    BY BodyIs, Part
  <2> HIDE DEF chunk
  <2> QED
    BY <2>1, ElementOfSeq
<1>2. /\ part \in Seq(Cells) /\ Len(part) = (h + b) - (h + a)
      /\ \A i \in 1 .. (h + b) - (h + a) : part[i] = Full[(h + a) + i]
  <2> DEFINE x == h + a
             y == h + b
  <2>1. part = SubSeq(Full, x + 1, y) /\ x \in Nat /\ y \in Nat /\ x <= y /\ y <= Len(Full)
    BY <1>0
  <2>2. Full \in Seq(Cells)
    BY FullIs
  <2> HIDE DEF part, x, y
  <2>3. part \in Seq(Cells) /\ Len(part) = y - x /\ \A i \in 1 .. y - x : part[i] = Full[x + i]
    BY <2>1, <2>2, Part
  <2> QED
    BY <2>3 DEF x, y
<1> HIDE DEF chunk, part, h
<1>3. Len(part) = b - a /\ \A i \in 1 .. b - a : part[i] = Full[h + (a + i)] /\ a + i \in 1 .. Len(content)
  <2>1. (h + b) - (h + a) = b - a
    BY <1>0
  <2>2. ASSUME NEW i \in 1 .. b - a
        PROVE  (h + a) + i = h + (a + i) /\ a + i \in 1 .. Len(content)
    <3>1. i \in Nat /\ 1 <= i /\ i <= b - a /\ Len(content) \in Nat
      BY <1>0
    <3> QED
      BY <1>0, <3>1
  <2> QED
    BY <1>2, <2>1, <2>2
<1>4. \A i \in 1 .. b - a :
         part[i] = [ctr |-> IF algorithm = "HYBRID" THEN a + i ELSE 0, byte |-> chunk[i]]
  <2>1. \A k \in 1 .. Len(content) :
           Full[h + k] = [ctr |-> IF algorithm = "HYBRID" THEN k ELSE 0, byte |-> content[k]]
    BY FullIs DEF h
  <2> QED
    BY <1>1, <1>3, <2>1
<1> QED
  BY <1>1, <1>2, <1>3, <1>4 DEF chunk, part, h, Chunk, PartOf

\* What the sender yields for a chunk is the part of the complete stream at its place.
LEMMA ChunkSent ==
    ASSUME Chosen, NEW a \in Nat, NEW b \in Nat, a <= b, b <= Len(content), sender.ctr = a
    PROVE  Ciphered(Chunk(a, b)) = PartOf(a, b)
<1>1. /\ Ciphered(Chunk(a, b)) \in Seq(Cells) /\ Len(Ciphered(Chunk(a, b))) = Len(Chunk(a, b))
      /\ \A i \in 1 .. Len(Chunk(a, b)) :
            Ciphered(Chunk(a, b))[i] =
               [ctr |-> IF algorithm = "HYBRID" THEN a + i ELSE 0, byte |-> Chunk(a, b)[i]]
  <2>1. CASE algorithm = "HYBRID"
    <3>1. Ciphered(Chunk(a, b)) = Cipher(Chunk(a, b), a)
      BY <2>1 DEF Ciphered
    <3>2. Chunk(a, b) \in Seq(Bytes)
      BY PartIs
    <3>3. /\ Cipher(Chunk(a, b), a) \in Seq(Cells) /\ Len(Cipher(Chunk(a, b), a)) = Len(Chunk(a, b))
          /\ \A i \in 1 .. Len(Chunk(a, b)) :
                Cipher(Chunk(a, b), a)[i] = [ctr |-> a + i, byte |-> Chunk(a, b)[i]]
      BY <3>2, CipherIs
    <3> QED
      BY <2>1, <3>1, <3>3
  <2>2. CASE algorithm # "HYBRID"
    BY <2>2, PartIs, ClearIs DEF Ciphered
  <2> QED
    BY <2>1, <2>2
<1>2. /\ PartOf(a, b) \in Seq(Cells) /\ Len(PartOf(a, b)) = b - a /\ Len(Chunk(a, b)) = b - a
      /\ \A i \in 1 .. b - a :
            PartOf(a, b)[i] = [ctr |-> IF algorithm = "HYBRID" THEN a + i ELSE 0, byte |-> Chunk(a, b)[i]]
  BY PartIs
<1>3. /\ Len(Ciphered(Chunk(a, b))) = Len(PartOf(a, b))
      /\ \A i \in 1 .. Len(Ciphered(Chunk(a, b))) : Ciphered(Chunk(a, b))[i] = PartOf(a, b)[i]
  BY <1>1, <1>2
<1> QED
  BY <1>1, <1>2, <1>3, SeqEqual

\* Reading a part of the body at its own counter gives the part of the content.
LEMMA ChunkRead ==
    ASSUME Chosen, NEW a \in Nat, NEW b \in Nat, a <= b, b <= Len(content)
    PROVE  /\ algorithm = "HYBRID" => Decipher(PartOf(a, b), a) = Chunk(a, b)
           /\ [i \in DOMAIN PartOf(a, b) |-> PartOf(a, b)[i].byte] = Chunk(a, b)
<1> DEFINE chunk == Chunk(a, b)
           part == PartOf(a, b)
<1> HIDE DEF chunk, part
<1>1. /\ chunk \in Seq(Bytes) /\ Len(chunk) = b - a
      /\ part \in Seq(Cells) /\ Len(part) = b - a
      /\ \A i \in 1 .. b - a :
            /\ chunk[i] \in Bytes
            /\ part[i] = [ctr |-> IF algorithm = "HYBRID" THEN a + i ELSE 0, byte |-> chunk[i]]
  BY PartIs DEF chunk, part
<1>2. ASSUME algorithm = "HYBRID" PROVE Decipher(part, a) = chunk
  <2>1. /\ Decipher(part, a) \in Seq(Bytes) /\ Len(Decipher(part, a)) = b - a
        /\ \A i \in 1 .. b - a :
              Decipher(part, a)[i] = IF part[i].ctr = a + i THEN part[i].byte ELSE "garbage"
    BY <1>1, DecipherIs
  <2>2. ASSUME NEW i \in 1 .. b - a PROVE Decipher(part, a)[i] = chunk[i]
    <3>1. part[i] = [ctr |-> a + i, byte |-> chunk[i]]
      BY <1>1, <1>2
    <3>2. part[i].ctr = a + i /\ part[i].byte = chunk[i]
      BY <3>1
    <3> QED
      BY <2>1, <3>2
  <2> QED
    BY <1>1, <2>1, <2>2, SeqEqual
<1>3. [i \in DOMAIN part |-> part[i].byte] = chunk
  <2> DEFINE text == [i \in DOMAIN part |-> part[i].byte]
  <2>1. DOMAIN part = 1 .. b - a /\ b - a \in Nat
    BY <1>1, LenProperties
  <2>2. text \in [1 .. b - a -> Bytes] /\ \A i \in 1 .. b - a : text[i] = chunk[i]
    BY <1>1, <2>1
  <2> HIDE DEF text
  <2>3. text \in Seq(Bytes) /\ Len(text) = b - a
    BY <2>1, <2>2, Listed
  <2>4. text = chunk
    BY <1>1, <2>2, <2>3, SeqEqual
  <2> QED
    BY <2>4 DEF text
<1> QED
  BY <1>2, <1>3 DEF part, chunk

-----------------------------------------------------------------------------
(* The search for the separator                                              *)

LEMMA LeastOf ==
    ASSUME NEW T, T \subseteq Nat, NEW m \in T, \A q \in T : m <= q
    PROVE  Min(T) = m
<1>1. \A x \in T : (\A y \in T : x <= y) => x = m
  OBVIOUS
<1> QED
  BY <1>1 DEF Min

\* The separator is found once all of the header has arrived, at the end of the key.
LEMMA FindIs ==
    ASSUME Chosen, algorithm = "HYBRID", NEW n \in Nat, n <= Len(Full)
    PROVE  Find(SubSeq(Full, 1, n)) = IF n < Len(Header) THEN -1 ELSE Len(preamble)
<1> DEFINE h == Len(Header)
           key == preamble \o SEPARATOR
           k == Len(preamble)
           l == Len(SEPARATOR)
           sep == Clear(SEPARATOR)
           data == SubSeq(Full, 1, n)
           at == {p \in 0 .. Len(data) - Len(sep) : SubSeq(data, p + 1, p + Len(sep)) = sep}
<1>0. h = k + l /\ k \in Nat \ {0} /\ l \in Nat \ {0} /\ h \in Nat /\ h <= Len(Full) /\ Full \in Seq(Cells)
  BY HeaderIs, FullIs, BodyIs
<1>1. SEPARATOR \in Seq(Bytes) /\ preamble \in Seq(Bytes)
  BY InBytes DEF Chosen
<1>2. /\ sep \in Seq(Cells) /\ Len(sep) = l
      /\ \A i \in 1 .. l : sep[i] = [ctr |-> 0, byte |-> SEPARATOR[i]]
  BY <1>1, ClearIs
<1>3. /\ key \in Seq(Bytes) /\ Len(key) = h
      /\ \A i \in 1 .. h : Full[i] = [ctr |-> 0, byte |-> key[i]]
      /\ \A i \in 1 .. l : key[k + i] = SEPARATOR[i]
  <2>1. /\ key \in Seq(Bytes) /\ Len(key) = k + l
        /\ \A i \in 1 .. k + l : key[i] = IF i <= k THEN preamble[i] ELSE SEPARATOR[i - k]
    BY <1>1, ConcatProperties
  <2>2. \A i \in 1 .. h : Full[i] = [ctr |-> 0, byte |-> key[i]]
    BY HeaderIs, FullIs
  <2>3. \A i \in 1 .. l : k + i \in 1 .. k + l /\ ~(k + i <= k) /\ (k + i) - k = i
    BY <1>0
  <2> HIDE DEF key, k, l, h
  <2> QED
    BY <1>0, <2>1, <2>2, <2>3
<1>4. data \in Seq(Cells) /\ Len(data) = n
  BY <1>0, Prefix
<1> HIDE DEF h, k, l, sep, key
\* Inside of the header, the separator is only met at the end of the key.
<1>5. ASSUME NEW p \in Nat, p + l <= n, p + l <= h
      PROVE  SubSeq(data, p + 1, p + l) = sep <=> p = k
  <2> DEFINE here == SubSeq(Full, p + 1, p + l)
             bytes == SubSeq(key, p + 1, p + l)
  <2>1. p + l \in Nat /\ p <= p + l /\ p + l <= Len(Full) /\ (p + l) - p = l
    BY <1>0, <1>5
  <2>2. SubSeq(data, p + 1, p + l) = here
    BY <1>0, <1>5, <2>1, PartOfPrefix
  <2>3. here \in Seq(Cells) /\ Len(here) = l /\ \A i \in 1 .. l : here[i] = Full[p + i]
    <3>1. /\ here \in Seq(Cells) /\ Len(here) = (p + l) - p
          /\ \A i \in 1 .. (p + l) - p : here[i] = Full[p + i]
      <4>1. Full \in Seq(Cells) /\ p \in Nat /\ p + l \in Nat /\ p <= p + l /\ p + l <= Len(Full)
        BY <1>0, <2>1
      <4> QED
        BY <4>1, Part
    <3> QED
      BY <2>1, <3>1
  <2>4. bytes \in Seq(Bytes) /\ Len(bytes) = l /\ \A i \in 1 .. l : bytes[i] = key[p + i]
    BY <1>3, <1>5, <2>1, Part
  <2> HIDE DEF here, bytes
  <2>5. \A i \in 1 .. l : here[i] = [ctr |-> 0, byte |-> bytes[i]]
    <3>1. \A i \in 1 .. l : p + i \in 1 .. h
      BY <1>0, <1>5
    <3> QED
      BY <1>3, <2>3, <2>4, <3>1
  <2>6. ASSUME here = sep PROVE p = k
    <3>1. ASSUME NEW i \in 1 .. l PROVE bytes[i] = SEPARATOR[i]
      <4>1. [ctr |-> 0, byte |-> bytes[i]] = [ctr |-> 0, byte |-> SEPARATOR[i]]
        BY <1>2, <2>5, <2>6
      <4> QED
        BY <4>1
    <3>2. bytes = SEPARATOR
      BY <1>1, <2>4, <3>1, SeqEqual DEF l
    <3>3. p \in 0 .. k
      BY <1>0, <1>5
    <3>4. \A q \in 0 .. k : SubSeq(key, q + 1, q + l) = SEPARATOR => q = k
      BY StreamAssumption DEF Chosen, key, k, l
    <3> QED
      BY <3>2, <3>3, <3>4 DEF bytes
  <2>7. ASSUME p = k PROVE here = sep
    <3>1. ASSUME NEW i \in 1 .. l PROVE here[i] = sep[i]
      <4>1. bytes[i] = SEPARATOR[i]
        BY <1>3, <2>4, <2>7
      <4> QED
        BY <1>2, <2>5, <4>1
    <3> QED
      BY <1>2, <2>3, <3>1, SeqEqual
  <2> QED
    BY <2>2, <2>6, <2>7
<1>6. at = {p \in 0 .. n - l : SubSeq(data, p + 1, p + l) = sep}
  BY <1>2, <1>4
<1>7. Find(data) = IF at = {} THEN -1 ELSE Min(at)
  BY DEF Find, sep
<1> HIDE DEF data, at
<1>8. CASE n < h
  <2>1. \A p \in 0 .. n - l : p \in Nat /\ p + l <= n /\ p + l <= h /\ p # k
    BY <1>0, <1>8
  <2>2. at = {}
    BY <1>5, <1>6, <2>1
  <2> QED
    BY <1>7, <1>8, <2>2 DEF data, h
<1>9. CASE ~(n < h)
  <2>1. k \in at
    BY <1>0, <1>5, <1>6, <1>9
  <2>2. ASSUME NEW q \in at PROVE k <= q
    <3>1. q \in 0 .. n - l /\ SubSeq(data, q + 1, q + l) = sep
      BY <1>6
    <3>2. CASE q < k
      <4>1. q \in Nat /\ q + l <= n /\ q + l <= h /\ q # k
        BY <1>0, <3>1, <3>2
      <4> QED
        BY <1>5, <3>1, <4>1
    <3>3. q \in Nat
      BY <3>1
    <3> QED
      BY <1>0, <3>2, <3>3
  <2>3. at \subseteq Nat
    BY <1>6
  <2>4. Min(at) = k
    BY <2>1, <2>2, <2>3, LeastOf
  <2> QED
    BY <1>7, <1>9, <2>1, <2>4 DEF data, h, k
<1> QED
  BY <1>8, <1>9 DEF h
-----------------------------------------------------------------------------
(* The receiver                                                              *)

Receivers ==
    [state : {"open", "done", "corrupt", "broken"}, data : Seq(Cells), preamble_found : BOOLEAN,
     ctr : Nat, checksum : Seq(Bytes)]

\* How much of the content is in the first n bytes of the stream.
Got(n) == IF n > Len(Header) THEN n - Len(Header) ELSE 0

\* A receiver that was given n bytes.
ReceiverAt(r, n) ==
    /\ r \in Receivers
    /\ algorithm # "HYBRID" => r.ctr = 0
    /\ algorithm = "HYBRID" =>
          /\ r.preamble_found <=> n >= Len(Header)
          /\ r.ctr = Got(n)
          /\ ~r.preamble_found => r.data = SubSeq(Full, 1, n)

LEMMA GotIs ==
    ASSUME Chosen, NEW n \in Nat, n <= Len(Full)
    PROVE  Got(n) \in Nat /\ Got(n) <= Len(content) /\ Len(Header) \in Nat
BY HeaderIs, FullIs, BodyIs DEF Got

\* What decrypting a part of the body gives, at the counter where it begins.
LEMMA DecryptedIs ==
    ASSUME Chosen, NEW r \in Receivers, NEW a \in Nat, NEW b \in Nat, a <= b, b <= Len(content),
           r.ctr = a, algorithm = "HYBRID"
    PROVE  /\ Decrypted(r, PartOf(a, b)).text = Chunk(a, b)
           /\ Decrypted(r, PartOf(a, b)).receiver
                = [r EXCEPT !.ctr = b, !.checksum = r.checksum \o Chunk(a, b)]
           /\ Decrypted(r, PartOf(a, b)).receiver \in Receivers
<1>1. Decipher(PartOf(a, b), r.ctr) = Chunk(a, b)
  BY ChunkRead
<1>2. r.ctr + Len(PartOf(a, b)) = b
  <2>1. Len(PartOf(a, b)) = b - a
    BY PartIs
  <2> QED
    BY <2>1
<1>3. /\ Decrypted(r, PartOf(a, b)).text = Chunk(a, b)
      /\ Decrypted(r, PartOf(a, b)).receiver = [r EXCEPT !.ctr = b, !.checksum = r.checksum \o Chunk(a, b)]
  BY <1>1, <1>2 DEF Decrypted, Receivers
<1>4. r.checksum \o Chunk(a, b) \in Seq(Bytes)
  BY PartIs, ConcatProperties DEF Receivers
<1>5. [r EXCEPT !.ctr = b, !.checksum = r.checksum \o Chunk(a, b)] \in Receivers
  BY <1>4 DEF Receivers
<1> QED
  BY <1>3, <1>5

\* A part of the complete stream behind the header, written as a place in the content.
LEMMA BehindHeader ==
    ASSUME Chosen, NEW m \in Nat, NEW n \in Nat, Len(Header) <= m, m <= n, n <= Len(Full)
    PROVE  /\ SubSeq(Full, m + 1, n) = PartOf(Got(m), Got(n))
           /\ Got(m) \in Nat /\ Got(n) \in Nat /\ Got(m) <= Got(n) /\ Got(n) <= Len(content)
<1>1. Len(Header) \in Nat /\ Len(content) \in Nat /\ Len(Full) = Len(Header) + Len(content)
  BY HeaderIs, FullIs, BodyIs
<1>2. Got(m) = m - Len(Header) /\ Got(n) = n - Len(Header)
  BY <1>1 DEF Got
<1>3. Len(Header) + Got(m) + 1 = m + 1 /\ Len(Header) + Got(n) = n
  BY <1>1, <1>2
<1> QED
  BY <1>1, <1>2, <1>3 DEF PartOf

\* One update: the text is what the new bytes hold of the content.
LEMMA ReceivedIs ==
    ASSUME Chosen, NEW m \in Nat, NEW n \in Nat, m < n, n <= Len(Full), ReceiverAt(receiver, m)
    PROVE  LET got == Received(SubSeq(Full, m + 1, n))
           IN  /\ got.text = Chunk(Got(m), Got(n))
               /\ ReceiverAt(got.receiver, n)
               /\ got.receiver.state = receiver.state
               /\ got.receiver.checksum = receiver.checksum \o Chunk(Got(m), Got(n))
<1> DEFINE chunk == SubSeq(Full, m + 1, n)
           got == Received(chunk)
           Goal == /\ got.text = Chunk(Got(m), Got(n))
                   /\ ReceiverAt(got.receiver, n)
                   /\ got.receiver.state = receiver.state
                   /\ got.receiver.checksum = receiver.checksum \o Chunk(Got(m), Got(n))
<1> SUFFICES Goal
  OBVIOUS
<1>0. /\ Len(Header) \in Nat /\ Len(content) \in Nat /\ Len(Full) = Len(Header) + Len(content)
      /\ Full \in Seq(Cells) /\ content \in Seq(Bytes)
  BY HeaderIs, FullIs, BodyIs
<1>1. receiver \in Receivers
  BY DEF ReceiverAt
<1>2. CASE algorithm # "HYBRID"
  <2>1. Len(Header) = 0
    BY <1>2, HeaderIs
  <2>2. /\ chunk = PartOf(Got(m), Got(n))
        /\ Got(m) \in Nat /\ Got(n) \in Nat /\ Got(m) <= Got(n) /\ Got(n) <= Len(content)
    BY <2>1, BehindHeader
  <2>3. [i \in DOMAIN chunk |-> chunk[i].byte] = Chunk(Got(m), Got(n))
    BY <2>2, ChunkRead
  <2>4. Chunk(Got(m), Got(n)) \in Seq(Bytes)
    BY <2>2, PartIs
  <2>5. receiver.checksum \o Chunk(Got(m), Got(n)) \in Seq(Bytes)
    BY <1>1, <2>4, ConcatProperties DEF Receivers
  <2>6. /\ got.text = Chunk(Got(m), Got(n))
        /\ got.receiver = [receiver EXCEPT !.checksum = receiver.checksum \o Chunk(Got(m), Got(n))]
    BY <1>1, <1>2, <2>3 DEF Received, PlainUpdate, Receivers
  <2> HIDE DEF got
  <2>7. got.receiver \in Receivers /\ got.receiver.ctr = 0 /\ got.receiver.state = receiver.state
        /\ got.receiver.checksum = receiver.checksum \o Chunk(Got(m), Got(n))
    BY <1>1, <1>2, <2>5, <2>6 DEF Receivers, ReceiverAt
  <2> QED
    BY <1>2, <2>6, <2>7 DEF ReceiverAt
<1>3. CASE algorithm = "HYBRID" /\ receiver.preamble_found
  <2>1. Len(Header) <= m /\ receiver.ctr = Got(m)
    BY <1>0, <1>3 DEF ReceiverAt
  <2>2. /\ chunk = PartOf(Got(m), Got(n))
        /\ Got(m) \in Nat /\ Got(n) \in Nat /\ Got(m) <= Got(n) /\ Got(n) <= Len(content)
    BY <2>1, BehindHeader
  <2>3. got = Decrypted(receiver, PartOf(Got(m), Got(n)))
    BY <1>3, <2>2 DEF Received, HybridUpdate
  <2> HIDE DEF got, chunk
  <2>4. /\ got.text = Chunk(Got(m), Got(n))
        /\ got.receiver = [receiver EXCEPT !.ctr = Got(n),
                                           !.checksum = receiver.checksum \o Chunk(Got(m), Got(n))]
        /\ got.receiver \in Receivers
    <3>1. /\ Decrypted(receiver, PartOf(Got(m), Got(n))).text = Chunk(Got(m), Got(n))
          /\ Decrypted(receiver, PartOf(Got(m), Got(n))).receiver
               = [receiver EXCEPT !.ctr = Got(n), !.checksum = receiver.checksum \o Chunk(Got(m), Got(n))]
          /\ Decrypted(receiver, PartOf(Got(m), Got(n))).receiver \in Receivers
      BY <1>1, <1>3, <2>1, <2>2, DecryptedIs
    <3> QED
      BY <2>3, <3>1
  <2>5. /\ got.receiver.preamble_found /\ got.receiver.ctr = Got(n)
        /\ got.receiver.state = receiver.state
        /\ got.receiver.checksum = receiver.checksum \o Chunk(Got(m), Got(n))
    BY <1>1, <1>3, <2>4 DEF Receivers
  <2>6. n >= Len(Header)
    BY <1>0, <2>1
  <2>7. ReceiverAt(got.receiver, n)
    BY <1>3, <2>4, <2>5, <2>6 DEF ReceiverAt
  <2> QED
    BY <2>4, <2>5, <2>7
<1>4. CASE algorithm = "HYBRID" /\ ~receiver.preamble_found
  <2> DEFINE data == receiver.data \o chunk
  <2>1. m < Len(Header) /\ receiver.ctr = 0 /\ Got(m) = 0 /\ receiver.data = SubSeq(Full, 1, m)
    BY <1>0, <1>4 DEF ReceiverAt, Got
  <2>2. data = SubSeq(Full, 1, n) /\ data \in Seq(Cells) /\ Len(data) = n
    <3>1. data = SubSeq(Full, 1, m) \o SubSeq(Full, m + 1, n)
      BY <2>1
    <3>2. SubSeq(Full, 1, m) \o SubSeq(Full, m + 1, n) = SubSeq(Full, 1, n)
      BY <1>0, Longer
    <3>3. SubSeq(Full, 1, n) \in Seq(Cells) /\ Len(SubSeq(Full, 1, n)) = n
      BY <1>0, Prefix
    <3> QED
      BY <3>1, <3>2, <3>3
  <2>3. Find(data) = IF n < Len(Header) THEN -1 ELSE Len(preamble)
    BY <1>4, <2>2, FindIs
  <2>4. Len(preamble) \in Nat \ {0} /\ Len(Header) = Len(preamble) + Len(SEPARATOR) /\ Len(SEPARATOR) \in Nat
    BY <1>4, HeaderIs
  <2>5. CASE n < Len(Header)
    <3>1. Got(n) = 0
      BY <1>0, <2>5 DEF Got
    <3>2. Chunk(Got(m), Got(n)) = << >>
      <4>1. Chunk(0, 0) \in Seq(Bytes) /\ Len(Chunk(0, 0)) = 0
        <5>1. 0 \in Nat /\ 0 <= 0 /\ 0 <= Len(content)
          BY <1>0
        <5> QED
          BY <5>1, PartIs
      <4>2. Chunk(0, 0) = << >>
        BY <4>1, EmptySeq
      <4> QED
        BY <2>1, <3>1, <4>2
    <3>3. ~(Find(data) > 0)
      BY <2>3, <2>5
    <3> HIDE DEF chunk
    <3>4. got = [text |-> << >>, receiver |-> [receiver EXCEPT !.data = data]]
      BY <1>4, <3>3 DEF Received, HybridUpdate
    <3> HIDE DEF got, data
    <3>5. got.text = << >> /\ got.receiver = [receiver EXCEPT !.data = data]
      BY <3>4
    <3>6. /\ got.receiver \in Receivers /\ ~got.receiver.preamble_found /\ got.receiver.ctr = 0
          /\ got.receiver.data = data /\ got.receiver.state = receiver.state
          /\ got.receiver.checksum = receiver.checksum
      BY <1>1, <1>4, <2>1, <2>2, <3>5 DEF Receivers
    <3>7. receiver.checksum \o << >> = receiver.checksum
      BY <1>1, ConcatEmptySeq DEF Receivers
    <3>8. ReceiverAt(got.receiver, n)
      BY <1>0, <1>4, <2>2, <2>5, <3>1, <3>6 DEF ReceiverAt
    <3> QED
      BY <3>2, <3>5, <3>6, <3>7, <3>8
  <2>6. CASE ~(n < Len(Header))
    <3> DEFINE r == [receiver EXCEPT !.data = data, !.preamble_found = TRUE]
               rest == SubSeq(data, Len(preamble) + Len(SEPARATOR) + 1, Len(data))
    <3>1. /\ SubSeq(Full, Len(Header) + 1, n) = PartOf(Got(Len(Header)), Got(n))
          /\ Got(n) \in Nat /\ Got(Len(Header)) <= Got(n) /\ Got(n) <= Len(content)
      BY <1>0, <2>6, BehindHeader
    <3>2. Got(Len(Header)) = 0
      BY <1>0 DEF Got
    <3>3. rest = SubSeq(Full, Len(Header) + 1, n)
      <4>1. SubSeq(SubSeq(Full, 1, n), Len(Header) + 1, n) = SubSeq(Full, Len(Header) + 1, n)
        BY <1>0, <2>6, PartOfPrefix
      <4> QED
        BY <2>2, <2>4, <4>1
    <3>4. Find(data) > 0 /\ Find(data) = Len(preamble)
      BY <2>3, <2>4, <2>6
    <3>5. rest = PartOf(Got(m), Got(n)) /\ Got(m) <= Got(n)
      BY <2>1, <3>1, <3>2, <3>3
    <3>6. r \in Receivers /\ r.ctr = Got(m) /\ r.checksum = receiver.checksum
          /\ r.preamble_found /\ r.state = receiver.state
      BY <1>1, <2>1, <2>2 DEF Receivers
    <3> HIDE DEF chunk
    <3>7. got = Decrypted(r, rest)
      BY <1>4, <3>4 DEF Received, HybridUpdate
    <3> HIDE DEF got, data, r, rest
    <3>8. /\ got.text = Chunk(Got(m), Got(n))
          /\ got.receiver = [r EXCEPT !.ctr = Got(n), !.checksum = r.checksum \o Chunk(Got(m), Got(n))]
          /\ got.receiver \in Receivers
      <4>1. Got(m) \in Nat
        BY <2>1
      <4>2. /\ Decrypted(r, PartOf(Got(m), Got(n))).text = Chunk(Got(m), Got(n))
            /\ Decrypted(r, PartOf(Got(m), Got(n))).receiver
                 = [r EXCEPT !.ctr = Got(n), !.checksum = r.checksum \o Chunk(Got(m), Got(n))]
            /\ Decrypted(r, PartOf(Got(m), Got(n))).receiver \in Receivers
        BY <1>4, <3>1, <3>5, <3>6, <4>1, DecryptedIs
      <4> QED
        BY <3>5, <3>7, <4>2
    <3>9. /\ got.receiver.preamble_found /\ got.receiver.ctr = Got(n)
          /\ got.receiver.state = receiver.state
          /\ got.receiver.checksum = receiver.checksum \o Chunk(Got(m), Got(n))
      <4>1. got.receiver = [r EXCEPT !.ctr = Got(n), !.checksum = r.checksum \o Chunk(Got(m), Got(n))]
        BY <3>8
      <4> HIDE DEF got, r
      <4>2. /\ got.receiver.preamble_found = r.preamble_found /\ got.receiver.state = r.state
            /\ got.receiver.ctr = Got(n)
            /\ got.receiver.checksum = r.checksum \o Chunk(Got(m), Got(n))
        BY <3>6, <4>1 DEF Receivers
      <4> QED
        BY <3>6, <4>2
    <3>10. ReceiverAt(got.receiver, n)
      BY <1>0, <1>4, <2>6, <3>8, <3>9 DEF ReceiverAt
    <3> QED
      BY <3>8, <3>9, <3>10
  <2> QED
    BY <2>5, <2>6
<1> QED
  BY <1>2, <1>3, <1>4
-----------------------------------------------------------------------------
(* The invariant                                                             *)

Senders == [state : {"new", "open", "ended"}, start : Nat, end : Nat, ctr : Nat, checksum : Seq(Bytes)]

\* How much of the content has been yielded.
Sent == IF sender.start < Len(content) THEN sender.start ELSE Len(content)

\* The counter of the sender is the number of bytes that it yielded.
SenderInv ==
    /\ sender \in Senders
    /\ sender.ctr = Sent
    /\ sender.start < Len(content) => sender.start < sender.end
    /\ sender.end <= sender.start + CHUNK_SIZE
    /\ sender.start <= Len(content) + CHUNK_SIZE
    /\ sender.state = "new" => sender.start = 0
    /\ sender.state = "ended" => sender.start >= Len(content)

\* What is on the wire is the beginning of the complete stream.
WireInv ==
    /\ Len(wire) \in Nat /\ Len(wire) <= Len(Full)
    /\ wire = SubSeq(Full, 1, Len(wire))
    /\ sender.state = "new" => Len(wire) = 0
    /\ sender.state = "open" => Len(wire) = Len(Header) + Sent
    /\ sender.state = "ended" /\ ~lost => Len(wire) = Len(Full)

ReceiverInv ==
    /\ taken \in Nat /\ taken <= Len(wire)
    /\ ReceiverAt(receiver, taken)
    /\ out = SubSeq(content, 1, Got(taken))
    /\ receiver.checksum = out
    /\ receiver.state = "corrupt" => lost
    /\ lost \in BOOLEAN

IInv == Chosen /\ SenderInv /\ WireInv /\ ReceiverInv

LEMMA MinOfTwo ==
    ASSUME NEW x \in Nat, NEW y \in Nat
    PROVE  Min({x, y}) = IF x <= y THEN x ELSE y
<1>1. CASE x <= y
  <2>1. Min({x, y}) = x
    BY <1>1, LeastOf
  <2> QED
    BY <1>1, <2>1
<1>2. CASE ~(x <= y)
  <2>1. Min({x, y}) = y
    BY <1>2, LeastOf
  <2> QED
    BY <1>2, <2>1
<1> QED
  BY <1>1, <1>2

\* The next chunk, by the place where it begins and ends.
LEMMA NextChunkIs ==
    ASSUME Chosen, SenderInv
    PROVE  LET e == IF sender.end > Len(content) THEN Len(content) ELSE sender.end
           IN  /\ Len(content) \in Nat
               /\ sender.start < Len(content) =>
                     /\ e \in Nat /\ sender.start < e /\ e <= Len(content)
                     /\ NextChunk = Chunk(sender.start, e)
                     /\ Len(NextChunk) = e - sender.start /\ NextChunk # << >>
                     /\ NextChunk \in Seq(Bytes)
               /\ ~(sender.start < Len(content)) => NextChunk = << >>
<1> DEFINE e == IF sender.end > Len(content) THEN Len(content) ELSE sender.end
<1>0. Len(content) \in Nat /\ content \in Seq(Bytes) /\ sender.start \in Nat /\ sender.end \in Nat
  BY BodyIs DEF SenderInv, Senders
<1>1. NextChunk = Chunk(sender.start, e)
  BY DEF NextChunk, Chunk
<1>2. CASE sender.start < Len(content)
  <2>1. e \in Nat /\ sender.start < e /\ e <= Len(content)
    BY <1>0, <1>2 DEF SenderInv
  <2> HIDE DEF e
  <2>2. Chunk(sender.start, e) \in Seq(Bytes) /\ Len(Chunk(sender.start, e)) = e - sender.start
    <3>1. sender.start <= e
      BY <1>0, <2>1
    <3> QED
      BY <1>0, <2>1, <3>1, PartIs
  <2>3. NextChunk # << >>
    BY <1>0, <1>1, <2>1, <2>2, EmptySeq
  <2> QED
    BY <1>0, <1>1, <1>2, <2>1, <2>2, <2>3 DEF e
<1>3. CASE ~(sender.start < Len(content))
  <2>1. e < sender.start + 1 /\ sender.start + 1 \in Int /\ e \in Int
    BY <1>0, <1>3
  <2> HIDE DEF e
  <2>2. SubSeq(content, sender.start + 1, e) = << >>
    BY <2>1, SubSeqEmpty
  <2> QED
    BY <1>0, <1>1, <1>3, <2>2 DEF Chunk
<1> QED
  BY <1>2, <1>3

LEMMA InitInv == Init => IInv
<1> SUFFICES ASSUME Init PROVE IInv
  OBVIOUS
<1>1. Chosen /\ CHUNK_SIZE \in Nat \ {0}
  BY StreamAssumption DEF Init, Chosen
<1>2. Len(content) \in Nat /\ Len(Header) \in Nat /\ Full \in Seq(Cells) /\ Len(Full) \in Nat /\ content \in Seq(Bytes)
  BY <1>1, HeaderIs, BodyIs, FullIs, LenProperties
<1>3. << >> \in Seq(Bytes) /\ << >> \in Seq(Cells) /\ Len(<< >>) = 0
  BY EmptySeq
<1>4. SubSeq(Full, 1, 0) = << >> /\ SubSeq(content, 1, 0) = << >>
  BY SubSeqEmpty
<1>5. SenderInv
  BY <1>1, <1>2, <1>3 DEF Init, NewSender, SenderInv, Senders, Sent
<1>6. WireInv
  BY <1>2, <1>3, <1>4, <1>5 DEF Init, NewSender, WireInv
<1>7. receiver \in Receivers /\ receiver = NewReceiver /\ taken = 0 /\ wire = << >> /\ out = << >> /\ lost = FALSE
  BY <1>3 DEF Init, NewReceiver, Receivers
<1>8. Got(0) = 0
  BY <1>2 DEF Got
<1>9. algorithm = "HYBRID" => Len(Header) > 0
  BY <1>1, HeaderIs
<1>10. ReceiverAt(receiver, 0)
  BY <1>2, <1>4, <1>7, <1>8, <1>9 DEF ReceiverAt, NewReceiver
<1>11. ReceiverInv
  <2>1. taken \in Nat /\ taken <= Len(wire)
    BY <1>3, <1>7
  <2>2. out = SubSeq(content, 1, Got(taken))
    BY <1>4, <1>7, <1>8
  <2>3. receiver.checksum = out /\ receiver.state # "corrupt" /\ lost \in BOOLEAN
    BY <1>7 DEF NewReceiver
  <2> QED
    BY <1>7, <1>10, <2>1, <2>2, <2>3 DEF ReceiverInv
<1> QED
  BY <1>1, <1>5, <1>6, <1>11 DEF IInv
-----------------------------------------------------------------------------
(* The steps                                                                 *)

LEMMA Kept ==
    ASSUME UNCHANGED setting
    PROVE  /\ Full' = Full /\ Header' = Header /\ content' = content /\ Chosen' = Chosen
           /\ \A n : Got(n)' = Got(n)
           /\ \A r, n : ReceiverAt(r, n)' = ReceiverAt(r, n)
<1>1. content' = content /\ preamble' = preamble /\ algorithm' = algorithm /\ source' = source
      /\ CHUNK_SIZE' = CHUNK_SIZE
  BY DEF setting
<1>2. Header' = Header
  BY <1>1 DEF Header
<1>3. Full' = Full
  BY <1>1, <1>2 DEF Full, Body
<1>4. \A n : Got(n)' = Got(n)
  BY <1>2 DEF Got
<1>5. \A r, n : ReceiverAt(r, n)' = ReceiverAt(r, n)
  BY <1>1, <1>2, <1>3, <1>4 DEF ReceiverAt
<1> QED
  BY <1>1, <1>2, <1>3, <1>4, <1>5 DEF Chosen

\* What the sender does leaves the receiver as it was.
LEMMA ReceiverKept ==
    ASSUME IInv, UNCHANGED <<setting, taken, receiver, out, lost>>,
           Len(wire') \in Nat, Len(wire) <= Len(wire')
    PROVE  ReceiverInv'
<1>1. UNCHANGED setting /\ taken' = taken /\ receiver' = receiver /\ out' = out /\ lost' = lost
  OBVIOUS
<1>2. ReceiverAt(receiver, taken)'
  BY <1>1, Kept DEF IInv, ReceiverInv, ReceiverAt
<1>3. taken' <= Len(wire')
  BY <1>1 DEF IInv, ReceiverInv, WireInv
<1>4. out' = SubSeq(content, 1, Got(taken))'
  BY <1>1, Kept DEF IInv, ReceiverInv, Got
<1>5. taken \in Nat /\ receiver.checksum = out /\ (receiver.state = "corrupt" => lost) /\ lost \in BOOLEAN
  BY DEF IInv, ReceiverInv
<1>6. taken' \in Nat /\ receiver'.checksum = out' /\ (receiver'.state = "corrupt" => lost') /\ lost' \in BOOLEAN
  BY <1>1, <1>5
<1> QED
  BY <1>2, <1>3, <1>4, <1>6 DEF ReceiverInv

LEMMA StartStep == IInv /\ EncStart => IInv'
<1> SUFFICES ASSUME IInv, EncStart PROVE IInv'
  OBVIOUS
<1>1. UNCHANGED <<setting, taken, receiver, out, lost>> /\ UNCHANGED setting
  BY DEF EncStart
<1>2. /\ Len(content) \in Nat /\ Len(Header) \in Nat /\ Len(Full) = Len(Header) + Len(content)
      /\ Header \in Seq(Cells) /\ Full \in Seq(Cells)
  BY HeaderIs, BodyIs, FullIs DEF IInv
<1>3. /\ sender.state = "new" /\ sender' = [sender EXCEPT !.state = "open"] /\ sender \in Senders
      /\ sender.start = 0 /\ Len(wire) = 0
  BY DEF EncStart, IInv, SenderInv, WireInv
<1>4. /\ sender' \in Senders /\ sender'.state = "open" /\ sender'.start = 0 /\ sender'.end = sender.end
      /\ sender'.ctr = sender.ctr
  BY <1>3 DEF Senders
<1>5. SenderInv'
  BY <1>1, <1>3, <1>4, Kept DEF IInv, SenderInv, Sent, setting
<1>6. wire' = Header
  <2>1. wire = << >>
    BY <1>3, SubSeqEmpty DEF IInv, WireInv
  <2> QED
    BY <1>2, <2>1, ConcatEmptySeq DEF EncStart
<1>7. Header = SubSeq(Full, 1, Len(Header))
  <2>1. /\ SubSeq(Full, 1, Len(Header)) \in Seq(Cells) /\ Len(SubSeq(Full, 1, Len(Header))) = Len(Header)
        /\ \A i \in 1 .. Len(Header) : SubSeq(Full, 1, Len(Header))[i] = Full[i]
    BY <1>2, Prefix
  <2>2. \A i \in 1 .. Len(Header) : Full[i] = Header[i]
    BY FullIs DEF IInv
  <2> QED
    BY <1>2, <2>1, <2>2, SeqEqual
<1>8. Sent' = 0
  BY <1>1, <1>2, <1>4, Kept DEF Sent
<1>9. WireInv'
  BY <1>1, <1>2, <1>4, <1>6, <1>7, <1>8, Kept DEF WireInv
<1>10. ReceiverInv'
  BY <1>1, <1>2, <1>3, <1>6, ReceiverKept
<1> QED
  BY <1>1, <1>5, <1>9, <1>10, Kept DEF IInv

LEMMA UpdateStep == IInv /\ EncUpdate => IInv'
<1> SUFFICES ASSUME IInv, EncUpdate PROVE IInv'
  OBVIOUS
<1> DEFINE e == IF sender.end > Len(content) THEN Len(content) ELSE sender.end
           a == sender.start
           h == Len(Header)
<1>1. UNCHANGED <<setting, taken, receiver, out, lost>> /\ UNCHANGED setting
  BY DEF EncUpdate
<1>2. /\ Len(content) \in Nat /\ h \in Nat /\ Len(Full) = h + Len(content) /\ Full \in Seq(Cells)
      /\ CHUNK_SIZE \in Nat \ {0}
  BY HeaderIs, BodyIs, FullIs, StreamAssumption DEF IInv, Chosen
<1>3. sender.state = "open" /\ sender \in Senders /\ a \in Nat /\ sender.end \in Nat
  BY DEF EncUpdate, IInv, SenderInv, Senders
<1>4. /\ a < Len(content) /\ e \in Nat /\ a < e /\ e <= Len(content)
      /\ NextChunk = Chunk(a, e) /\ Len(NextChunk) = e - a /\ NextChunk \in Seq(Bytes)
  BY NextChunkIs DEF EncUpdate, IInv
<1>5. sender.ctr = a
  BY <1>4 DEF IInv, SenderInv, Sent
<1>6. sender.end <= a + CHUNK_SIZE /\ a < sender.end
  BY <1>4 DEF IInv, SenderInv
<1>7. /\ NextSlice.start = sender.end /\ NextSlice.end \in Nat
      /\ NextSlice.end <= sender.end + CHUNK_SIZE
      /\ sender.end < Len(content) => sender.end < NextSlice.end
  <2>1. CASE source = "memory"
    <3>1. /\ NextSlice.start = sender.end
          /\ NextSlice.end = Min({sender.end + CHUNK_SIZE, Len(content)})
      BY <2>1 DEF NextSlice
    <3>2. sender.end + CHUNK_SIZE \in Nat
      BY <1>2, <1>3
    <3>3. NextSlice.end = IF sender.end + CHUNK_SIZE <= Len(content) THEN sender.end + CHUNK_SIZE ELSE Len(content)
      BY <1>2, <3>1, <3>2, MinOfTwo
    <3> QED
      BY <1>2, <1>3, <3>1, <3>3
  <2>2. CASE source # "memory"
    <3>1. NextSlice.start = sender.end /\ NextSlice.end = sender.end + CHUNK_SIZE
      BY <2>2 DEF NextSlice
    <3> QED
      BY <1>2, <1>3, <3>1
  <2> QED
    BY <2>1, <2>2
<1>8. sender.checksum \o NextChunk \in Seq(Bytes)
  BY <1>3, <1>4, ConcatProperties DEF Senders
<1>9. /\ sender'.state = "open" /\ sender'.start = sender.end /\ sender'.end = NextSlice.end
      /\ sender'.ctr = sender.ctr + Len(NextChunk) /\ sender'.checksum = sender.checksum \o NextChunk
      /\ sender' = [sender EXCEPT !.start = sender.end, !.end = NextSlice.end,
                                  !.ctr = sender.ctr + Len(NextChunk),
                                  !.checksum = sender.checksum \o NextChunk]
  <2>1. sender' = [sender EXCEPT !.start = sender.end, !.end = NextSlice.end,
                                 !.ctr = sender.ctr + Len(NextChunk),
                                 !.checksum = sender.checksum \o NextChunk]
    BY <1>7 DEF EncUpdate
  <2> QED
    BY <1>3, <2>1 DEF Senders
<1>10. sender'.ctr = e
  BY <1>4, <1>5, <1>9, <1>3
<1>11. Sent' = e
  BY <1>1, <1>2, <1>3, <1>9, Kept DEF Sent
<1>12. sender' \in Senders
  BY <1>3, <1>4, <1>7, <1>8, <1>9, <1>10 DEF Senders
<1>13. SenderInv'
  <2>1. CHUNK_SIZE' = CHUNK_SIZE /\ content' = content
    BY <1>1 DEF setting
  <2>2. sender'.start <= Len(content) + CHUNK_SIZE
    BY <1>2, <1>3, <1>4, <1>6, <1>9
  <2> QED
    BY <1>7, <1>9, <1>10, <1>11, <1>12, <2>1, <2>2 DEF SenderInv
<1>14. wire' = SubSeq(Full, 1, h + e) /\ Len(wire') = h + e /\ Len(wire) = h + a
  <2>1. Len(wire) = h + a /\ wire = SubSeq(Full, 1, h + a)
    BY <1>3, <1>4 DEF IInv, WireInv, Sent
  <2>2. Ciphered(NextChunk) = PartOf(a, e)
    <3> HIDE DEF a, e
    <3>1. a \in Nat /\ e \in Nat /\ a <= e /\ e <= Len(content) /\ sender.ctr = a /\ Chosen
      BY <1>3, <1>4, <1>5 DEF IInv
    <3> QED
      BY <1>4, <3>1, ChunkSent
  <2>3. wire' = SubSeq(Full, 1, h + a) \o SubSeq(Full, h + a + 1, h + e)
    BY <2>1, <2>2 DEF EncUpdate, PartOf
  <2>4. h + a \in Nat /\ h + e \in Nat /\ h + a <= h + e /\ h + e <= Len(Full)
    <3> HIDE DEF h, a, e
    <3> QED
      BY <1>2, <1>3, <1>4
  <2> HIDE DEF h, a, e
  <2>5. SubSeq(Full, 1, h + a) \o SubSeq(Full, h + a + 1, h + e) = SubSeq(Full, 1, h + e)
    BY <1>2, <2>4, Longer
  <2>6. Len(SubSeq(Full, 1, h + e)) = h + e
    BY <1>2, <2>4, Prefix
  <2> QED
    BY <2>1, <2>3, <2>5, <2>6
<1>15. WireInv'
  <2>1. Full' = Full /\ Header' = Header
    BY <1>1, Kept
  <2>2. Len(wire') \in Nat /\ Len(wire') <= Len(Full)
    BY <1>2, <1>4, <1>14
  <2>3. wire' = SubSeq(Full, 1, Len(wire'))
    BY <1>14
  <2>4. Len(wire') = Len(Header) + Sent'
    BY <1>11, <1>14
  <2> QED
    BY <1>9, <2>1, <2>2, <2>3, <2>4 DEF WireInv
<1>16. Len(wire') \in Nat /\ Len(wire) <= Len(wire')
  <2> HIDE DEF h, a, e
  <2> QED
    BY <1>2, <1>3, <1>4, <1>14
<1>17. ReceiverInv'
  BY <1>1, <1>16, ReceiverKept
<1> QED
  BY <1>1, <1>13, <1>15, <1>17, Kept DEF IInv

LEMMA EndStep == IInv /\ EncEnd => IInv'
<1> SUFFICES ASSUME IInv, EncEnd PROVE IInv'
  OBVIOUS
<1>1. UNCHANGED <<setting, wire, taken, receiver, out, lost>> /\ UNCHANGED setting
  BY DEF EncEnd
<1>2. Len(content) \in Nat /\ Len(Header) \in Nat /\ Len(Full) = Len(Header) + Len(content)
  BY HeaderIs, BodyIs, FullIs DEF IInv
<1>3. /\ sender.state = "open" /\ sender \in Senders /\ ~(sender.start < Len(content))
      /\ sender' = [sender EXCEPT !.state = "ended"]
  BY NextChunkIs DEF EncEnd, IInv, SenderInv
<1>4. /\ sender' \in Senders /\ sender'.state = "ended" /\ sender'.start = sender.start
      /\ sender'.end = sender.end /\ sender'.ctr = sender.ctr /\ sender.start \in Nat
  BY <1>3 DEF Senders
<1>5. SenderInv'
  BY <1>1, <1>2, <1>3, <1>4, Kept DEF IInv, SenderInv, Sent, setting
<1>6. Len(wire) = Len(Full)
  BY <1>2, <1>3 DEF IInv, WireInv, Sent
<1>7. WireInv'
  BY <1>1, <1>2, <1>4, <1>6, Kept DEF IInv, WireInv
<1>8. ReceiverInv'
  BY <1>1, ReceiverKept DEF IInv, WireInv
<1> QED
  BY <1>1, <1>5, <1>7, <1>8, Kept DEF IInv
LEMMA ReceiverStates ==
    ASSUME NEW r \in Receivers, NEW n, ReceiverAt(r, n),
           NEW st \in {"open", "done", "corrupt", "broken"}
    PROVE  /\ ReceiverAt([r EXCEPT !.state = st], n)
           /\ [r EXCEPT !.state = st].state = st
           /\ [r EXCEPT !.state = st].checksum = r.checksum
<1> DEFINE q == [r EXCEPT !.state = st]
<1>1. /\ q \in Receivers /\ q.state = st /\ q.checksum = r.checksum /\ q.ctr = r.ctr /\ q.data = r.data
      /\ q.preamble_found = r.preamble_found
  BY DEF Receivers
<1> HIDE DEF q
<1>2. ReceiverAt(q, n)
  BY <1>1 DEF ReceiverAt
<1> QED
  BY <1>1, <1>2 DEF q

\* One chunk, of any size: the receiver has caught up with what it was given.
LEMMA ReadIs ==
    ASSUME IInv, DecUpdate
    PROVE  /\ UNCHANGED <<setting, sender, wire, lost>>
           /\ receiver.state = "open" /\ receiver'.state = "open"
           /\ taken' \in taken + 1 .. Len(wire)
           /\ ReceiverAt(receiver', taken')
           /\ Got(taken) \in Nat /\ Got(taken') \in Nat
           /\ Got(taken) <= Got(taken') /\ Got(taken') <= Len(content)
           /\ out' = SubSeq(content, 1, Got(taken')) /\ receiver'.checksum = out'
<1>1. PICK n \in taken + 1 .. Len(wire) :
         LET got == Received(SubSeq(wire, taken + 1, n))
         IN  taken' = n /\ receiver' = got.receiver /\ out' = out \o got.text
  BY DEF DecUpdate
<1> DEFINE m == taken
           chunk == SubSeq(Full, m + 1, n)
<1>2. /\ m \in Nat /\ n \in Nat /\ m < n /\ n <= Len(wire) /\ Len(wire) \in Nat /\ Len(wire) <= Len(Full)
      /\ Full \in Seq(Cells) /\ Len(Full) \in Nat /\ Chosen /\ content \in Seq(Bytes) /\ Len(content) \in Nat
  <2>1. m \in Nat /\ Len(wire) \in Nat /\ Len(wire) <= Len(Full) /\ Chosen
    BY DEF IInv, ReceiverInv, WireInv
  <2> QED
    BY <1>1, <2>1, FullIs, BodyIs, LenProperties
<1>3. SubSeq(wire, m + 1, n) = chunk
  <2>1. SubSeq(SubSeq(Full, 1, Len(wire)), m + 1, n) = SubSeq(Full, m + 1, n)
    BY <1>2, PartOfPrefix
  <2> QED
    BY <2>1 DEF IInv, WireInv
<1>4. n <= Len(Full) /\ ReceiverAt(receiver, m)
  BY <1>2 DEF IInv, ReceiverInv
<1> DEFINE got == Received(chunk)
<1>5. /\ got.text = Chunk(Got(m), Got(n))
      /\ ReceiverAt(got.receiver, n)
      /\ got.receiver.state = receiver.state
      /\ got.receiver.checksum = receiver.checksum \o Chunk(Got(m), Got(n))
  BY <1>2, <1>4, ReceivedIs
<1> HIDE DEF chunk
<1>6. taken' = n /\ receiver' = got.receiver /\ out' = out \o got.text
  BY <1>1, <1>3
<1> HIDE DEF got, m
<1>7. Got(m) \in Nat /\ Got(n) \in Nat /\ Got(m) <= Got(n) /\ Got(n) <= Len(content)
  <2>1. Got(n) \in Nat /\ Got(n) <= Len(content) /\ Len(Header) \in Nat
    BY <1>2, <1>4, GotIs
  <2>2. Got(m) \in Nat /\ Got(m) <= Got(n)
    BY <1>2, <2>1 DEF Got
  <2> QED
    BY <2>1, <2>2
<1>8. out = SubSeq(content, 1, Got(m)) /\ receiver.checksum = out
  BY DEF IInv, ReceiverInv, m
<1>9. SubSeq(content, 1, Got(m)) \o Chunk(Got(m), Got(n)) = SubSeq(content, 1, Got(n))
  BY <1>2, <1>7, Longer DEF Chunk
<1>10. receiver.state = "open" /\ UNCHANGED <<setting, sender, wire, lost>>
  BY DEF DecUpdate
<1>11. out' = SubSeq(content, 1, Got(n)) /\ receiver'.checksum = out' /\ receiver'.state = "open"
       /\ ReceiverAt(receiver', n)
  BY <1>5, <1>6, <1>8, <1>9, <1>10
<1> QED
  BY <1>1, <1>6, <1>7, <1>10, <1>11 DEF m

\* A step of the receiver or of the environment that reads nothing.
LEMMA Waits ==
    ASSUME IInv, UNCHANGED <<setting, sender, taken, out>>, UNCHANGED wire,
           NEW st \in {"open", "done", "corrupt", "broken"},
           receiver' = [receiver EXCEPT !.state = st],
           lost' \in BOOLEAN, lost => lost', st = "corrupt" => lost'
    PROVE  IInv'
<1>1. UNCHANGED setting /\ sender' = sender /\ taken' = taken /\ out' = out /\ wire' = wire
  OBVIOUS
<1>2. Chosen' /\ SenderInv'
  BY <1>1, Kept DEF IInv, SenderInv, Sent, setting
<1>3. WireInv'
  BY <1>1, Kept DEF IInv, WireInv, Sent
<1>4. receiver \in Receivers /\ ReceiverAt(receiver, taken) /\ receiver.checksum = out
      /\ out = SubSeq(content, 1, Got(taken)) /\ taken \in Nat /\ taken <= Len(wire)
  BY DEF IInv, ReceiverInv, ReceiverAt
<1>5. ReceiverAt(receiver', taken) /\ receiver'.state = st /\ receiver'.checksum = out
  BY <1>4, ReceiverStates
<1>6. ReceiverAt(receiver, taken)'
  BY <1>1, <1>5, Kept DEF ReceiverAt, Got, setting
<1>7. out' = SubSeq(content, 1, Got(taken))'
  BY <1>1, <1>4, Kept DEF Got
<1>8. taken' \in Nat /\ taken' <= Len(wire') /\ receiver'.checksum = out'
      /\ (receiver'.state = "corrupt" => lost') /\ lost' \in BOOLEAN
  BY <1>1, <1>4, <1>5
<1>9. ReceiverInv'
  BY <1>6, <1>7, <1>8 DEF ReceiverInv
<1> QED
  BY <1>2, <1>3, <1>9 DEF IInv

LEMMA ReadStep == IInv /\ DecUpdate => IInv'
<1> SUFFICES ASSUME IInv, DecUpdate PROVE IInv'
  OBVIOUS
<1>1. /\ UNCHANGED setting /\ sender' = sender /\ wire' = wire /\ lost' = lost
      /\ receiver'.state = "open" /\ taken' \in taken + 1 .. Len(wire)
      /\ ReceiverAt(receiver', taken')
      /\ out' = SubSeq(content, 1, Got(taken')) /\ receiver'.checksum = out'
  BY ReadIs
<1>2. Chosen' /\ SenderInv' /\ WireInv'
  BY <1>1, Kept DEF IInv, SenderInv, WireInv, Sent, setting
<1>3. taken' \in Nat /\ taken' <= Len(wire') /\ lost' \in BOOLEAN
  BY <1>1 DEF IInv, ReceiverInv, WireInv
<1>4. ReceiverAt(receiver, taken)'
  BY <1>1, Kept DEF ReceiverAt, Got, setting
<1>5. out' = SubSeq(content, 1, Got(taken))'
  BY <1>1, Kept DEF Got
<1>6. ReceiverInv'
  BY <1>1, <1>3, <1>4, <1>5 DEF ReceiverInv
<1> QED
  BY <1>2, <1>6 DEF IInv

\* At the end of a stream of which nothing was lost, the receiver has been given everything.
LEMMA AllGiven ==
    ASSUME IInv, sender.state = "ended", taken = Len(wire), ~lost
    PROVE  /\ out = content
           /\ algorithm = "HYBRID" => receiver.preamble_found
<1>1. Len(content) \in Nat /\ Len(Header) \in Nat /\ Len(Full) = Len(Header) + Len(content) /\ content \in Seq(Bytes)
  BY HeaderIs, BodyIs, FullIs DEF IInv
<1>2. taken = Len(Full)
  BY DEF IInv, WireInv
<1>3. Got(taken) = Len(content) /\ taken >= Len(Header)
  BY <1>1, <1>2 DEF Got
<1>4. out = SubSeq(content, 1, Len(content))
  BY <1>3 DEF IInv, ReceiverInv
<1>5. out = content
  BY <1>1, <1>4, SubSeqFull
<1> QED
  BY <1>3, <1>5 DEF IInv, ReceiverInv, ReceiverAt

LEMMA StopStep == IInv /\ DecEnd => IInv'
<1> SUFFICES ASSUME IInv, DecEnd PROVE IInv'
  OBVIOUS
<1> DEFINE st == IF algorithm = "HYBRID" /\ ~receiver.preamble_found THEN "corrupt" ELSE "done"
<1>1. /\ UNCHANGED <<setting, sender, taken, out>> /\ UNCHANGED wire /\ lost' = lost
      /\ receiver' = [receiver EXCEPT !.state = st] /\ st \in {"open", "done", "corrupt", "broken"}
  BY DEF DecEnd
<1>2. st = "corrupt" => lost
  BY AllGiven DEF DecEnd
<1>3. lost \in BOOLEAN
  BY DEF IInv, ReceiverInv
<1> HIDE DEF st
<1> QED
  BY <1>1, <1>2, <1>3, Waits

LEMMA BreakStep == IInv /\ Break => IInv'
<1> SUFFICES ASSUME IInv, Break PROVE IInv'
  OBVIOUS
<1>1. /\ UNCHANGED <<setting, sender, taken, out>> /\ UNCHANGED wire /\ lost' = TRUE
      /\ receiver' = [receiver EXCEPT !.state = "broken"]
  BY DEF Break
<1> QED
  BY <1>1, Waits

LEMMA CutStep == IInv /\ Cut => IInv'
<1> SUFFICES ASSUME IInv, Cut PROVE IInv'
  OBVIOUS
<1>1. PICK n \in taken .. Len(wire) - 1 : wire' = SubSeq(wire, 1, n)
  BY DEF Cut
<1>2. /\ UNCHANGED setting /\ sender' = sender /\ taken' = taken /\ receiver' = receiver /\ out' = out
      /\ lost' = TRUE /\ sender.state = "ended"
  BY DEF Cut
<1>3. /\ taken \in Nat /\ Len(wire) \in Nat /\ Len(wire) <= Len(Full) /\ wire = SubSeq(Full, 1, Len(wire))
      /\ Full \in Seq(Cells) /\ Len(Full) \in Nat
  BY FullIs, LenProperties DEF IInv, WireInv, ReceiverInv
<1>4. n \in Nat /\ taken <= n /\ n <= Len(wire) /\ n <= Len(Full)
  BY <1>1, <1>3
<1>5. wire' = SubSeq(Full, 1, n)
  <2>1. SubSeq(SubSeq(Full, 1, Len(wire)), 0 + 1, n) = SubSeq(Full, 0 + 1, n)
    <3>1. 0 \in Nat /\ 0 <= n
      BY <1>4
    <3> QED
      BY <1>3, <1>4, <3>1, PartOfPrefix
  <2> QED
    BY <1>1, <1>3, <2>1
<1>6. Len(wire') = n
  BY <1>3, <1>4, <1>5, Prefix
<1>7. Chosen' /\ SenderInv'
  BY <1>2, Kept DEF IInv, SenderInv, Sent, setting
<1>8. WireInv'
  BY <1>2, <1>4, <1>5, <1>6, Kept DEF WireInv
<1>9. ReceiverAt(receiver, taken)' /\ out' = SubSeq(content, 1, Got(taken))'
  BY <1>2, Kept DEF IInv, ReceiverInv, ReceiverAt, Got, setting
<1>10. receiver'.checksum = out'
  BY <1>2 DEF IInv, ReceiverInv
<1>11. ReceiverInv'
  BY <1>2, <1>3, <1>4, <1>6, <1>9, <1>10 DEF ReceiverInv
<1> QED
  BY <1>7, <1>8, <1>11 DEF IInv

LEMMA StutterStep == IInv /\ UNCHANGED vars => IInv'
<1> SUFFICES ASSUME IInv, UNCHANGED vars PROVE IInv'
  OBVIOUS
<1>1. UNCHANGED setting /\ sender' = sender /\ wire' = wire
      /\ UNCHANGED <<setting, taken, receiver, out, lost>>
  BY DEF vars, setting
<1>2. Chosen' /\ SenderInv' /\ WireInv'
  BY <1>1, Kept DEF IInv, SenderInv, WireInv, Sent, setting
<1>3. ReceiverInv'
  BY <1>1, ReceiverKept DEF IInv, WireInv
<1> QED
  BY <1>2, <1>3 DEF IInv

\* The sender's counter, what is on the wire and what the receiver has made of it stay in
\* step: the invariant from which the rest follows.
THEOREM InStep == Spec => []IInv
<1>1. IInv /\ [Next]_vars => IInv'
  <2> SUFFICES ASSUME IInv, [Next]_vars PROVE IInv'
    OBVIOUS
  <2>1. CASE EncStart
    BY <2>1, StartStep
  <2>2. CASE EncUpdate
    BY <2>2, UpdateStep
  <2>3. CASE EncEnd
    BY <2>3, EndStep
  <2>4. CASE DecUpdate
    BY <2>4, ReadStep
  <2>5. CASE DecEnd
    BY <2>5, StopStep
  <2>6. CASE Break
    BY <2>6, BreakStep
  <2>7. CASE Cut
    BY <2>7, CutStep
  <2>8. CASE UNCHANGED vars
    BY <2>8, StutterStep
  <2> QED
    BY <2>1, <2>2, <2>3, <2>4, <2>5, <2>6, <2>7, <2>8 DEF Next, Sending, Receiving
<1> QED
  BY InitInv, <1>1, PTL DEF Spec
-----------------------------------------------------------------------------
(* What follows                                                              *)

\* The states of sender and receiver have their types (EncryptionAlgorithm and
\* DecryptionAlgorithm), and the counter of the receiver never leaves the content.
THEOREM TypeCorrect == Spec => []TypeOK
<1>1. IInv => TypeOK
  <2> SUFFICES ASSUME IInv PROVE TypeOK
    OBVIOUS
  <2>1. /\ Len(content) \in Nat /\ taken \in Nat /\ Len(wire) \in Nat /\ taken <= Len(wire)
        /\ taken <= Len(Full) /\ CHUNK_SIZE \in Nat
    <3>1. taken \in Nat /\ Len(wire) \in Nat /\ taken <= Len(wire) /\ Len(wire) <= Len(Full) /\ Len(Full) \in Nat
      BY FullIs, LenProperties DEF IInv, ReceiverInv, WireInv
    <3> QED
      BY <3>1, BodyIs, StreamAssumption DEF IInv, Chosen
  <2>2. /\ sender.state \in {"new", "open", "ended"} /\ sender.start \in Nat
        /\ sender.start <= Len(content) + CHUNK_SIZE
    BY DEF IInv, SenderInv, Senders
  <2>3. /\ receiver.state \in {"open", "done", "corrupt", "broken"}
        /\ receiver.preamble_found \in BOOLEAN /\ receiver.ctr \in Nat
    BY DEF IInv, ReceiverInv, ReceiverAt, Receivers
  <2>4. receiver.ctr <= Len(content)
    <3>1. Got(taken) <= Len(content)
      BY <2>1, GotIs DEF IInv
    <3>2. receiver.ctr = 0 \/ receiver.ctr = Got(taken)
      BY DEF IInv, ReceiverInv, ReceiverAt
    <3> QED
      BY <2>1, <3>1, <3>2
  <2>5. lost \in BOOLEAN
    BY DEF IInv, ReceiverInv
  <2> QED
    BY <2>1, <2>2, <2>3, <2>4, <2>5 DEF TypeOK
<1> QED
  BY InStep, <1>1, PTL

\* However the bytes are cut, the receiver has exactly the content behind the header in
\* what it was given (HybridDecryptionAlgorithm.update, for chunks of any size).
THEOREM ReceiverKeepsUp == Spec => []KeepsUp
<1>1. IInv => KeepsUp
  <2> SUFFICES ASSUME IInv PROVE KeepsUp
    OBVIOUS
  <2>1. taken \in Nat /\ Len(Header) \in Nat
    BY HeaderIs DEF IInv, ReceiverInv
  <2>2. Got(taken) = IF taken - Len(Header) > 0 THEN taken - Len(Header) ELSE 0
    BY <2>1 DEF Got
  <2> QED
    BY <2>2 DEF IInv, ReceiverInv, KeepsUp
<1> QED
  BY InStep, <1>1, PTL

\* In a transfer that ended without an error the two checksums are equal if and only if all
\* of the content has arrived (the checksum that Exchange compares and announces).
THEOREM ChecksumIsRight == Spec => []ChecksumTells
<1>1. IInv => ChecksumTells
  BY DEF IInv, ReceiverInv, ChecksumTells, Announced
<1> QED
  BY InStep, <1>1, PTL

LEMMA SilentStep ==
    ASSUME UNCHANGED <<setting, receiver, out, lost>>
    PROVE  UNCHANGED Channel!vars
<1>1. content' = content /\ receiver' = receiver /\ out' = out /\ lost' = lost
  BY DEF setting
<1> QED
  BY <1>1 DEF Channel!vars

LEMMA DeliverStep == IInv /\ DecUpdate => Channel!Next \/ UNCHANGED Channel!vars
<1> SUFFICES ASSUME IInv, DecUpdate PROVE Channel!Next \/ UNCHANGED Channel!vars
  OBVIOUS
<1>1. /\ content' = content /\ lost' = lost
      /\ receiver.state = "open" /\ receiver'.state = "open"
      /\ Got(taken) \in Nat /\ Got(taken') \in Nat
      /\ Got(taken) <= Got(taken') /\ Got(taken') <= Len(content)
      /\ out' = SubSeq(content, 1, Got(taken'))
  BY ReadIs DEF setting
<1>2. out = SubSeq(content, 1, Got(taken))
  BY DEF IInv, ReceiverInv
<1>3. CASE Got(taken') = Got(taken)
  BY <1>1, <1>2, <1>3 DEF Channel!vars
<1>4. CASE Got(taken') # Got(taken)
  <2>1. Len(content) \in Nat /\ content \in Seq(Bytes)
    BY BodyIs DEF IInv
  <2>2. Len(out) = Got(taken)
    BY <1>1, <1>2, <2>1, Prefix
  <2>3. Got(taken') \in Len(out) + 1 .. Len(content)
    BY <1>1, <1>4, <2>1, <2>2
  <2>4. Channel!Deliver
    BY <1>1, <2>3 DEF Channel!Deliver
  <2> QED
    BY <2>4 DEF Channel!Next
<1> QED
  BY <1>3, <1>4

LEMMA FinishStep == IInv /\ DecEnd => Channel!Next
<1> SUFFICES ASSUME IInv, DecEnd PROVE Channel!Next
  OBVIOUS
<1>1. receiver \in Receivers /\ receiver.state = "open" /\ content' = content /\ out' = out /\ lost' = lost
  BY DEF DecEnd, IInv, ReceiverInv, ReceiverAt, setting
<1>2. CASE algorithm = "HYBRID" /\ ~receiver.preamble_found
  <2>1. receiver'.state = "corrupt"
    BY <1>1, <1>2 DEF DecEnd, Receivers
  <2>2. lost
    BY <1>2, AllGiven DEF DecEnd
  <2>3. Channel!Fail
    BY <1>1, <2>1, <2>2 DEF Channel!Fail
  <2> QED
    BY <2>3 DEF Channel!Next
<1>3. CASE ~(algorithm = "HYBRID" /\ ~receiver.preamble_found)
  <2>1. receiver'.state = "done"
    BY <1>1, <1>3 DEF DecEnd, Receivers
  <2>2. ~lost => out = content
    BY AllGiven DEF DecEnd
  <2>3. Channel!Finish
    BY <1>1, <2>1, <2>2 DEF Channel!Finish
  <2> QED
    BY <2>3 DEF Channel!Next
<1> QED
  BY <1>2, <1>3

LEMMA BreakLoses == IInv /\ Break => Channel!Next
<1> SUFFICES ASSUME IInv, Break PROVE Channel!Next
  OBVIOUS
<1>1. /\ receiver \in Receivers /\ receiver.state = "open"
      /\ content' = content /\ out' = out /\ lost' = TRUE
      /\ receiver' = [receiver EXCEPT !.state = "broken"]
  BY DEF Break, IInv, ReceiverInv, ReceiverAt, setting
<1>2. receiver'.state = "broken"
  BY <1>1 DEF Receivers
<1>3. Channel!Lose
  BY <1>1, <1>2 DEF Channel!Lose
<1> QED
  BY <1>3 DEF Channel!Next

LEMMA CutLoses == IInv /\ Cut => Channel!Next
<1> SUFFICES ASSUME IInv, Cut PROVE Channel!Next
  OBVIOUS
<1>1. receiver.state = "open" /\ content' = content /\ out' = out /\ lost' = TRUE /\ receiver' = receiver
  BY DEF Cut, setting
<1>2. Channel!Lose
  BY <1>1 DEF Channel!Lose
<1> QED
  BY <1>2 DEF Channel!Next

\* Encryption, the cuts of the network and the search for the separator implement the
\* channel of Delivery, for every content, key, chunk size and cut of the bytes.
THEOREM StreamDelivers == Spec => ImplementsDelivery
<1>1. Init => Channel!Init
  BY DEF Init, NewReceiver, Channel!Init
<1>2. IInv /\ [Next]_vars => [Channel!Next]_Channel!vars
  <2> SUFFICES ASSUME IInv, [Next]_vars PROVE Channel!Next \/ UNCHANGED Channel!vars
    OBVIOUS
  <2>1. CASE EncStart
    BY <2>1, SilentStep DEF EncStart
  <2>2. CASE EncUpdate
    BY <2>2, SilentStep DEF EncUpdate
  <2>3. CASE EncEnd
    BY <2>3, SilentStep DEF EncEnd
  <2>4. CASE DecUpdate
    BY <2>4, DeliverStep
  <2>5. CASE DecEnd
    BY <2>5, FinishStep
  <2>6. CASE Break
    BY <2>6, BreakLoses
  <2>7. CASE Cut
    BY <2>7, CutLoses
  <2>8. CASE UNCHANGED vars
    BY <2>8, SilentStep DEF vars, setting
  <2> QED
    BY <2>1, <2>2, <2>3, <2>4, <2>5, <2>6, <2>7, <2>8 DEF Next, Sending, Receiving
<1> QED
  BY InStep, <1>1, <1>2, PTL DEF Spec, ImplementsDelivery, Channel!Spec
=============================================================================
