---------------------------- MODULE HybridStream ----------------------------
(***************************************************************************)
(* One encrypted stream: security/algorithms (core.py, hybrid.py, plain.py)   *)
(* as Exchange uses them.  The sender yields a header (the symmetric key for  *)
(* the receiver and a separator) and the content chunk by chunk; the network   *)
(* cuts the bytes again wherever it likes; the receiver finds the separator    *)
(* and decrypts what follows with a counter that has to stay in step.         *)
(*                                                                           *)
(* A byte is a record: a byte of the header has no counter, a byte of the     *)
(* content is ciphered at a counter and is only read back at the same one.    *)
(* A checksum is the sequence of the bytes it was computed from.              *)
(***************************************************************************)
EXTENDS Integers, Sequences, FiniteSetsExt

CONSTANTS
    Contents,    \* the contents that may be sent: sequences of values
    Preambles,   \* the encrypted keys that may precede the separator: sequences of values
    SEPARATOR,   \* DEFAULT_SEPARATOR
    CHUNK_SIZES, \* bytes read from the file, or sliced from memory, at a time
    Algorithms,  \* "HYBRID", "NO_ENCRYPTION"
    Losses       \* what may go wrong: "break", "cut"

\* A string of bytes, of whatever the bytes are.
String(s) == s \in Seq({s[i] : i \in DOMAIN s})

\* A key is not empty, and the separator is not met before the key has ended.  The key is
\* the output of RSA, raw bytes in which those of the separator do occur with a probability
\* of about 2^-104: that case is left out.  A chunk is not empty.
ASSUME StreamAssumption ==
    /\ \A c \in Contents : String(c)
    /\ String(SEPARATOR) /\ SEPARATOR # << >>
    /\ \A p \in Preambles :
          /\ String(p) /\ p # << >>
          /\ \A q \in 0 .. Len(p) :
                SubSeq(p \o SEPARATOR, q + 1, q + Len(SEPARATOR)) = SEPARATOR => q = Len(p)
    /\ CHUNK_SIZES \subseteq Nat \ {0}

VARIABLES
    content, preamble, algorithm, source, CHUNK_SIZE,   \* chosen once
    sender,     \* EncryptionAlgorithm and the loop of its generator
    wire,       \* the bytes yielded so far
    taken,      \* how many of them the receiver was given
    receiver,   \* DecryptionAlgorithm
    out,        \* the decrypted data, in memory or in the file
    lost        \* bytes were lost

setting == <<content, preamble, algorithm, source, CHUNK_SIZE>>
vars == <<content, preamble, algorithm, source, CHUNK_SIZE, sender, wire, taken, receiver, out, lost>>

-----------------------------------------------------------------------------
\* The header is in clear for whoever looks for the separator.
Clear(s) == [i \in DOMAIN s |-> [ctr |-> 0, byte |-> s[i]]]

\* encryptor.update and decryptor.update of AES in counter mode: the position in the
\* key stream is the only thing that sender and receiver have to agree on.
Cipher(chunk, ctr) == [i \in DOMAIN chunk |-> [ctr |-> ctr + i, byte |-> chunk[i]]]
Decipher(data, ctr) ==
    [i \in DOMAIN data |-> IF data[i].ctr = ctr + i THEN data[i].byte ELSE "garbage"]

\* str_checksum, file_checksum: taken of the whole content before the first byte leaves.
Announced == content

-----------------------------------------------------------------------------
(* EncryptionAlgorithm                                                       *)

NewSender == [state |-> "new", start |-> 0, end |-> CHUNK_SIZE, ctr |-> 0, checksum |-> << >>]

\* What start() yields: the encrypted key and the separator, or nothing at all.
Header == IF algorithm = "HYBRID" THEN Clear(preamble \o SEPARATOR) ELSE << >>

EncStart ==
    /\ sender.state = "new"
    /\ sender' = [sender EXCEPT !.state = "open"]
    /\ wire' = wire \o Header
    /\ UNCHANGED <<setting, taken, receiver, out, lost>>

\* The chunk that the loop over a file reads next, or the slice of a content in memory.
\* Mutant: the slice forgets that the next one starts where it ended.
NextChunk_Overlap ==
    SubSeq(content, IF sender.start > 0 THEN sender.start ELSE 1,
           IF sender.end > Len(content) THEN Len(content) ELSE sender.end)
NextChunk ==
    SubSeq(content, sender.start + 1, IF sender.end > Len(content) THEN Len(content) ELSE sender.end)

\* start = end; end = min(end + CHUNK_SIZE, n), which the file does by itself.
NextSlice ==
    IF source = "memory"
    THEN [start |-> sender.end, end |-> Min({sender.end + CHUNK_SIZE, Len(content)})]
    ELSE [start |-> sender.end, end |-> sender.end + CHUNK_SIZE]

Ciphered(chunk) ==
    IF algorithm = "HYBRID" THEN Cipher(chunk, sender.ctr) ELSE Clear(chunk)

EncUpdate ==
    /\ sender.state = "open"
    /\ NextChunk # << >>
    /\ wire' = wire \o Ciphered(NextChunk)
    /\ sender' = [sender EXCEPT !.start = NextSlice.start, !.end = NextSlice.end,
                                !.ctr = @ + Len(NextChunk), !.checksum = @ \o NextChunk]
    /\ UNCHANGED <<setting, taken, receiver, out, lost>>

\* The loop is over; finalize() of a counter mode yields nothing more.
\* Mutant: the loop waits for the position to be exactly the length.
EncEndExactly ==
    /\ sender.state = "open"
    /\ sender.start = Len(content)
    /\ sender' = [sender EXCEPT !.state = "ended"]
    /\ UNCHANGED <<setting, wire, taken, receiver, out, lost>>
EncEnd ==
    /\ sender.state = "open"
    /\ NextChunk = << >>
    /\ sender' = [sender EXCEPT !.state = "ended"]
    /\ UNCHANGED <<setting, wire, taken, receiver, out, lost>>

-----------------------------------------------------------------------------
(* DecryptionAlgorithm                                                       *)

NewReceiver == [state |-> "open", data |-> << >>, preamble_found |-> FALSE, ctr |-> 0,
                checksum |-> << >>]

\* data.find(SEPARATOR): the place before the first occurrence, -1 when there is none.
Find(data) ==
    LET sep == Clear(SEPARATOR)
        at == {p \in 0 .. Len(data) - Len(sep) : SubSeq(data, p + 1, p + Len(sep)) = sep}
    IN  IF at = {} THEN -1 ELSE Min(at)

\* What one update() writes to the output, and the state it leaves.
Decrypted(rcv, data) ==
    LET text == Decipher(data, rcv.ctr)
    IN  [text |-> text,
         receiver |-> [rcv EXCEPT !.ctr = @ + Len(data), !.checksum = @ \o text]]

\* Mutant: a boundary inside the separator makes the reader search the new bytes only.
HybridUpdate_OnlyNew(chunk) ==
    IF receiver.preamble_found THEN Decrypted(receiver, chunk)
    ELSE LET pos == Find(chunk)
         IN  IF pos > 0
             THEN Decrypted([receiver EXCEPT !.data = chunk, !.preamble_found = TRUE],
                            SubSeq(chunk, pos + Len(SEPARATOR) + 1, Len(chunk)))
             ELSE [text |-> << >>, receiver |-> [receiver EXCEPT !.data = chunk]]
\* Mutant: the bytes after the separator are written but not added to the checksum.
HybridUpdate_NoChecksum(chunk) ==
    IF receiver.preamble_found THEN Decrypted(receiver, chunk)
    ELSE LET data == receiver.data \o chunk
             pos == Find(data)
             first == Decrypted([receiver EXCEPT !.data = data, !.preamble_found = TRUE],
                                SubSeq(data, pos + Len(SEPARATOR) + 1, Len(data)))
         IN  IF pos > 0
             THEN [first EXCEPT !.receiver.checksum = receiver.checksum]
             ELSE [text |-> << >>, receiver |-> [receiver EXCEPT !.data = data]]
\* Mutant: the separator is decrypted as if it were the first bytes of the content.
HybridUpdate_Separator(chunk) ==
    IF receiver.preamble_found THEN Decrypted(receiver, chunk)
    ELSE LET data == receiver.data \o chunk
             pos == Find(data)
         IN  IF pos > 0
             THEN Decrypted([receiver EXCEPT !.data = data, !.preamble_found = TRUE],
                            SubSeq(data, pos + 1, Len(data)))
             ELSE [text |-> << >>, receiver |-> [receiver EXCEPT !.data = data]]
HybridUpdate(chunk) ==
    IF receiver.preamble_found THEN Decrypted(receiver, chunk)
    ELSE LET data == receiver.data \o chunk
             pos == Find(data)
         IN  IF pos > 0
             THEN Decrypted([receiver EXCEPT !.data = data, !.preamble_found = TRUE],
                            SubSeq(data, pos + Len(SEPARATOR) + 1, Len(data)))
             ELSE [text |-> << >>, receiver |-> [receiver EXCEPT !.data = data]]

PlainUpdate(chunk) ==
    LET text == [i \in DOMAIN chunk |-> chunk[i].byte]
    IN  [text |-> text, receiver |-> [receiver EXCEPT !.checksum = @ \o text]]

Received(chunk) == IF algorithm = "HYBRID" THEN HybridUpdate(chunk) ELSE PlainUpdate(chunk)

\* for chunk in stream: f.write(self.update(chunk)), with a chunk of any size.
DecUpdate ==
    /\ receiver.state = "open"
    /\ \E n \in taken + 1 .. Len(wire) :
          LET got == Received(SubSeq(wire, taken + 1, n))
          IN  /\ taken' = n
              /\ receiver' = got.receiver
              /\ out' = out \o got.text
    /\ UNCHANGED <<setting, sender, wire, lost>>

\* The stream is exhausted: end() refuses one in which no key was found.
DecEnd ==
    /\ receiver.state = "open"
    /\ sender.state = "ended" /\ taken = Len(wire)
    /\ receiver' = [receiver EXCEPT !.state =
                       IF algorithm = "HYBRID" /\ ~receiver.preamble_found THEN "corrupt" ELSE "done"]
    /\ UNCHANGED <<setting, sender, wire, taken, out, lost>>

-----------------------------------------------------------------------------
(* The environment                                                           *)

\* The connection breaks: the iteration over the stream raises, end() is never called
\* and what was written so far stays where it is.
Break ==
    /\ "break" \in Losses
    /\ receiver.state = "open"
    /\ lost' = TRUE
    /\ receiver' = [receiver EXCEPT !.state = "broken"]
    /\ UNCHANGED <<setting, sender, wire, taken, out>>

\* What is read is a stored stream whose upload broke: it just ends too early.
Cut ==
    /\ "cut" \in Losses /\ ~lost
    /\ receiver.state = "open" /\ sender.state = "ended"
    /\ \E n \in taken .. Len(wire) - 1 : wire' = SubSeq(wire, 1, n)
    /\ lost' = TRUE
    /\ UNCHANGED <<setting, sender, taken, receiver, out>>

-----------------------------------------------------------------------------
Init ==
    /\ content \in Contents /\ preamble \in Preambles
    /\ algorithm \in Algorithms
    /\ source \in {"file", "memory"}
    /\ CHUNK_SIZE \in CHUNK_SIZES
    /\ sender = NewSender /\ receiver = NewReceiver
    /\ wire = << >> /\ taken = 0 /\ out = << >> /\ lost = FALSE

Sending == EncStart \/ EncUpdate \/ EncEnd
Receiving == DecUpdate \/ DecEnd

Next == Sending \/ Receiving \/ Break \/ Cut

Spec == Init /\ [][Next]_vars /\ WF_vars(Sending) /\ WF_vars(Receiving)

-----------------------------------------------------------------------------
TypeOK ==
    /\ sender.state \in {"new", "open", "ended"}
    /\ sender.start \in 0 .. Len(content) + CHUNK_SIZE
    /\ taken \in 0 .. Len(wire)
    /\ receiver.state \in {"open", "done", "corrupt", "broken"}
    /\ receiver.preamble_found \in BOOLEAN
    /\ receiver.ctr \in 0 .. Len(content)
    /\ lost \in BOOLEAN

\* However the network cuts the bytes, and wherever a cut falls in the key or in the
\* separator, the receiver has written exactly the content that follows the header in
\* the bytes it was given: nothing of the header, nothing twice, nothing held back.
KeepsUp ==
    LET n == taken - Len(Header)
    IN  out = SubSeq(content, 1, IF n > 0 THEN n ELSE 0)

\* "Checksum of the transferred data that can be used to check if the data has been
\* transferred correctly": in a transfer that ended without an error, the checksum of the
\* receiver is the one that the sender announced if and only if all of it arrived.
ChecksumTells ==
    receiver.state = "done" => (receiver.checksum = Announced <=> out = content)

Channel == INSTANCE Delivery WITH
    delivered <- out,
    whole <- ~lost,
    status <- CASE receiver.state = "open" -> "open"
                [] receiver.state = "done" -> "done"
                [] OTHER -> "failed"

\* The stream is a channel that delivers growing prefixes, that ends with everything
\* unless something was lost, and that reports an error only if something was lost.
ImplementsDelivery == Channel!Spec

\* A transfer always ends: sender and receiver never wait for each other.
Ends == <>(receiver.state # "open")
=============================================================================
