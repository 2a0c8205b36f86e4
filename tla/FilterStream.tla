--------------------------- MODULE FilterStream ---------------------------
(***************************************************************************)
(* The two filters git runs on a file: git-crypt clean reads it whole,     *)
(* keeping the start in memory and the rest in a temporary file, and       *)
(* writes it encrypted; git-crypt smudge decrypts what git has stored,     *)
(* which may have been damaged meanwhile (commands.cpp:723-911 and the     *)
(* counter mode of crypto.cpp:35-67).  The sizes of the code, 1024, 8 MiB, *)
(* 16 and 2^32, are constants.                                             *)
(***************************************************************************)
EXTENDS Integers, Sequences

CONSTANTS MaxLen,        \* bound: the longest input
          BufferLen,     \* bytes read at once
          MemoryLen,     \* bytes kept in memory
          BlockLen,      \* Aes_ctr_encryptor::BLOCK_LEN
          CounterRange,  \* values of byte_counter
          Secrets,
          Junk           \* a byte decrypted with another pad than its own

ASSUME SizeAssumption == /\ MaxLen \in Nat /\ MemoryLen \in Nat
                         /\ BufferLen \in Nat \ {0} /\ BlockLen \in Nat \ {0}
                         /\ CounterRange \in Nat \ {0}
ASSUME BlockAssumption == CounterRange % BlockLen = 0
ASSUME JunkAssumption == Junk \notin Secrets

\* MAX_CRYPT_BYTES is (1ULL<<32)*16
MaxCrypt == CounterRange * BlockLen

\* The bytes of an input are told apart by their positions.
Byte == 1..MaxLen
Input(n) == [i \in 1..n |-> i]

VARIABLES
  input,    \* the file in the work tree
  size,     \* file_size: bytes read
  eof,      \* std::cin has failed
  memory,   \* file_contents
  temp,     \* temp_file
  secret,   \* the secret the running filter has loaded
  nonce,    \* the first bytes of the digest, in the header
  counter,  \* byte_counter
  pad,      \* the block number that was encrypted to get pad
  out,      \* stdout, after the header
  blob,     \* what git has stored
  damaged,  \* was the blob changed?
  pc, exit

reading == <<input, size, eof, memory, temp>>
cipher == <<counter, pad, out>>
vars == <<reading, secret, nonce, cipher, blob, damaged, pc, exit>>

\* HMAC-SHA1 has no collisions: the digest stands for the key and the text.
Digest(s, text) == [secret |-> s, text |-> text]
NoNonce == [secret |-> Junk, text |-> <<>>]

\* One encrypted byte: the byte, and the byte of pad it was XORed with.
Pad(s, n, b, o) == [secret |-> s, nonce |-> n, block |-> b, offset |-> o]
Unpad(c, p) == IF c.pad = p THEN c.byte ELSE Junk

NoBlob == [marked |-> FALSE, nonce |-> NoNonce, body |-> <<>>]

Init ==
  /\ input = <<>> /\ size = 0 /\ eof = FALSE /\ memory = <<>> /\ temp = <<>>
  /\ secret \in Secrets /\ nonce = NoNonce
  /\ counter = 0 /\ pad = 0 /\ out = <<>>
  /\ blob = NoBlob /\ damaged = FALSE
  /\ pc = "load" /\ exit = "none"

-----------------------------------------------------------------------------
(* Aes_ctr_encryptor::process, one byte at a time                          *)

\* The pad in use for the next byte.
Block == IF counter % BlockLen = 0 THEN counter \div BlockLen ELSE pad
NextPad == Pad(secret, nonce, Block, counter % BlockLen)

\* Mutant of CountByte: the counter wraps silently.
CountByteUnchecked(next) ==
  /\ counter' = (counter + 1) % CounterRange
  /\ pad' = Block
  /\ pc' = next /\ exit' = "none"

\* Mutant of CountByte: a wider counter, that has left its range when it wraps.
CountByteWide(next) ==
  /\ counter' = counter + 1
  /\ pad' = Block
  /\ IF counter' = 0 THEN pc' = "failed" /\ exit' = "counter"
     ELSE pc' = next /\ exit' = "none"

\* A counter that wraps to 0 throws.
CountByte(next) ==
  /\ counter' = (counter + 1) % CounterRange
  /\ pad' = Block
  /\ IF counter' = 0 THEN pc' = "failed" /\ exit' = "counter"
     ELSE pc' = next /\ exit' = "none"

-----------------------------------------------------------------------------
(* clean                                                                   *)

\* With the secret that was loaded, on a file of any length.
StartClean(s) ==
  /\ pc = "load"
  /\ secret' = s /\ input' \in {Input(n) : n \in 0..MaxLen}
  /\ pc' = "read"
  /\ UNCHANGED <<size, eof, memory, temp, nonce, cipher, blob, damaged, exit>>

Chunk == SubSeq(input, size + 1,
                IF size + BufferLen > Len(input) THEN Len(input) ELSE size + BufferLen)

\* Mutant of ReadChunk: what fits in memory goes there.
ReadChunkIfItFits ==
  /\ pc = "read" /\ ~eof /\ size < MaxCrypt
  /\ size' = size + Len(Chunk)
  /\ eof' = (Len(Chunk) < BufferLen)
  /\ IF Len(memory) + Len(Chunk) <= MemoryLen
     THEN memory' = memory \o Chunk /\ UNCHANGED temp
     ELSE temp' = temp \o Chunk /\ UNCHANGED memory
  /\ UNCHANGED <<input, secret, nonce, cipher, blob, damaged, pc, exit>>

\* read() is short only at the end of the file.
ReadChunk ==
  /\ pc = "read" /\ ~eof /\ size < MaxCrypt
  /\ size' = size + Len(Chunk)
  /\ eof' = (Len(Chunk) < BufferLen)
  /\ IF size' <= MemoryLen
     THEN memory' = memory \o Chunk /\ UNCHANGED temp
     ELSE temp' = temp \o Chunk /\ UNCHANGED memory
  /\ UNCHANGED <<input, secret, nonce, cipher, blob, damaged, pc, exit>>

TooLong ==
  /\ pc = "read" /\ size >= MaxCrypt
  /\ pc' = "failed" /\ exit' = "too long"
  /\ UNCHANGED <<reading, secret, nonce, cipher, blob, damaged>>

WriteHeader ==
  /\ pc = "read" /\ eof /\ size < MaxCrypt
  /\ nonce' = Digest(secret, SubSeq(input, 1, size))
  /\ pc' = "encrypt"
  /\ UNCHANGED <<reading, secret, cipher, blob, damaged, exit>>

Encrypt(c) == out' = Append(out, [byte |-> c, pad |-> NextPad])

EncryptMemory ==
  /\ pc = "encrypt" /\ memory # <<>>
  /\ Encrypt(Head(memory)) /\ memory' = Tail(memory)
  /\ CountByte("encrypt")
  /\ UNCHANGED <<input, size, eof, temp, secret, nonce, blob, damaged>>

EncryptTemp ==
  /\ pc = "encrypt" /\ memory = <<>> /\ temp # <<>>
  /\ Encrypt(Head(temp)) /\ temp' = Tail(temp)
  /\ CountByte("encrypt")
  /\ UNCHANGED <<input, size, eof, memory, secret, nonce, blob, damaged>>

\* Git takes what an exit status of 0 comes with.
FinishClean ==
  /\ pc = "encrypt" /\ memory = <<>> /\ temp = <<>>
  /\ blob' = [marked |-> TRUE, nonce |-> nonce, body |-> out]
  /\ pc' = "stored"
  /\ UNCHANGED <<reading, secret, nonce, cipher, damaged, exit>>

\* mkstemp, a write to the temporary file or a write to stdout fails.
CleanDies ==
  /\ pc \in {"read", "encrypt"}
  /\ pc' = "failed" /\ exit' = "io"
  /\ UNCHANGED <<reading, secret, nonce, cipher, blob, damaged>>

-----------------------------------------------------------------------------
(* What happens to a blob: nothing, or one of these.                       *)

Damage(b) ==
  /\ pc = "stored" /\ ~damaged
  /\ blob' = b /\ b # blob /\ damaged' = TRUE
  /\ UNCHANGED <<reading, secret, nonce, cipher, pc, exit>>

Truncated(n) == [blob EXCEPT !.body = SubSeq(@, 1, n)]
Altered(i)   == [blob EXCEPT !.body[i] = [byte |-> Junk, pad |-> Junk]]
Swapped(i)   == [blob EXCEPT !.body[i] = blob.body[i + 1],
                             !.body[i + 1] = blob.body[i]]
Renonced     == [blob EXCEPT !.nonce = NoNonce]
Unmarked     == [blob EXCEPT !.marked = FALSE]

-----------------------------------------------------------------------------
(* smudge, and diff, which does the same to a file                         *)

\* Mutant of StartSmudge: the counter goes on.
StartSmudgeCounting(s) ==
  /\ pc = "stored"
  /\ secret' = s /\ nonce' = blob.nonce
  /\ out' = <<>>
  /\ pc' = IF blob.marked THEN "decrypt" ELSE "copy"
  /\ UNCHANGED <<reading, counter, pad, blob, damaged, exit>>

\* With the secret that has the key's name in this clone.
StartSmudge(s) ==
  /\ pc = "stored"
  /\ secret' = s /\ nonce' = blob.nonce
  /\ counter' = 0 /\ pad' = 0 /\ out' = <<>>
  /\ pc' = IF blob.marked THEN "decrypt" ELSE "copy"
  /\ UNCHANGED <<reading, blob, damaged, exit>>

CopyPlain ==
  /\ pc = "copy"
  /\ out' = blob.body
  /\ pc' = "smudged" /\ exit' = "plain"
  /\ UNCHANGED <<reading, secret, nonce, counter, pad, blob, damaged>>

DecryptByte ==
  /\ pc = "decrypt" /\ Len(out) < Len(blob.body)
  /\ out' = Append(out, Unpad(blob.body[Len(out) + 1], NextPad))
  /\ CountByte("decrypt")
  /\ UNCHANGED <<reading, secret, nonce, blob, damaged>>

\* Mutant of Verify: the digest is not compared.
VerifyNothing ==
  /\ pc = "decrypt" /\ Len(out) = Len(blob.body)
  /\ pc' = "smudged"
  /\ exit' = "ok"
  /\ UNCHANGED <<reading, secret, nonce, cipher, blob, damaged>>

Verify ==
  /\ pc = "decrypt" /\ Len(out) = Len(blob.body)
  /\ pc' = "smudged"
  /\ exit' = IF Digest(secret, out) = nonce THEN "ok" ELSE "tampered"
  /\ UNCHANGED <<reading, secret, nonce, cipher, blob, damaged>>

Next ==
  \/ ReadChunk \/ TooLong \/ WriteHeader \/ EncryptMemory \/ EncryptTemp
  \/ FinishClean \/ CleanDies
  \/ \E i \in DOMAIN blob.body : \/ Damage(Truncated(i - 1)) \/ Damage(Altered(i))
                                 \/ i + 1 \in DOMAIN blob.body /\ Damage(Swapped(i))
  \/ Damage(Renonced) \/ Damage(Unmarked)
  \/ \E s \in Secrets : StartClean(s) \/ StartSmudge(s)
  \/ CopyPlain \/ DecryptByte \/ Verify

Spec == Init /\ [][Next]_vars

-----------------------------------------------------------------------------
(* Properties.                                                             *)

TypeOK ==
  /\ input \in Seq(Byte) /\ size \in 0..Len(input) /\ eof \in BOOLEAN
  /\ memory \in Seq(Byte) /\ temp \in Seq(Byte)
  /\ secret \in Secrets /\ counter \in 0..(CounterRange - 1) /\ pad \in Nat
  /\ damaged \in BOOLEAN
  /\ pc \in {"load", "read", "encrypt", "stored", "copy", "decrypt", "smudged", "failed"}
  /\ exit \in {"none", "ok", "plain", "tampered", "too long", "counter", "io"}

\* No two bytes of a file are encrypted with the same byte of pad
\* ("we should never have a situation where two different plaintext blocks get
\* encrypted with the same CTR value", commands.cpp:792).
PadsFresh ==
  pc \in {"encrypt", "stored"} =>
    \A i, j \in DOMAIN out : i # j => out[i].pad # out[j].pad

\* What clean stored, smudge gives back, in whatever pieces clean had it.
RoundTrip ==
  pc = "smudged" /\ ~damaged /\ blob.nonce.secret = secret =>
    exit = "ok" /\ out = input

\* smudge exits 0 on a blob that bears the header only with the very text the
\* header's HMAC was made of, whatever was done to the blob, and under its key.
SmudgeFaithful ==
  pc = "smudged" /\ exit = "ok" => blob.nonce = Digest(secret, out) /\ out = input

\* MAX_CRYPT_BYTES is where the counter would repeat (crypto.hpp:77), and clean
\* makes "sure the file isn't so large we'll overflow the counter value"
\* (commands.cpp:774): no file it accepts runs the counter out.
AcceptedFits == exit # "counter"
=============================================================================
