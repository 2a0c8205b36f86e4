------------------------- MODULE FilterStreamProofs -------------------------
(***************************************************************************)
(* No two bytes of a file are encrypted with the same byte of pad, for     *)
(* every block length and every range of the byte counter that is a        *)
(* multiple of it, and for inputs of any length: the counter throws before *)
(* it repeats.                                                             *)
(***************************************************************************)
EXTENDS FilterStream, SequenceTheorems, TLAPS

Nonce == [secret : Secrets \cup {Junk}, text : Seq(Byte)]
CipherByte ==
  [byte : Byte,
   pad  : [secret : Secrets, nonce : Nonce, block : Nat, offset : Nat]]

\* The i-th byte of the input, encrypted with byte i - 1 of the key stream.
Encrypted(i, s, n) ==
  [byte |-> input[i], pad |-> Pad(s, n, (i - 1) \div BlockLen, (i - 1) % BlockLen)]

\* How far the input is read.
Reading ==
  /\ pc = "load" => size = 0 /\ eof = FALSE /\ memory = <<>> /\ temp = <<>>
  /\ pc \in {"load", "read"} => counter = 0 /\ out = <<>>
  /\ pc = "read" => /\ temp # <<>> => size > MemoryLen
                    /\ eof => size = Len(input)
  /\ pc = "encrypt" => size = Len(input) /\ nonce = Digest(secret, input)

\* What was read is in stdout, memory and the temporary file, in this order.
Pieces ==
  pc \in {"load", "read", "encrypt"} =>
    /\ Len(out) + Len(memory) + Len(temp) = size
    /\ \A i \in 1..Len(memory) : memory[i] = input[Len(out) + i]
    /\ \A i \in 1..Len(temp) : temp[i] = input[Len(out) + Len(memory) + i]

\* The pad at hand is the block of the byte before.
KeyStream ==
  /\ pc \in {"encrypt", "stored"} =>
       /\ out \in Seq(CipherByte) /\ Len(out) = counter
       /\ \A i \in 1..Len(out) : out[i] = Encrypted(i, secret, nonce)
  /\ pc \in {"encrypt", "decrypt"} /\ counter > 0 => pad = (counter - 1) \div BlockLen

\* A blob bears the digest of the input, or none; undamaged, it is the input.
Stored ==
  pc \in {"stored", "copy", "decrypt", "smudged"} =>
    /\ DOMAIN blob = {"marked", "nonce", "body"}
    /\ blob.nonce = NoNonce \/ blob.nonce = Digest(blob.nonce.secret, input)
    /\ ~damaged =>
         /\ pc # "copy" /\ blob.marked
         /\ blob.nonce = Digest(blob.nonce.secret, input)
         /\ Len(blob.body) = Len(input)
         /\ \A i \in 1..Len(input) : blob.body[i] = Encrypted(i, blob.nonce.secret, blob.nonce)

\* What is decrypted of it is the input again.
Decrypted ==
  /\ pc = "decrypt" => nonce = blob.nonce
  /\ pc = "decrypt" /\ ~damaged /\ blob.nonce.secret = secret =>
       /\ out \in Seq(Byte) /\ Len(out) = counter
       /\ \A i \in 1..Len(out) : i \in 1..Len(input) /\ out[i] = input[i]

IInv ==
  /\ TypeOK /\ (pc \in {"load", "read", "encrypt"} => nonce \in Nonce)
  /\ Reading /\ Pieces /\ KeyStream /\ Stored /\ Decrypted
  /\ RoundTrip /\ SmudgeFaithful

-----------------------------------------------------------------------------
(* Division.                                                               *)

LEMMA NextQuotient ==
  ASSUME NEW b \in Nat \ {0}, NEW a \in Nat, (a + 1) % b # 0
  PROVE  (a + 1) \div b = a \div b
OBVIOUS

LEMMA NextRemainder ==
  ASSUME NEW b \in Nat \ {0}, NEW a \in 0..(b - 1)
  PROVE  (a + 1) % b = IF a + 1 = b THEN 0 ELSE a + 1
OBVIOUS

LEMMA QuotientType ==
  ASSUME NEW b \in Nat \ {0}, NEW a \in Nat
  PROVE  a \div b \in Nat /\ a % b \in Nat
OBVIOUS

LEMMA QuotientAndRemainder ==
  ASSUME NEW b \in Nat \ {0}, NEW a \in Nat, NEW c \in Nat,
         a \div b = c \div b, a % b = c % b
  PROVE  a = c
BY SMTT(60)

-----------------------------------------------------------------------------
(* What the types say of the numbers, and of the sequences.                *)

LEMMA Counters ==
  ASSUME TypeOK
  PROVE  /\ counter \in 0..(CounterRange - 1) /\ counter \in Nat /\ pad \in Nat
         /\ secret \in Secrets
<1>1. counter \in 0..(CounterRange - 1) /\ pad \in Nat /\ secret \in Secrets
  BY Zenon DEF TypeOK
<1> QED
  BY <1>1, SizeAssumption

LEMMA Buffers ==
  ASSUME TypeOK
  PROVE  /\ input \in Seq(Byte) /\ memory \in Seq(Byte) /\ temp \in Seq(Byte)
         /\ size \in Nat /\ Len(input) \in Nat /\ size <= Len(input)
<1>1. /\ input \in Seq(Byte) /\ memory \in Seq(Byte) /\ temp \in Seq(Byte)
      /\ size \in 0..Len(input)
  BY Zenon DEF TypeOK
<1>2. Len(input) \in Nat
  BY <1>1, LenProperties
<1> QED
  BY <1>1, <1>2

-----------------------------------------------------------------------------
\* The counter stays in its range, and counts every byte until it throws.
LEMMA Counting ==
  ASSUME TypeOK, NEW next, CountByte(next)
  PROVE  /\ counter' \in 0..(CounterRange - 1) /\ pad' \in Nat
         /\ counter' # 0 => counter' = counter + 1 /\ pc' = next /\ exit' = "none"
         /\ counter' = 0 => pc' = "failed" /\ exit' = "counter"
         /\ pad' = Block
<1>1. counter \in Nat /\ counter \in 0..(CounterRange - 1)
  BY Counters
<1>2. counter' = IF counter + 1 = CounterRange THEN 0 ELSE counter + 1
  BY <1>1, NextRemainder, SizeAssumption DEF CountByte
<1>3. Block \in Nat
  BY Counters, QuotientType, SizeAssumption DEF Block
<1> QED
  BY <1>1, <1>2, <1>3, SizeAssumption DEF CountByte

\* The pad used for a byte is the block the byte is in.
LEMMA BlockIsQuotient ==
  ASSUME TypeOK, counter > 0 => pad = (counter - 1) \div BlockLen
  PROVE  Block = counter \div BlockLen
<1>1. counter \in Nat
  BY Counters
<1>2. CASE counter % BlockLen = 0
  BY <1>2 DEF Block
<1>3. CASE counter % BlockLen # 0
  <2>1. counter # 0
    BY <1>3, SizeAssumption
  <2>2. counter - 1 \in Nat /\ (counter - 1) + 1 = counter
    BY <1>1, <2>1
  <2>3. counter \div BlockLen = (counter - 1) \div BlockLen
    BY <1>3, <2>2, NextQuotient, SizeAssumption
  <2> QED
    BY <1>1, <1>3, <2>1, <2>3 DEF Block
<1> QED
  BY <1>2, <1>3

\* Encrypting the byte at hand continues the key stream.
LEMMA EncryptKeyStream ==
  ASSUME IInv, pc = "encrypt", NEW c \in Byte, Encrypt(c), CountByte("encrypt"),
         c = input[Len(out) + 1], UNCHANGED <<input, secret, nonce>>
  PROVE  /\ KeyStream'
         /\ pc' = "encrypt" => Len(out') = Len(out) + 1
<1> DEFINE e == [byte |-> c, pad |-> NextPad]
<1>1. counter \in Nat /\ BlockLen \in Nat \ {0}
  BY Counters, SizeAssumption DEF IInv
<1>2. Block = counter \div BlockLen
  BY BlockIsQuotient DEF IInv, KeyStream
<1>3. CASE counter' = 0
  BY <1>3, Counting DEF KeyStream, IInv
<1>4. CASE counter' # 0
  <2>1. counter' = counter + 1 /\ pc' = "encrypt" /\ pad' = counter \div BlockLen
    BY <1>2, <1>4, Counting DEF IInv
  <2>2. e = [byte |-> c, pad |-> Pad(secret, nonce, counter \div BlockLen, counter % BlockLen)]
    BY <1>2 DEF NextPad
  <2>3. e \in CipherByte
    BY <1>1, <1>2, Counters, QuotientType DEF CipherByte, NextPad, Pad, IInv
  <2>4. out \in Seq(CipherByte) /\ Len(out) = counter
    BY DEF IInv, KeyStream
  <2>5. out' = Append(out, e)
    BY DEF Encrypt
  <2> HIDE DEF e
  <2>6. out' \in Seq(CipherByte) /\ Len(out') = counter + 1
    BY <2>3, <2>4, <2>5
  <2>7. ASSUME NEW i \in 1..Len(out')
        PROVE  out'[i] = Encrypted(i, secret, nonce)
    <3>1. CASE i = counter + 1
      <4>1. out'[i] = e /\ i - 1 = counter /\ c = input[i]
        BY <1>1, <2>3, <2>4, <2>5, <3>1
      <4> QED
        BY <2>2, <4>1 DEF Encrypted
    <3>2. CASE i # counter + 1
      <4>1. i \in 1..Len(out) /\ out'[i] = out[i]
        BY <1>1, <2>3, <2>4, <2>5, <2>6, <3>2
      <4> QED
        BY <4>1 DEF IInv, KeyStream
    <3> QED
      BY <3>1, <3>2
  <2> QED
    BY <1>1, <2>1, <2>4, <2>6, <2>7 DEF KeyStream, Encrypted
<1> QED
  BY <1>3, <1>4

-----------------------------------------------------------------------------
LEMMA InitIInv == Init => IInv
<1> SUFFICES ASSUME Init PROVE IInv
  OBVIOUS
<1>1. 0 \in 0..Len(input) /\ 0 \in 0..(CounterRange - 1)
  BY SizeAssumption DEF Init
<1>2. NoNonce \in Nonce
  BY DEF NoNonce, Nonce
<1>3. input \in Seq(Byte) /\ memory \in Seq(Byte) /\ temp \in Seq(Byte)
  BY DEF Init
<1>4. TypeOK
  BY <1>1, <1>3 DEF Init, TypeOK
<1> QED
  BY <1>2, <1>4 DEF Init, IInv, Reading, Pieces, KeyStream, Stored, Decrypted, RoundTrip,
                    SmudgeFaithful

\* The chunk read next is the next piece of the input, short only at its end.
LEMMA ChunkType ==
  ASSUME TypeOK
  PROVE  /\ Chunk \in Seq(Byte) /\ Len(Chunk) \in Nat
         /\ size + Len(Chunk) \in 0..Len(input)
         /\ \A i \in 1..Len(Chunk) : Chunk[i] = input[size + i]
         /\ Len(Chunk) < BufferLen => size + Len(Chunk) = Len(input)
<1> DEFINE m == IF size + BufferLen > Len(input) THEN Len(input)
                ELSE size + BufferLen
<1>1. size \in Nat /\ Len(input) \in Nat /\ size <= Len(input)
  BY Buffers
<1>2. m \in size..Len(input) /\ (m - size < BufferLen => m = Len(input))
  BY <1>1, SizeAssumption
<1>3. input \in Seq(Byte)
  BY Buffers
<1>4. Chunk = SubSeq(input, size + 1, m)
  BY DEF Chunk
<1> HIDE DEF m
<1>5. Chunk \in Seq(Byte) /\ Len(Chunk) = m - size
  BY <1>1, <1>2, <1>3, <1>4, SubSeqProperties
<1>6. ASSUME NEW i \in 1..Len(Chunk) PROVE Chunk[i] = input[size + i]
  <2>1. i \in 1..(m - size) /\ i \in Nat
    BY <1>1, <1>2, <1>5
  <2>2. Chunk[i] = input[(size + 1) + i - 1]
    BY <1>1, <1>2, <1>3, <1>4, <2>1
  <2> QED
    BY <1>1, <2>1, <2>2
<1> QED
  BY <1>1, <1>2, <1>5, <1>6

\* What was read so far, and the chunk after it.
LEMMA ReadPieces ==
  ASSUME IInv, ReadChunk
  PROVE  /\ memory' \in Seq(Byte) /\ temp' \in Seq(Byte) /\ size' \in 0..Len(input)
         /\ Reading' /\ Pieces'
<1>1. /\ memory \in Seq(Byte) /\ temp \in Seq(Byte) /\ size \in Nat
      /\ Len(memory) \in Nat /\ Len(temp) \in Nat /\ MemoryLen \in Nat
  BY Buffers, LenProperties, SizeAssumption DEF IInv
<1>2. /\ Chunk \in Seq(Byte) /\ Len(Chunk) \in Nat /\ size + Len(Chunk) \in 0..Len(input)
      /\ \A i \in 1..Len(Chunk) : Chunk[i] = input[size + i]
      /\ Len(Chunk) < BufferLen => size + Len(Chunk) = Len(input)
  BY ChunkType DEF IInv
<1>3. /\ pc = "read" /\ pc' = "read" /\ input' = input /\ out' = out /\ counter' = counter
      /\ size' = size + Len(Chunk) /\ (eof' => Len(Chunk) < BufferLen)
  BY DEF ReadChunk, cipher
<1>4. /\ out = <<>> /\ counter = 0 /\ Len(out) = 0 /\ (temp # <<>> => size > MemoryLen)
      /\ Len(memory) + Len(temp) = size
      /\ \A i \in 1..Len(memory) : memory[i] = input[i]
      /\ \A i \in 1..Len(temp) : temp[i] = input[Len(memory) + i]
  BY <1>1, <1>3 DEF IInv, Reading, Pieces
<1> DEFINE l == Len(memory)
           t == Len(temp)
           k == Len(Chunk)
<1>7. l \in Nat /\ t \in Nat /\ k \in Nat /\ l + t = size /\ size + k \in 0..Len(input)
  BY <1>1, <1>2, <1>4
<1>5. CASE size' <= MemoryLen
  <2>1. memory' = memory \o Chunk /\ temp' = temp /\ temp = <<>> /\ Len(temp) = 0
    BY <1>1, <1>2, <1>3, <1>4, <1>5 DEF ReadChunk
  <2>2. memory' \in Seq(Byte) /\ Len(memory') = size + Len(Chunk)
    <3>1. Len(memory) = size
      BY <1>1, <1>4, <2>1
    <3> QED
      BY <1>1, <1>2, <2>1, <3>1, ConcatProperties
  <2>3. ASSUME NEW i \in 1..Len(memory') PROVE memory'[i] = input[i]
    BY <1>1, <1>2, <1>4, <2>1, <2>2
  <2> QED
    BY <1>1, <1>2, <1>3, <1>4, <2>1, <2>2, <2>3 DEF Reading, Pieces
<1>6. CASE ~(size' <= MemoryLen)
  <2>1. temp' = temp \o Chunk /\ memory' = memory /\ size' > MemoryLen
    BY <1>1, <1>2, <1>3, <1>6 DEF ReadChunk
  <2>2. temp' \in Seq(Byte) /\ Len(temp') = Len(temp) + Len(Chunk)
    BY <1>1, <1>2, <2>1
  <2>3. ASSUME NEW i \in 1..Len(temp') PROVE temp'[i] = input[Len(memory) + i]
    <3>1. i \in Nat /\ i <= Len(temp) + Len(Chunk) /\ 1 <= i
      BY <1>1, <1>2, <2>2
    <3>2. CASE i <= Len(temp)
      <4>1. temp'[i] = temp[i] /\ i \in 1..Len(temp)
        BY <1>1, <1>2, <2>1, <3>1, <3>2, ConcatProperties
      <4> QED
        BY <1>4, <4>1
    <3>3. CASE i > Len(temp)
      <4>1. temp'[i] = Chunk[i - Len(temp)]
        BY <1>1, <1>2, <2>1, <3>1, <3>3, ConcatProperties
      <4>2. i - Len(temp) \in 1..Len(Chunk) /\ size + (i - Len(temp)) = Len(memory) + i
        BY <1>7, <3>1, <3>3
      <4> QED
        BY <1>2, <4>1, <4>2
    <3> QED
      BY <1>1, <3>1, <3>2, <3>3
  <2>4. Len(out') + Len(memory') + Len(temp') = size' /\ size' \in 0..Len(input)
    <3>1. Len(out') = 0 /\ Len(memory') = l /\ Len(temp') = t + k /\ size' = size + k
      BY <1>3, <1>4, <2>1, <2>2
    <3> HIDE DEF l, t, k
    <3> QED
      BY <1>7, <3>1
  <2>5. Pieces'
    <3>1. /\ Len(out') = 0 /\ Len(memory') = Len(memory) /\ memory' = memory /\ input' = input
          /\ Len(memory) \in Nat
      BY <1>1, <1>3, <1>4, <2>1
    <3>2. \A i \in 1..Len(memory') : memory'[i] = input'[Len(out') + i]
      BY <1>4, <3>1
    <3>3. \A i \in 1..Len(temp') : temp'[i] = input'[Len(out') + Len(memory') + i]
      BY <2>3, <3>1
    <3> QED
      BY <2>4, <3>2, <3>3 DEF Pieces
  <2>6. Reading'
    BY <1>2, <1>3, <1>4, <2>1 DEF Reading
  <2> QED
    BY <1>1, <2>1, <2>2, <2>4, <2>5, <2>6
<1> QED
  BY <1>5, <1>6

\* A byte is taken from memory while there is one, then from the temporary file.
LEMMA MemoryPieces ==
  ASSUME IInv, EncryptMemory
  PROVE  /\ Head(memory) \in Byte /\ memory' \in Seq(Byte)
         /\ Head(memory) = input[Len(out) + 1]
         /\ Len(out') = Len(out) + 1 /\ pc' = "encrypt" => Pieces'
<1>1. /\ memory \in Seq(Byte) /\ memory # <<>> /\ temp \in Seq(Byte) /\ size \in Nat
      /\ Len(temp) \in Nat /\ Len(out) \in Nat
  BY Buffers, LenProperties, Counters DEF IInv, EncryptMemory, KeyStream
<1>2. /\ Head(memory) \in Byte /\ Tail(memory) \in Seq(Byte) /\ Len(memory) \in Nat \ {0}
      /\ Len(Tail(memory)) = Len(memory) - 1 /\ Head(memory) = memory[1]
      /\ \A i \in 1..Len(Tail(memory)) : Tail(memory)[i] = memory[i + 1]
  BY <1>1
<1>3. /\ Len(out) + Len(memory) + Len(temp) = size
      /\ \A i \in 1..Len(memory) : memory[i] = input[Len(out) + i]
      /\ \A i \in 1..Len(temp) : temp[i] = input[Len(out) + Len(memory) + i]
  BY DEF IInv, EncryptMemory, Pieces
<1>4. /\ memory' = Tail(memory) /\ temp' = temp /\ input' = input /\ size' = size
  BY DEF EncryptMemory
<1>5. ASSUME Len(out') = Len(out) + 1, pc' = "encrypt" PROVE Pieces'
  <2>1. Len(out') + Len(memory') + Len(temp') = size'
    <3>1. Len(memory') = Len(memory) - 1 /\ Len(memory) \in Nat /\ Len(temp') = Len(temp)
      BY <1>2, <1>4
    <3>2. Len(out) + Len(memory) + Len(temp) = size' /\ Len(out) \in Nat /\ Len(temp) \in Nat
      BY <1>1, <1>3, <1>4
    <3> QED
      BY <1>5, <3>1, <3>2
  <2>2. ASSUME NEW i \in 1..Len(memory') PROVE memory'[i] = input[Len(out') + i]
    <3>1. i + 1 \in 1..Len(memory) /\ memory'[i] = memory[i + 1]
      BY <1>2, <1>4
    <3>2. Len(out) + (i + 1) = Len(out') + i
      BY <1>1, <1>2, <1>4, <1>5
    <3> QED
      BY <1>3, <3>1, <3>2
  <2>3. ASSUME NEW i \in 1..Len(temp') PROVE temp'[i] = input[Len(out') + Len(memory') + i]
    <3>1. Len(out') + Len(memory') + i = Len(out) + Len(memory) + i
      BY <1>1, <1>2, <1>4, <1>5
    <3> QED
      BY <1>3, <1>4, <3>1
  <2> QED
    BY <1>4, <2>1, <2>2, <2>3 DEF Pieces
<1>6. Head(memory) = input[Len(out) + 1]
  BY <1>2, <1>3
<1> QED
  BY <1>2, <1>4, <1>5, <1>6

LEMMA TempPieces ==
  ASSUME IInv, EncryptTemp
  PROVE  /\ Head(temp) \in Byte /\ temp' \in Seq(Byte)
         /\ Head(temp) = input[Len(out) + 1]
         /\ Len(out') = Len(out) + 1 /\ pc' = "encrypt" => Pieces'
<1>1. /\ temp \in Seq(Byte) /\ temp # <<>> /\ memory = <<>> /\ Len(memory) = 0
      /\ size \in Nat /\ Len(out) \in Nat
  BY Buffers, Counters DEF IInv, EncryptTemp, KeyStream
<1>2. /\ Head(temp) \in Byte /\ Tail(temp) \in Seq(Byte) /\ Len(temp) \in Nat \ {0}
      /\ Len(Tail(temp)) = Len(temp) - 1 /\ Head(temp) = temp[1]
      /\ \A i \in 1..Len(Tail(temp)) : Tail(temp)[i] = temp[i + 1]
  BY <1>1
<1>3. /\ Len(out) + Len(temp) = size
      /\ \A i \in 1..Len(temp) : temp[i] = input[Len(out) + i]
  BY <1>1, <1>2 DEF IInv, EncryptTemp, Pieces
<1>4. /\ temp' = Tail(temp) /\ memory' = memory /\ input' = input /\ size' = size
  BY DEF EncryptTemp
<1>5. ASSUME Len(out') = Len(out) + 1, pc' = "encrypt" PROVE Pieces'
  <2>1. Len(out') + Len(memory') + Len(temp') = size'
    BY <1>1, <1>2, <1>3, <1>4, <1>5, SMTT(30)
  <2>2. ASSUME NEW i \in 1..Len(temp') PROVE temp'[i] = input[Len(out') + Len(memory') + i]
    <3>1. i + 1 \in 1..Len(temp) /\ temp'[i] = temp[i + 1]
      BY <1>2, <1>4
    <3>2. Len(out) + (i + 1) = Len(out') + Len(memory') + i
      BY <1>1, <1>2, <1>4, <1>5
    <3> QED
      BY <1>3, <3>1, <3>2
  <2> QED
    BY <1>1, <1>4, <2>1, <2>2 DEF Pieces
<1>6. Head(temp) = input[Len(out) + 1]
  BY <1>2, <1>3
<1> QED
  BY <1>2, <1>4, <1>5, <1>6

\* A byte of an undamaged blob is decrypted with the pad it was encrypted with.
LEMMA DecryptPieces ==
  ASSUME IInv, DecryptByte
  PROVE  Decrypted' /\ KeyStream'
<1>1. /\ counter \in Nat /\ BlockLen \in Nat \ {0} /\ Len(input) \in Nat /\ input \in Seq(Byte)
  BY Counters, Buffers, SizeAssumption DEF IInv
<1>2. Block = counter \div BlockLen
  BY BlockIsQuotient DEF IInv, KeyStream, DecryptByte
<1>3. /\ input' = input /\ blob' = blob /\ damaged' = damaged /\ secret' = secret /\ nonce' = nonce
      /\ pc = "decrypt"
  BY DEF DecryptByte, reading
<1>4. CASE counter' = 0
  BY <1>4, Counting DEF KeyStream, Decrypted, IInv, DecryptByte
<1>5. CASE counter' # 0
  <2>1. counter' = counter + 1 /\ pc' = "decrypt" /\ pad' = counter \div BlockLen
    BY <1>2, <1>5, Counting DEF IInv, DecryptByte
  <2>2. KeyStream'
    BY <1>1, <2>1 DEF KeyStream
  <2>3. ASSUME ~damaged, blob.nonce.secret = secret
        PROVE  /\ out' \in Seq(Byte) /\ Len(out') = counter'
               /\ \A i \in 1..Len(out') : i \in 1..Len(input) /\ out'[i] = input[i]
    <3> DEFINE j == Len(out) + 1
               c == Unpad(blob.body[j], NextPad)
    <3>1. /\ out \in Seq(Byte) /\ Len(out) = counter /\ nonce = blob.nonce
          /\ \A i \in 1..Len(out) : i \in 1..Len(input) /\ out[i] = input[i]
      BY <1>3, <2>3 DEF IInv, Decrypted
    <3>2. /\ Len(blob.body) = Len(input)
          /\ \A i \in 1..Len(input) : blob.body[i] = Encrypted(i, blob.nonce.secret, blob.nonce)
      BY <1>3, <2>3 DEF IInv, Stored
    <3>3. j \in 1..Len(input) /\ j - 1 = counter
      BY <1>1, <3>1, <3>2 DEF DecryptByte
    <3>4. blob.body[j] = [byte |-> input[j], pad |-> NextPad]
      BY <1>2, <2>3, <3>1, <3>2, <3>3 DEF Encrypted, NextPad
    <3>5. c = input[j] /\ c \in Byte
      BY <1>1, <3>3, <3>4 DEF Unpad
    <3>6. out' = Append(out, c)
      BY DEF DecryptByte
    <3> HIDE DEF c
    <3>7. out' \in Seq(Byte) /\ Len(out') = counter + 1
      BY <1>1, <3>1, <3>5, <3>6
    <3>8. ASSUME NEW i \in 1..Len(out') PROVE i \in 1..Len(input) /\ out'[i] = input[i]
      <4>1. CASE i = j
        BY <1>1, <3>1, <3>3, <3>5, <3>6, <4>1
      <4>2. CASE i # j
        <5>1. i \in 1..Len(out) /\ out'[i] = out[i]
          BY <1>1, <3>1, <3>5, <3>6, <3>7, <4>2
        <5> QED
          BY <3>1, <5>1
      <4> QED
        BY <4>1, <4>2
    <3> QED
      BY <2>1, <3>7, <3>8
  <2>4. nonce' = blob'.nonce
    BY <1>3 DEF IInv, Decrypted
  <2> QED
    BY <1>3, <2>2, <2>3, <2>4 DEF Decrypted
<1> QED
  BY <1>4, <1>5

\* What a finished decryption says, by the digest it was compared with.
LEMMA VerifyFaithful ==
  ASSUME IInv, Verify
  PROVE  RoundTrip' /\ SmudgeFaithful'
<1>1. /\ pc = "decrypt" /\ Len(out) = Len(blob.body) /\ nonce = blob.nonce
      /\ exit' = IF Digest(secret, out) = nonce THEN "ok" ELSE "tampered"
      /\ input' = input /\ out' = out /\ blob' = blob /\ damaged' = damaged /\ secret' = secret
  BY DEF IInv, Decrypted, Verify, reading, cipher
<1>2. blob.nonce = NoNonce \/ blob.nonce = Digest(blob.nonce.secret, input)
  BY <1>1 DEF IInv, Stored
<1>3. ASSUME Digest(secret, out) = nonce PROVE out = input
  <2>1. CASE blob.nonce = NoNonce
    <3>1. secret = Junk
      BY <1>1, <1>3, <2>1 DEF Digest, NoNonce
    <3> QED
      BY <3>1, Counters, JunkAssumption DEF IInv
  <2>2. CASE blob.nonce = Digest(blob.nonce.secret, input)
    <3>1. Digest(secret, out) = Digest(blob.nonce.secret, input)
      BY <1>1, <1>3, <2>2
    <3>2. Digest(secret, out).text = Digest(blob.nonce.secret, input).text
      BY <3>1
    <3> QED
      BY <3>2 DEF Digest
  <2> QED
    BY <1>2, <2>1, <2>2
<1>4. ASSUME ~damaged, blob.nonce.secret = secret PROVE out = input /\ Digest(secret, out) = nonce
  <2>1. /\ out \in Seq(Byte) /\ \A i \in 1..Len(out) : i \in 1..Len(input) /\ out[i] = input[i]
    BY <1>1, <1>4 DEF IInv, Decrypted
  <2>2. Len(out) = Len(input) /\ blob.nonce = Digest(blob.nonce.secret, input)
    BY <1>1, <1>4 DEF IInv, Stored
  <2>3. out = input
    BY <2>1, <2>2, Buffers DEF IInv
  <2> QED
    BY <1>1, <1>4, <2>2, <2>3
<1>5. RoundTrip'
  BY <1>1, <1>4 DEF RoundTrip
<1>6. SmudgeFaithful'
  BY <1>1, <1>3 DEF SmudgeFaithful
<1> QED
  BY <1>5, <1>6

LEMMA StepIInv == IInv /\ [Next]_vars => IInv'
<1> SUFFICES ASSUME IInv, [Next]_vars PROVE IInv'
  OBVIOUS
<1> USE DEF IInv
<1>1. CASE ReadChunk
  <2>1. eof' \in BOOLEAN
    BY <1>1 DEF ReadChunk
  <2>2. TypeOK'
    BY <1>1, <2>1, ReadPieces DEF ReadChunk, TypeOK, cipher
  <2>3. KeyStream' /\ Stored' /\ Decrypted' /\ RoundTrip' /\ SmudgeFaithful'
    BY <1>1 DEF ReadChunk, KeyStream, Stored, Decrypted, RoundTrip, SmudgeFaithful, cipher
  <2> QED
    BY <1>1, <2>2, <2>3, ReadPieces DEF ReadChunk
<1>2. CASE TooLong
  BY <1>2 DEF TooLong, TypeOK, Reading, Pieces, KeyStream, Stored, Decrypted, RoundTrip,
              SmudgeFaithful, reading, cipher
<1>3. CASE WriteHeader
  <2>1. SubSeq(input, 1, size) = input
    BY <1>3, Buffers DEF WriteHeader, Reading
  <2>2. nonce' = Digest(secret, input) /\ nonce' \in Nonce
    BY <1>3, <2>1, Buffers DEF WriteHeader, Digest, Nonce, TypeOK
  <2>3. TypeOK'
    BY <1>3 DEF WriteHeader, TypeOK, reading, cipher
  <2>4. out' = <<>> /\ counter' = 0 /\ pc' = "encrypt" /\ pc = "read"
    BY <1>3 DEF WriteHeader, Reading, cipher
  <2>5. Reading' /\ Pieces'
    BY <1>3, <2>2, <2>4 DEF WriteHeader, Reading, Pieces, reading, cipher
  <2>6. KeyStream' /\ Stored' /\ Decrypted' /\ RoundTrip' /\ SmudgeFaithful'
    BY <2>4 DEF KeyStream, Stored, Decrypted, RoundTrip, SmudgeFaithful
  <2> QED
    BY <2>2, <2>3, <2>5, <2>6
<1>4. CASE EncryptMemory
  <2>1. /\ pc = "encrypt" /\ Encrypt(Head(memory)) /\ CountByte("encrypt")
        /\ UNCHANGED <<input, secret, nonce>>
    BY <1>4 DEF EncryptMemory
  <2>2. KeyStream' /\ (pc' = "encrypt" => Len(out') = Len(out) + 1)
    BY <1>4, <2>1, MemoryPieces, EncryptKeyStream
  <2>3. TypeOK' /\ pc' \in {"encrypt", "failed"}
    BY <1>4, <2>1, MemoryPieces, Counting DEF EncryptMemory, TypeOK
  <2>4. Pieces'
    BY <1>4, <2>2, <2>3, MemoryPieces DEF Pieces
  <2>5. Reading' /\ Stored' /\ Decrypted' /\ RoundTrip' /\ SmudgeFaithful'
    BY <1>4, <2>3 DEF EncryptMemory, Reading, Stored, Decrypted, RoundTrip, SmudgeFaithful
  <2> QED
    BY <2>1, <2>2, <2>3, <2>4, <2>5
<1>5. CASE EncryptTemp
  <2>1. /\ pc = "encrypt" /\ Encrypt(Head(temp)) /\ CountByte("encrypt")
        /\ UNCHANGED <<input, secret, nonce>>
    BY <1>5 DEF EncryptTemp
  <2>2. KeyStream' /\ (pc' = "encrypt" => Len(out') = Len(out) + 1)
    BY <1>5, <2>1, TempPieces, EncryptKeyStream
  <2>3. TypeOK' /\ pc' \in {"encrypt", "failed"}
    BY <1>5, <2>1, TempPieces, Counting DEF EncryptTemp, TypeOK
  <2>4. Pieces'
    BY <1>5, <2>2, <2>3, TempPieces DEF Pieces
  <2>5. Reading' /\ Stored' /\ Decrypted' /\ RoundTrip' /\ SmudgeFaithful'
    BY <1>5, <2>3 DEF EncryptTemp, Reading, Stored, Decrypted, RoundTrip, SmudgeFaithful
  <2> QED
    BY <2>1, <2>2, <2>3, <2>4, <2>5
<1>6. CASE FinishClean
  <2>1. /\ pc = "encrypt" /\ pc' = "stored" /\ Len(memory) = 0 /\ Len(temp) = 0
        /\ blob' = [marked |-> TRUE, nonce |-> nonce, body |-> out]
        /\ UNCHANGED <<input, secret, nonce, counter, out>>
    BY <1>6 DEF FinishClean, reading, cipher
  <2>2. Len(out) = Len(input) /\ nonce = Digest(secret, input) /\ nonce.secret = secret
    <3>1. Len(out) \in Nat
      BY <2>1, Counters DEF KeyStream
    <3>2. size = Len(input) /\ nonce = Digest(secret, input)
      BY <2>1 DEF Reading
    <3> QED
      BY <2>1, <3>1, <3>2 DEF Pieces, Digest
  <2>3. Stored'
    BY <2>1, <2>2 DEF Stored, KeyStream, Encrypted
  <2>4. TypeOK'
    BY <1>6 DEF FinishClean, TypeOK, reading, cipher
  <2> QED
    BY <2>1, <2>3, <2>4 DEF Reading, Pieces, KeyStream, Decrypted, RoundTrip, SmudgeFaithful,
                            Encrypted
<1>7. CASE CleanDies
  BY <1>7 DEF CleanDies, TypeOK, Reading, Pieces, KeyStream, Stored, Decrypted, RoundTrip,
              SmudgeFaithful, reading, cipher
<1>8. ASSUME NEW b, Damage(b), DOMAIN b = DOMAIN blob, b.nonce \in {blob.nonce, NoNonce}
      PROVE  IInv'
  <2>1. /\ pc = "stored" /\ pc' = "stored" /\ blob' = b /\ damaged' = TRUE
        /\ UNCHANGED <<reading, secret, nonce, cipher, exit>>
    BY <1>8 DEF Damage
  <2>2. TypeOK'
    BY <2>1 DEF TypeOK, reading, cipher
  <2>3. Stored'
    BY <1>8, <2>1 DEF Stored, reading
  <2> QED
    BY <2>1, <2>2, <2>3 DEF Reading, Pieces, KeyStream, Decrypted, RoundTrip, SmudgeFaithful,
                            Encrypted, reading, cipher
<1>9. ASSUME NEW s \in Secrets, StartSmudge(s) PROVE IInv'
  <2>1. /\ pc = "stored" /\ pc' = IF blob.marked THEN "decrypt" ELSE "copy"
        /\ counter' = 0 /\ pad' = 0 /\ out' = <<>> /\ nonce' = blob.nonce /\ secret' = s
        /\ UNCHANGED <<reading, blob, damaged, exit>>
    BY <1>9 DEF StartSmudge
  <2>2. counter' \in 0..(CounterRange - 1) /\ pad' \in Nat
    BY <2>1, SizeAssumption
  <2>3. TypeOK'
    BY <2>1, <2>2 DEF TypeOK, reading
  <2>4. Stored'
    BY <2>1 DEF Stored, Encrypted, reading
  <2> QED
    BY <2>1, <2>3, <2>4 DEF Reading, Pieces, KeyStream, Decrypted, RoundTrip, SmudgeFaithful
<1>10. CASE CopyPlain
  <2>1. damaged
    BY <1>10 DEF CopyPlain, Stored
  <2>2. TypeOK' /\ Stored'
    BY <1>10, <2>1 DEF CopyPlain, TypeOK, Stored, reading
  <2> QED
    BY <1>10, <2>1, <2>2 DEF CopyPlain, Reading, Pieces, KeyStream, Decrypted, RoundTrip,
                             SmudgeFaithful
<1>11. CASE DecryptByte
  <2>1. TypeOK' /\ pc = "decrypt" /\ pc' \in {"decrypt", "failed"}
    BY <1>11, Counting DEF DecryptByte, TypeOK, reading
  <2>2. Stored'
    BY <1>11, <2>1 DEF DecryptByte, Stored, Encrypted, reading
  <2> QED
    BY <1>11, <2>1, <2>2, DecryptPieces DEF Reading, Pieces, RoundTrip, SmudgeFaithful
<1>12. CASE Verify
  <2>1. TypeOK' /\ pc = "decrypt" /\ pc' = "smudged"
    BY <1>12 DEF Verify, TypeOK, reading, cipher
  <2>2. Stored'
    BY <1>12, <2>1 DEF Verify, Stored, Encrypted, reading
  <2> QED
    BY <1>12, <2>1, <2>2, VerifyFaithful DEF Reading, Pieces, KeyStream, Decrypted
<1>13. ASSUME NEW s \in Secrets, StartClean(s) PROVE IInv'
  <2>1. PICK n \in 0..MaxLen : input' = Input(n)
    BY <1>13 DEF StartClean
  <2>2. input' \in Seq(Byte) /\ Len(input') \in Nat
    BY <2>1, SizeAssumption DEF Input, Byte
  <2>3. /\ pc = "load" /\ pc' = "read" /\ secret' = s
        /\ UNCHANGED <<size, eof, memory, temp, nonce, cipher, blob, damaged, exit>>
    BY <1>13 DEF StartClean
  <2>4. size' = 0 /\ eof' = FALSE /\ memory' = <<>> /\ temp' = <<>> /\ out' = <<>> /\ counter' = 0
    BY <2>3 DEF Reading, cipher
  <2>5. TypeOK'
    <3>1. 0 \in 0..Len(input')
      BY <2>2
    <3> QED
      BY <2>2, <2>3, <2>4, <3>1 DEF TypeOK, cipher
  <2> QED
    BY <2>3, <2>4, <2>5 DEF Reading, Pieces, KeyStream, Stored, Decrypted, RoundTrip,
                            SmudgeFaithful
<1>14. CASE UNCHANGED vars
  <2>1. UNCHANGED <<input, size, eof, memory, temp, secret, nonce, counter, pad, out, blob,
                    damaged, pc, exit>>
    BY <1>14 DEF vars, reading, cipher
  <2>2. TypeOK' /\ Reading' /\ Pieces' /\ Decrypted' /\ RoundTrip' /\ SmudgeFaithful'
    BY <2>1, ZenonT(60) DEF TypeOK, Reading, Pieces, Decrypted, RoundTrip, SmudgeFaithful
  <2>3. KeyStream' /\ Stored'
    BY <2>1 DEF KeyStream, Stored, Encrypted
  <2> QED
    BY <2>1, <2>2, <2>3
<1>15. ASSUME NEW i \in DOMAIN blob.body,
              \/ Damage(Truncated(i - 1)) \/ Damage(Altered(i)) \/ Damage(Swapped(i))
       PROVE  IInv'
  <2>1. DOMAIN blob = {"marked", "nonce", "body"}
    BY <1>15 DEF Damage, Stored
  <2>2. /\ DOMAIN Truncated(i - 1) = DOMAIN blob /\ Truncated(i - 1).nonce = blob.nonce
        /\ DOMAIN Altered(i) = DOMAIN blob /\ Altered(i).nonce = blob.nonce
        /\ DOMAIN Swapped(i) = DOMAIN blob /\ Swapped(i).nonce = blob.nonce
    BY <2>1 DEF Truncated, Altered, Swapped
  <2> QED
    BY <1>8, <1>15, <2>2
<1>16. CASE Damage(Renonced) \/ Damage(Unmarked)
  <2>1. DOMAIN blob = {"marked", "nonce", "body"}
    BY <1>16 DEF Damage, Stored
  <2>2. /\ DOMAIN Renonced = DOMAIN blob /\ Renonced.nonce = NoNonce
        /\ DOMAIN Unmarked = DOMAIN blob /\ Unmarked.nonce = blob.nonce
    BY <2>1 DEF Renonced, Unmarked
  <2> QED
    BY <1>8, <1>16, <2>2
<1> QED
  BY <1>1, <1>2, <1>3, <1>4, <1>5, <1>6, <1>7, <1>9, <1>10, <1>11, <1>12, <1>13, <1>14,
     <1>15, <1>16 DEF Next

\* The invariant of the filters.
THEOREM FilterInvariance == Spec => []IInv
BY InitIInv, StepIInv, PTL DEF Spec

\* The types, for every choice of the sizes.
THEOREM FilterTypes == Spec => []TypeOK
BY FilterInvariance, PTL DEF IInv

\* No byte of pad is ever used twice in one file.
THEOREM PadsNeverReused == Spec => []PadsFresh
<1>1. IInv => PadsFresh
  <2> SUFFICES ASSUME IInv, pc \in {"encrypt", "stored"},
                      NEW i \in DOMAIN out, NEW j \in DOMAIN out,
                      out[i].pad = out[j].pad
               PROVE  i = j
    BY DEF PadsFresh
  <2>1. i \in 1..Len(out) /\ j \in 1..Len(out) /\ Len(out) \in Nat
    BY Counters DEF IInv, KeyStream
  <2>2. /\ out[i] = Encrypted(i, secret, nonce) /\ out[j] = Encrypted(j, secret, nonce)
    BY <2>1 DEF IInv, KeyStream
  <2>3. (i - 1) \div BlockLen = (j - 1) \div BlockLen /\ (i - 1) % BlockLen = (j - 1) % BlockLen
    BY <2>2 DEF Encrypted, Pad
  <2>4. i - 1 \in Nat /\ j - 1 \in Nat
    BY <2>1
  <2>5. i - 1 = j - 1
    BY <2>3, <2>4, QuotientAndRemainder, SizeAssumption
  <2> QED
    BY <2>1, <2>5
<1> QED
  BY FilterInvariance, <1>1, PTL

\* What clean stored, smudge gives back, for every size of the read buffer, of the
\* memory, of a block and of the counter, and every length of the file.
THEOREM FilterRoundTrip == Spec => []RoundTrip
BY FilterInvariance, PTL DEF IInv

\* smudge exits 0 on a blob with the header only with the text clean was given.
THEOREM SmudgeIsFaithful == Spec => []SmudgeFaithful
BY FilterInvariance, PTL DEF IInv
=============================================================================
