--------------------------- MODULE FhStreamProofs ---------------------------
(***************************************************************************)
(* That the streams of fhstream.cpp and the child between them are one     *)
(* stream, for every size of the buffers and of the pipes, every number of *)
(* bytes, and every way the reads and writes are cut into pieces.          *)
(***************************************************************************)
EXTENDS FhStream, SequenceTheorems, TLAPS

-----------------------------------------------------------------------------
(* Stretches of bytes.                                                     *)

Stretches == Seq(1..MaxPut)

\* A part of a sequence, of which k elements are taken, is one, too.
LEMMA PartType ==
  ASSUME NEW S, NEW s \in Seq(S), NEW k \in 0..Len(s)
  PROVE  /\ SubSeq(s, 1, k) \in Seq(S) /\ Len(SubSeq(s, 1, k)) = k
         /\ Drop(s, k) \in Seq(S) /\ Len(Drop(s, k)) = Len(s) - k
         /\ \A i \in 1..k : SubSeq(s, 1, k)[i] = s[i]
         /\ \A i \in 1..(Len(s) - k) : Drop(s, k)[i] = s[k + i]
BY DEF Drop

\* What Bytes(a, n) is.
LEMMA BytesType ==
  ASSUME NEW a \in Nat, NEW n \in Nat
  PROVE  /\ Bytes(a, n) \in Seq(Nat) /\ Len(Bytes(a, n)) = n
         /\ \A i \in 1..n : Bytes(a, n)[i] = a + i
BY DEF Bytes

\* A stretch that ends at m has no byte after it.
LEMMA BytesUpTo ==
  ASSUME NEW a \in Nat, NEW n \in Nat, NEW m \in Nat, a + n <= m
  PROVE  Bytes(a, n) \in Seq(1..m)
BY DEF Bytes

\* A sequence is a stretch when its elements are those of one.
LEMMA BytesAre ==
  ASSUME NEW a \in Nat, NEW S, NEW s \in Seq(S), NEW n \in Nat, Len(s) = n,
         \A i \in 1..n : s[i] = a + i
  PROVE  s = Bytes(a, n)
<1>1. s = [i \in 1..n |-> s[i]]
  BY LenProperties
<1> QED  BY <1>1 DEF Bytes

\* A stretch that is cut is two.
LEMMA BytesCut ==
  \A a \in Nat, s \in Stretches :
    s = Bytes(a, Len(s)) =>
      \A k \in 0..Len(s) : /\ SubSeq(s, 1, k) = Bytes(a, k)
                            /\ Drop(s, k) = Bytes(a + k, Len(s) - k)
<1> SUFFICES ASSUME NEW a \in Nat, NEW s \in Stretches, s = Bytes(a, Len(s)), NEW k \in 0..Len(s)
             PROVE  SubSeq(s, 1, k) = Bytes(a, k) /\ Drop(s, k) = Bytes(a + k, Len(s) - k)
  OBVIOUS
<1> DEFINE n == Len(s)
<1>0. n \in Nat
  BY LenProperties DEF Stretches
<1>1. \A i \in 1..n : s[i] = a + i
  BY <1>0, BytesType
<1>2. /\ SubSeq(s, 1, k) \in Seq(1..MaxPut) /\ Len(SubSeq(s, 1, k)) = k
      /\ Drop(s, k) \in Seq(1..MaxPut) /\ Len(Drop(s, k)) = n - k
      /\ \A i \in 1..k : SubSeq(s, 1, k)[i] = s[i]
      /\ \A i \in 1..(n - k) : Drop(s, k)[i] = s[k + i]
  BY PartType DEF Stretches
<1>3. k \in Nat /\ n - k \in Nat /\ a + k \in Nat
  BY <1>0
<1> HIDE DEF Bytes
<1>4. \A i \in 1..k : SubSeq(s, 1, k)[i] = a + i
  BY <1>1, <1>2
<1>5. \A i \in 1..(n - k) : Drop(s, k)[i] = (a + k) + i
  BY <1>1, <1>2
<1>6. SubSeq(s, 1, k) = Bytes(a, k)
  BY <1>2, <1>3, <1>4, BytesAre
<1>7. Drop(s, k) = Bytes(a + k, n - k)
  BY <1>2, <1>3, <1>5, BytesAre
<1> QED  BY <1>6, <1>7

\* Two stretches, of which the second begins where the first ends, are one.
LEMMA Join ==
  ASSUME NEW a \in Nat, NEW s \in Seq(Nat), NEW t \in Seq(Nat),
         \A i \in 1..Len(s) : s[i] = a + i, \A i \in 1..Len(t) : t[i] = a + Len(s) + i
  PROVE  s \o t = Bytes(a, Len(s) + Len(t))
<1>1. s \o t \in Seq(Nat) /\ Len(s \o t) = Len(s) + Len(t)
  BY ConcatProperties
<1>2. \A i \in 1..(Len(s) + Len(t)) : (s \o t)[i] = a + i
  BY ConcatProperties
<1>3. Len(s) + Len(t) \in Nat
  OBVIOUS
<1> HIDE DEF Bytes
<1> QED  BY <1>1, <1>2, <1>3, BytesAre

LEMMA BytesJoin ==
  \A a \in Nat, m \in Nat, n \in Nat : Bytes(a, m) \o Bytes(a + m, n) = Bytes(a, m + n)
<1> SUFFICES ASSUME NEW a \in Nat, NEW m \in Nat, NEW n \in Nat
             PROVE  Bytes(a, m) \o Bytes(a + m, n) = Bytes(a, m + n)
  OBVIOUS
<1> DEFINE s == Bytes(a, m)  t == Bytes(a + m, n)
<1>1. /\ s \in Seq(Nat) /\ Len(s) = m
      /\ \A i \in 1..m : s[i] = a + i
  BY BytesType
<1>2. /\ t \in Seq(Nat) /\ Len(t) = n
      /\ \A i \in 1..n : t[i] = (a + m) + i
  <2>1. a + m \in Nat
    OBVIOUS
  <2> QED  BY <2>1, BytesType
<1> HIDE DEF s, t
<1>3. s \o t = Bytes(a, m + n)
  <2>1. s \o t = Bytes(a, Len(s) + Len(t))
    BY <1>1, <1>2, Join
  <2> QED  BY <2>1, <1>1, <1>2
<1> QED  BY <1>3 DEF s, t

\* So is a stretch with the byte after it.
LEMMA BytesAppend ==
  ASSUME NEW a \in Nat, NEW m \in Nat
  PROVE  Append(Bytes(a, m), a + m + 1) = Bytes(a, m + 1)
<1> DEFINE s == Bytes(a, m)  t == Append(s, a + m + 1)
<1>1. /\ s \in Seq(Nat) /\ Len(s) = m
      /\ \A i \in 1..m : s[i] = a + i
  BY BytesType
<1> HIDE DEF s
<1>2. t \in Seq(Nat) /\ Len(t) = m + 1
  BY <1>1
<1>3. \A i \in 1..(m + 1) : t[i] = a + i
  BY <1>1
<1> HIDE DEF t
<1>4. t = Bytes(a, m + 1)
  BY <1>2, <1>3, BytesAre
<1> QED  BY <1>4 DEF s, t

\* A stretch without bytes.
LEMMA BytesEmpty == \A a \in Nat : Bytes(a, 0) = <<>>
BY DEF Bytes

-----------------------------------------------------------------------------
(* The types.                                                              *)

\* The types of the sequences, one by one, of the rest, and of the flags.
SeqTypes ==
  /\ obuf \in Stretches /\ writing \in Stretches /\ string \in Stretches
  /\ input \in Stretches /\ held \in Stretches /\ output \in Stretches
  /\ ibuf \in Stretches /\ got \in Stretches
OtherTypes ==
  /\ offered \in 0..MaxPut
  /\ Len(obuf) <= BufferSize - 1 /\ Len(ibuf) <= BufferSize
  /\ Len(input) <= Capacity /\ Len(output) <= Capacity
  /\ wanted \in Nat /\ child \in {"running", "ok", "failed"}
  /\ pc \in {"idle", "overflow", "flush", "direct", "destroy",
             "get", "gets", "direct_read", "done"}
  /\ exit \in {"none", "ok", "failed", "killed"}
FlagTypes ==
  /\ good \in BOOLEAN /\ open \in BOOLEAN /\ eof \in BOOLEAN
  /\ ignored \in BOOLEAN /\ lost \in BOOLEAN /\ nudged \in BOOLEAN
Typed == SeqTypes /\ OtherTypes /\ FlagTypes

LEMMA TypeParts == TypeOK <=> Typed
<1>1. (\A s \in {obuf, writing, string, input, held, output, ibuf, got} : s \in Seq(1..MaxPut))
      <=> SeqTypes
  BY DEF SeqTypes, Stretches
<1> QED  BY <1>1 DEF TypeOK, Typed, OtherTypes, FlagTypes

LEMMA StretchLen ==
  \A s \in Stretches : /\ Len(s) \in Nat /\ (s = <<>> <=> Len(s) = 0)
                       /\ \A k \in DOMAIN s : k \in 1..Len(s)
BY EmptySeq, LenProperties DEF Stretches

LEMMA StretchConcat ==
  ASSUME NEW s \in Stretches, NEW t \in Stretches
  PROVE  s \o t \in Stretches /\ Len(s \o t) = Len(s) + Len(t)
BY ConcatProperties DEF Stretches

LEMMA StretchAppend ==
  ASSUME NEW s \in Stretches, NEW n \in 1..MaxPut
  PROVE  Append(s, n) \in Stretches /\ Len(Append(s, n)) = Len(s) + 1
BY DEF Stretches

LEMMA StretchPart ==
  ASSUME NEW s \in Stretches, NEW k \in 0..Len(s)
  PROVE  /\ SubSeq(s, 1, k) \in Stretches /\ Len(SubSeq(s, 1, k)) = k
         /\ Drop(s, k) \in Stretches /\ Len(Drop(s, k)) = Len(s) - k
BY PartType DEF Stretches

LEMMA NoStretch == <<>> \in Stretches /\ Len(<<>>) = 0
BY DEF Stretches

LEMMA InitType == Init => Typed
<1> SUFFICES ASSUME Init PROVE Typed
  OBVIOUS
<1>1. SeqTypes
  BY DEF Init, SeqTypes, Stretches
<1>2. OtherTypes
  BY SizeAssumption DEF Init, OtherTypes
<1>3. FlagTypes
  BY Zenon DEF Init, FlagTypes
<1> QED  BY <1>1, <1>2, <1>3 DEF Typed

(* Every action keeps the types.                                           *)

LEMMA PutCharType ==
  ASSUME Typed, PutChar
  PROVE  SeqTypes' /\ OtherTypes'
<1>1. offered' \in 1..MaxPut
  BY SizeAssumption DEF Typed, OtherTypes, PutChar
<1>2. Append(obuf, offered') \in Stretches /\ Len(Append(obuf, offered')) = Len(obuf) + 1
  BY <1>1, StretchAppend DEF Typed, SeqTypes
<1>3. Len(obuf) \in Nat
  BY StretchLen DEF Typed, SeqTypes
<1>4. SeqTypes'
  BY <1>2 DEF Typed, SeqTypes, istream, theirs, PutChar
<1>5. OtherTypes'
  BY <1>1, <1>2, <1>3, SizeAssumption DEF Typed, OtherTypes, istream, theirs, PutChar, Room
<1> QED  BY <1>4, <1>5

LEMMA PutStringType ==
  ASSUME Typed, NEW n \in Length, PutString(n)
  PROVE  SeqTypes' /\ OtherTypes'
<1> DEFINE s == Bytes(offered, n)
<1>1. s \in Stretches /\ Len(s) = n /\ n \in Nat
  <2>1. n \in Nat /\ offered \in Nat /\ offered + n <= MaxPut /\ MaxPut \in Nat
    BY SizeAssumption DEF PutString, Length, Typed, OtherTypes
  <2> QED  BY <2>1, BytesUpTo, BytesType DEF Stretches
<1>2. Len(obuf) \in Nat
  BY StretchLen DEF Typed, SeqTypes
<1>3. obuf \o s \in Stretches /\ Len(obuf \o s) = Len(obuf) + n
  BY <1>1, StretchConcat DEF Typed, SeqTypes
<1>4. n < Min2(Direct, Room) => n < BufferSize - 1 - Len(obuf)
  BY <1>1, <1>2, SizeAssumption DEF Min2, Room
<1>5. \/ obuf' = obuf \o s /\ n < Min2(Direct, Room) /\ UNCHANGED <<writing, string, pc>>
      \/ writing' = obuf /\ string' = s /\ pc' = "flush" /\ UNCHANGED obuf
      \/ writing' = s /\ pc' = "direct" /\ UNCHANGED <<obuf, string>>
  BY DEF PutString
<1> HIDE DEF s
<1>6. SeqTypes'
  BY <1>1, <1>3, <1>5 DEF Typed, SeqTypes, istream, theirs, PutString
<1>7. OtherTypes'
  BY <1>1, <1>2, <1>3, <1>4, <1>5, SizeAssumption DEF Typed, OtherTypes, istream, theirs,
    PutString
<1> QED  BY <1>6, <1>7

LEMMA PutInVainType ==
  ASSUME Typed, PutInVain
  PROVE  SeqTypes' /\ OtherTypes'
BY SizeAssumption, NoStretch DEF Typed, SeqTypes, OtherTypes, ostream, istream, theirs,
  PutInVain

LEMMA SyncType ==
  ASSUME Typed, Sync
  PROVE  SeqTypes' /\ OtherTypes'
BY SizeAssumption, NoStretch DEF Typed, SeqTypes, OtherTypes, ostream, istream, theirs,
  Sync

LEMMA WriteSomeType ==
  ASSUME Typed, NEW k \in DOMAIN writing, WriteSome(k)
  PROVE  SeqTypes' /\ OtherTypes'
<1>1. k \in 1..Len(writing) /\ k \in 0..Len(writing) /\ Len(writing) \in Nat /\ Len(input) \in Nat
  BY StretchLen DEF Typed, SeqTypes
<1>2. /\ SubSeq(writing, 1, k) \in Stretches /\ Len(SubSeq(writing, 1, k)) = k
      /\ Drop(writing, k) \in Stretches /\ Len(Drop(writing, k)) = Len(writing) - k
  BY <1>1, StretchPart DEF Typed, SeqTypes
<1>3. /\ input \o SubSeq(writing, 1, k) \in Stretches
      /\ Len(input \o SubSeq(writing, 1, k)) = Len(input) + k
  BY <1>2, StretchConcat DEF Typed, SeqTypes
<1>4. SeqTypes'
  BY <1>2, <1>3 DEF Typed, SeqTypes, ostream, istream, theirs, WriteSome
<1>5. OtherTypes'
  BY <1>1, <1>2, <1>3, SizeAssumption DEF Typed, OtherTypes, ostream, istream, theirs,
    WriteSome
<1> QED  BY <1>4, <1>5

LEMMA WrittenType ==
  ASSUME Typed, Written
  PROVE  SeqTypes' /\ OtherTypes'
<1>1. SeqTypes'
  BY NoStretch DEF Typed, SeqTypes, istream, theirs, Written
<1>2. OtherTypes'
  BY NoStretch, SizeAssumption DEF Typed, OtherTypes, istream, theirs, Written
<1> QED  BY <1>1, <1>2

LEMMA WriteFailsType ==
  ASSUME Typed, WriteFails
  PROVE  SeqTypes' /\ OtherTypes'
BY SizeAssumption, NoStretch DEF Typed, SeqTypes, OtherTypes, ostream, istream, theirs,
  WriteFails

LEMMA KilledType ==
  ASSUME Typed, Killed
  PROVE  SeqTypes' /\ OtherTypes'
BY SizeAssumption, NoStretch DEF Typed, SeqTypes, OtherTypes, ostream, istream, theirs,
  Killed

LEMMA CloseStdinType ==
  ASSUME Typed, CloseStdin
  PROVE  SeqTypes' /\ OtherTypes'
BY SizeAssumption, NoStretch DEF Typed, SeqTypes, OtherTypes, ostream, istream, theirs,
  CloseStdin

LEMMA DestroyedType ==
  ASSUME Typed, Destroyed
  PROVE  SeqTypes' /\ OtherTypes'
BY SizeAssumption, NoStretch DEF Typed, SeqTypes, OtherTypes, ostream, istream, theirs,
  Destroyed

LEMMA UnderflowType ==
  ASSUME Typed, NEW k \in DOMAIN output, Underflow(k)
  PROVE  SeqTypes' /\ OtherTypes'
<1>1. k \in 1..Len(output) /\ k \in 0..Len(output) /\ Len(output) \in Nat
  BY StretchLen DEF Typed, SeqTypes
<1>2. /\ SubSeq(output, 1, k) \in Stretches /\ Len(SubSeq(output, 1, k)) = k
      /\ Drop(output, k) \in Stretches /\ Len(Drop(output, k)) = Len(output) - k
  BY <1>1, StretchPart DEF Typed, SeqTypes
<1>3. SeqTypes'
  BY <1>2 DEF Typed, SeqTypes, ostream, Underflow
<1>4. OtherTypes'
  BY <1>1, <1>2, SizeAssumption DEF Typed, OtherTypes, ostream, Underflow
<1> QED  BY <1>3, <1>4

LEMMA GetType ==
  ASSUME Typed, Get
  PROVE  SeqTypes' /\ OtherTypes'
BY SizeAssumption, NoStretch DEF Typed, SeqTypes, OtherTypes, ostream, istream, theirs,
  Get

LEMMA GetStringType ==
  ASSUME Typed, NEW n \in Length, GetString(n)
  PROVE  SeqTypes' /\ OtherTypes'
<1>1. n \in Nat /\ Len(ibuf) \in Nat
  BY StretchLen, SizeAssumption DEF Typed, SeqTypes, Length
<1>2. got \o ibuf \in Stretches
  BY StretchConcat DEF Typed, SeqTypes
<1>3. SeqTypes'
  BY <1>2, NoStretch DEF Typed, SeqTypes, ostream, theirs, GetString
<1>4. OtherTypes'
  BY <1>1, NoStretch, SizeAssumption DEF Typed, OtherTypes, ostream, theirs, GetString
<1> QED  BY <1>3, <1>4

LEMMA TakeType ==
  ASSUME Typed, Take
  PROVE  SeqTypes' /\ OtherTypes'
<1> DEFINE k == Min2(wanted, Len(ibuf))
<1>1. k \in 0..Len(ibuf) /\ k <= wanted /\ k \in Nat /\ Len(ibuf) \in Nat
  BY StretchLen DEF Min2, Typed, SeqTypes, OtherTypes
<1> HIDE DEF k
<1>2. /\ SubSeq(ibuf, 1, k) \in Stretches
      /\ Drop(ibuf, k) \in Stretches /\ Len(Drop(ibuf, k)) = Len(ibuf) - k
  BY <1>1, StretchPart DEF Typed, SeqTypes
<1>3. got \o SubSeq(ibuf, 1, k) \in Stretches
  BY <1>2, StretchConcat DEF Typed, SeqTypes
<1>4. got' = got \o SubSeq(ibuf, 1, k) /\ ibuf' = Drop(ibuf, k) /\ wanted' = wanted - k
  BY DEF Take, k
<1>5. SeqTypes'
  BY <1>2, <1>3, <1>4 DEF Typed, SeqTypes, ostream, theirs, Take
<1>6. wanted' \in Nat
  BY <1>1, <1>4 DEF Typed, OtherTypes
<1>7. OtherTypes'
  BY <1>1, <1>2, <1>4, <1>6, SizeAssumption DEF Typed, OtherTypes, ostream, theirs, Take
<1> QED  BY <1>5, <1>7

LEMMA DirectReadType ==
  ASSUME Typed, NEW k \in DOMAIN output, DirectRead(k)
  PROVE  SeqTypes' /\ OtherTypes'
<1>1. k \in 1..Len(output) /\ k \in 0..Len(output) /\ Len(output) \in Nat /\ Len(got) \in Nat
  BY StretchLen DEF Typed, SeqTypes
<1>2. /\ SubSeq(output, 1, k) \in Stretches /\ Len(SubSeq(output, 1, k)) = k
      /\ Drop(output, k) \in Stretches /\ Len(Drop(output, k)) = Len(output) - k
  BY <1>1, StretchPart DEF Typed, SeqTypes
<1>3. /\ got \o SubSeq(output, 1, k) \in Stretches
      /\ Len(got \o SubSeq(output, 1, k)) = Len(got) + k
  BY <1>2, StretchConcat DEF Typed, SeqTypes
<1>4. SeqTypes'
  BY <1>2, <1>3 DEF Typed, SeqTypes, ostream, istream, theirs, DirectRead
<1>5. wanted' \in Nat
  BY <1>1, SMTT(30) DEF Typed, OtherTypes, DirectRead
<1>6. OtherTypes'
  BY <1>1, <1>2, <1>5, SizeAssumption, SMTT(30) DEF Typed, OtherTypes, ostream, istream, theirs,
    DirectRead
<1> QED  BY <1>4, <1>6

LEMMA NudgedType ==
  ASSUME Typed, ReadNothing \/ ChildWritesNothing
  PROVE  SeqTypes' /\ OtherTypes'
<1>1. UNCHANGED <<offered, obuf, writing, string, input, held, output, ibuf, wanted, got, child, pc, exit>>
  BY Zenon DEF ReadNothing, ChildWritesNothing, ostream, istream
<1> QED  BY <1>1 DEF Typed, SeqTypes, OtherTypes

LEMMA EndOfFileType ==
  ASSUME Typed, EndOfFile
  PROVE  SeqTypes' /\ OtherTypes'
BY SizeAssumption, NoStretch DEF Typed, SeqTypes, OtherTypes, ostream, istream, theirs,
  EndOfFile

LEMMA WaitType ==
  ASSUME Typed, Wait
  PROVE  SeqTypes' /\ OtherTypes'
BY SizeAssumption, NoStretch DEF Typed, SeqTypes, OtherTypes, ostream, istream, theirs,
  Wait

LEMMA ChildReadsType ==
  ASSUME Typed, NEW k \in DOMAIN input, ChildReads(k)
  PROVE  SeqTypes' /\ OtherTypes'
<1>1. k \in 1..Len(input) /\ k \in 0..Len(input) /\ Len(input) \in Nat
  BY StretchLen DEF Typed, SeqTypes
<1>2. /\ SubSeq(input, 1, k) \in Stretches
      /\ Drop(input, k) \in Stretches /\ Len(Drop(input, k)) = Len(input) - k
  BY <1>1, StretchPart DEF Typed, SeqTypes
<1>3. SeqTypes'
  BY <1>2 DEF Typed, SeqTypes, ostream, istream, ChildReads
<1>4. OtherTypes'
  BY <1>1, <1>2, SizeAssumption DEF Typed, OtherTypes, ostream, istream, ChildReads
<1> QED  BY <1>3, <1>4

LEMMA ChildWritesType ==
  ASSUME Typed, NEW k \in DOMAIN held, ChildWrites(k)
  PROVE  SeqTypes' /\ OtherTypes'
<1>1. k \in 1..Len(held) /\ k \in 0..Len(held) /\ Len(held) \in Nat /\ Len(output) \in Nat
  BY StretchLen DEF Typed, SeqTypes
<1>2. /\ SubSeq(held, 1, k) \in Stretches /\ Len(SubSeq(held, 1, k)) = k
      /\ Drop(held, k) \in Stretches /\ Len(Drop(held, k)) = Len(held) - k
  BY <1>1, StretchPart DEF Typed, SeqTypes
<1>3. /\ output \o SubSeq(held, 1, k) \in Stretches
      /\ Len(output \o SubSeq(held, 1, k)) = Len(output) + k
  BY <1>2, StretchConcat DEF Typed, SeqTypes
<1>4. SeqTypes'
  BY <1>2, <1>3 DEF Typed, SeqTypes, ostream, istream, theirs, ChildWrites
<1>5. OtherTypes'
  BY <1>1, <1>2, <1>3, SizeAssumption DEF Typed, OtherTypes, ostream, istream, theirs,
    ChildWrites
<1> QED  BY <1>4, <1>5

LEMMA ChildEndsType ==
  ASSUME Typed, NEW how \in {"ok", "failed"}, ChildEnds(how)
  PROVE  SeqTypes' /\ OtherTypes'
BY SizeAssumption, NoStretch DEF Typed, SeqTypes, OtherTypes, ostream, istream, theirs,
  ChildEnds

\* The flags are set, reset or left alone.
LEMMA NextFlags == FlagTypes /\ [Next]_vars => FlagTypes'
<1> DEFINE Flags == /\ good' = good \/ good' = FALSE
                    /\ open' = open \/ open' = FALSE
                    /\ eof' = eof \/ eof' = TRUE
                    /\ lost' = lost \/ lost' = TRUE
                    /\ ignored' = ignored
                    /\ nudged' = nudged \/ nudged' \in BOOLEAN
<1> SUFFICES ASSUME [Next]_vars PROVE Flags
  BY Zenon DEF FlagTypes
<1> USE DEF ostream, istream, theirs
<1>1. ASSUME PutChar PROVE Flags
  BY <1>1, Zenon DEF PutChar
<1>2. ASSUME NEW n \in Length, PutString(n) PROVE Flags
  BY <1>2, Zenon DEF PutString
<1>3. ASSUME PutInVain PROVE Flags
  BY <1>3, Zenon DEF PutInVain
<1>4. ASSUME Sync PROVE Flags
  BY <1>4, Zenon DEF Sync
<1>5. ASSUME NEW k \in DOMAIN writing, WriteSome(k) PROVE Flags
  BY <1>5, Zenon DEF WriteSome
<1>6. ASSUME Written PROVE Flags
  BY <1>6, Zenon DEF Written
<1>7. ASSUME WriteFails PROVE Flags
  BY <1>7, Zenon DEF WriteFails
<1>8. ASSUME Killed PROVE Flags
  BY <1>8, Zenon DEF Killed
<1>9. ASSUME CloseStdin PROVE Flags
  BY <1>9, Zenon DEF CloseStdin
<1>10. ASSUME Destroyed PROVE Flags
  BY <1>10, Zenon DEF Destroyed
<1>11. ASSUME NEW k \in DOMAIN output, Underflow(k) PROVE Flags
  BY <1>11, Zenon DEF Underflow
<1>12. ASSUME Get PROVE Flags
  BY <1>12, Zenon DEF Get
<1>13. ASSUME NEW n \in Length, GetString(n) PROVE Flags
  BY <1>13, Zenon DEF GetString
<1>14. ASSUME Take PROVE Flags
  BY <1>14, Zenon DEF Take
<1>15. ASSUME NEW k \in DOMAIN output, DirectRead(k) PROVE Flags
  BY <1>15, Zenon DEF DirectRead
<1>16. ASSUME EndOfFile PROVE Flags
  BY <1>16, Zenon DEF EndOfFile
<1>17. ASSUME Wait PROVE Flags
  BY <1>17, Zenon DEF Wait
<1>18. ASSUME NEW k \in DOMAIN input, ChildReads(k) PROVE Flags
  BY <1>18, Zenon DEF ChildReads
<1>19. ASSUME NEW k \in DOMAIN held, ChildWrites(k) PROVE Flags
  BY <1>19, Zenon DEF ChildWrites
<1>20. ASSUME NEW how \in {"ok", "failed"}, ChildEnds(how) PROVE Flags
  BY <1>20, Zenon DEF ChildEnds
<1>21. CASE UNCHANGED vars
  BY <1>21, Zenon DEF vars
<1>22. ASSUME ReadNothing PROVE Flags
  BY <1>22, Zenon DEF ReadNothing
<1>23. ASSUME ChildWritesNothing PROVE Flags
  BY <1>23, Zenon DEF ChildWritesNothing
<1> HIDE DEF Flags
<1> QED
  BY <1>1, <1>2, <1>3, <1>4, <1>5, <1>6, <1>7, <1>8, <1>9, <1>10, <1>11, <1>12, <1>13, <1>14,
     <1>15, <1>16, <1>17, <1>18, <1>19, <1>20, <1>21, <1>22, <1>23, Zenon DEF Next

LEMMA NextType == Typed /\ [Next]_vars => Typed'
<1> SUFFICES ASSUME Typed, [Next]_vars PROVE Typed'
  OBVIOUS
<1>1. SeqTypes' /\ OtherTypes'
  <2>1. CASE UNCHANGED vars
    BY <2>1 DEF Typed, SeqTypes, OtherTypes, ostream, istream, theirs, vars
  <2> QED
    BY <2>1, PutCharType, PutStringType, PutInVainType, SyncType, WriteSomeType,
       WrittenType, WriteFailsType, KilledType, CloseStdinType, DestroyedType,
       UnderflowType, GetType, GetStringType, TakeType, DirectReadType,
       NudgedType, EndOfFileType, WaitType, ChildReadsType, ChildWritesType, ChildEndsType
    DEF Next
<1>2. FlagTypes'
  BY NextFlags DEF Typed
<1> QED  BY <1>1, <1>2 DEF Typed

\* The types of the variables, for every value of the constants: no buffer and
\* no pipe is ever overrun (fhstream.cpp:66, 108 and 190).
THEOREM TypeCorrect == Spec => []TypeOK
<1>1. Spec => []Typed
  BY InitType, NextType, PTL DEF Spec
<1> QED  BY <1>1, TypeParts, PTL
-----------------------------------------------------------------------------
(* Where the bytes are.  The i-th byte is the number i, so a stretch of the *)
(* way is described by where it begins and how long it is.                  *)

InIbuf == Len(got)
InOutput == InIbuf + Len(ibuf)
InHeld == InOutput + Len(output)
InInput == InHeld + Len(held)
InWriting == InInput + Len(input)
InString == InWriting + Len(writing)

\* What has left git-crypt is on its way in order and without a gap.
OnTheWay ==
  /\ got = Bytes(0, Len(got))
  /\ ibuf = Bytes(InIbuf, Len(ibuf))
  /\ output = Bytes(InOutput, Len(output))
  /\ held = Bytes(InHeld, Len(held))
  /\ input = Bytes(InInput, Len(input))
  /\ InWriting <= offered

Writes == {"overflow", "flush", "direct", "destroy"}
Reads == {"get", "gets", "direct_read"}

\* As long as there is a child that can read, the rest follows: in the write
\* loop, in the string behind it, or in the buffer.
ToCome ==
  child = "running" =>
    /\ pc \in Writes => writing = Bytes(InWriting, Len(writing))
    /\ pc \in Writes \ {"flush"} => InString = offered
    /\ pc = "flush" => /\ string = Bytes(InString, Len(string))
                       /\ InString + Len(string) = offered
    /\ pc \notin Writes /\ open => /\ obuf = Bytes(InWriting, Len(obuf))
                                   /\ InWriting + Len(obuf) = offered
    /\ ~open => InWriting = offered

\* What the end of the child and of the file, and the place in the code, tell.
Control ==
  /\ ~good => lost
  /\ lost => child = "failed"
  /\ child = "ok" => ~open /\ held = <<>> /\ input = <<>> /\ InWriting = offered
  /\ pc \in Writes => open
  /\ pc \notin Writes => writing = <<>>
  /\ pc = "direct" => obuf = <<>>
  /\ pc = "direct_read" => ibuf = <<>>
  /\ pc = "done" => ~open
  /\ eof => ibuf = <<>> /\ output = <<>> /\ child # "running" /\ pc \notin Reads
  /\ exit = "ok" => child = "ok" /\ eof

IInv == Typed /\ OnTheWay /\ ToCome /\ Control

-----------------------------------------------------------------------------
(* What the steps of the invariant share.                                  *)

\* Lengths are numbers, and nothing is what has the length 0.
LEMMA Lengths ==
  ASSUME Typed
  PROVE  /\ Len(got) \in Nat /\ Len(ibuf) \in Nat /\ Len(output) \in Nat /\ Len(held) \in Nat
         /\ Len(input) \in Nat /\ Len(writing) \in Nat /\ Len(string) \in Nat /\ Len(obuf) \in Nat
         /\ offered \in Nat /\ MaxPut \in Nat
         /\ InIbuf \in Nat /\ InOutput \in Nat /\ InHeld \in Nat /\ InInput \in Nat
         /\ InWriting \in Nat /\ InString \in Nat
<1>1. /\ Len(got) \in Nat /\ Len(ibuf) \in Nat /\ Len(output) \in Nat /\ Len(held) \in Nat
      /\ Len(input) \in Nat /\ Len(writing) \in Nat /\ Len(string) \in Nat /\ Len(obuf) \in Nat
  BY StretchLen DEF Typed, SeqTypes
<1>2. offered \in Nat /\ MaxPut \in Nat
  BY SizeAssumption DEF Typed, OtherTypes
<1> QED  BY <1>1, <1>2 DEF InIbuf, InOutput, InHeld, InInput, InWriting, InString

\* The first k bytes of one place move on to the place before it.
LEMMA MoveOn ==
  \A a \in Nat, s \in Stretches, t \in Stretches :
    s = Bytes(a, Len(s)) /\ t = Bytes(a + Len(s), Len(t)) =>
      \A k \in 0..Len(t) :
        /\ s \o SubSeq(t, 1, k) = Bytes(a, Len(s) + k) /\ Len(s \o SubSeq(t, 1, k)) = Len(s) + k
        /\ Drop(t, k) = Bytes(a + Len(s) + k, Len(t) - k) /\ Len(Drop(t, k)) = Len(t) - k
<1> TAKE a \in Nat, s \in Stretches, t \in Stretches
<1> HAVE s = Bytes(a, Len(s)) /\ t = Bytes(a + Len(s), Len(t))
<1> TAKE k \in 0..Len(t)
<1>1. /\ SubSeq(t, 1, k) \in Stretches /\ Len(SubSeq(t, 1, k)) = k
      /\ Drop(t, k) \in Stretches /\ Len(Drop(t, k)) = Len(t) - k
  BY StretchPart
<1>2. Len(s) \in Nat /\ Len(t) \in Nat
  BY StretchLen
<1>3. k \in Nat /\ a + Len(s) \in Nat
  BY <1>2
<1>4. SubSeq(t, 1, k) = Bytes(a + Len(s), k) /\ Drop(t, k) = Bytes(a + Len(s) + k, Len(t) - k)
  BY <1>3, BytesCut, Zenon
<1>5. Bytes(a, Len(s)) \o Bytes(a + Len(s), k) = Bytes(a, Len(s) + k)
  BY <1>2, <1>3, BytesJoin, Zenon
<1>6. Len(s \o SubSeq(t, 1, k)) = Len(s) + k
  BY <1>1, StretchConcat
<1>7. s \o SubSeq(t, 1, k) = Bytes(a, Len(s)) \o Bytes(a + Len(s), k)
  BY <1>4
<1>8. s \o SubSeq(t, 1, k) = Bytes(a, Len(s) + k)
  BY <1>5, <1>7
<1> QED  BY <1>1, <1>4, <1>6, <1>8

\* Steps that read nothing and write nothing to the pipes.
LEMMA StillOnTheWay ==
  ASSUME Typed, OnTheWay, UNCHANGED <<got, ibuf, output, held, input>>,
         offered' \in Nat, offered' >= offered
  PROVE  OnTheWay' /\ InWriting' = InWriting
BY Lengths, SMTT(30) DEF OnTheWay, InIbuf, InOutput, InHeld, InInput, InWriting

\* Steps that put nothing and write nothing.
LEMMA StillToCome ==
  ASSUME Typed, ToCome, UNCHANGED <<offered, obuf, writing, string, open, child>>,
         InWriting' = InWriting, pc' = pc \/ (pc \notin Writes /\ pc' \notin Writes)
  PROVE  ToCome' /\ InString' = InString
BY DEF ToCome, InString, Writes

-----------------------------------------------------------------------------
(* The steps of the writer.                                                *)

\* A byte that is appended, and a string that is, is the next.
LEMMA AppendOn ==
  \A a \in Nat, s \in Stretches : s = Bytes(a, Len(s)) =>
    /\ Append(s, a + Len(s) + 1) = Bytes(a, Len(s) + 1)
    /\ \A n \in Nat : s \o Bytes(a + Len(s), n) = Bytes(a, Len(s) + n)
<1> TAKE a \in Nat, s \in Stretches
<1> HAVE s = Bytes(a, Len(s))
<1>1. Len(s) \in Nat
  BY StretchLen
<1>2. Append(Bytes(a, Len(s)), a + Len(s) + 1) = Bytes(a, Len(s) + 1)
  BY <1>1, BytesAppend, Zenon
<1>3. \A n \in Nat : Bytes(a, Len(s)) \o Bytes(a + Len(s), n) = Bytes(a, Len(s) + n)
  BY <1>1, BytesJoin, Zenon
<1> QED  BY <1>2, <1>3

LEMMA PutCharKeeps ==
  ASSUME IInv, PutChar
  PROVE  OnTheWay' /\ ToCome' /\ Control'
<1> USE DEF IInv
<1>1. offered \in Nat /\ Len(obuf) \in Nat /\ InWriting \in Nat /\ obuf \in Stretches
  BY Lengths DEF Typed, SeqTypes
<1>2. OnTheWay' /\ InWriting' = InWriting
  BY <1>1, StillOnTheWay DEF PutChar, theirs, istream
<1>3. ToCome'
  <2> SUFFICES ASSUME child' = "running" PROVE ToCome'
    BY DEF ToCome
  <2>1. /\ child = "running" /\ pc \notin Writes /\ open /\ offered' = offered + 1 /\ open' = open
        /\ \/ writing' = Append(obuf, offered + 1) /\ pc' = "overflow"
           \/ obuf' = Append(obuf, offered + 1) /\ pc' = "idle"
    BY DEF PutChar, theirs, Writes
  <2>2. obuf = Bytes(InWriting, Len(obuf)) /\ InWriting + Len(obuf) = offered
    BY <2>1 DEF ToCome
  <2>3. Append(obuf, offered + 1) = Bytes(InWriting, Len(obuf) + 1)
    BY <1>1, <2>2, AppendOn
  <2>4. Len(Append(obuf, offered + 1)) = Len(obuf) + 1
    BY <1>1, <2>3, BytesType
  <2> QED  BY <1>1, <1>2, <2>1, <2>2, <2>3, <2>4 DEF ToCome, Writes, InString
<1>4. Control'
  BY <1>2 DEF Control, PutChar, theirs, istream, Writes, Reads
<1> QED  BY <1>2, <1>3, <1>4

LEMMA PutStringKeeps ==
  ASSUME IInv, NEW n \in Length, PutString(n)
  PROVE  OnTheWay' /\ ToCome' /\ Control'
<1> USE DEF IInv
<1>1. offered \in Nat /\ Len(obuf) \in Nat /\ InWriting \in Nat /\ obuf \in Stretches /\ n \in Nat
  BY Lengths, SizeAssumption DEF Typed, SeqTypes, Length
<1>2. OnTheWay' /\ InWriting' = InWriting
  BY <1>1, StillOnTheWay DEF PutString, theirs, istream
<1>3. ToCome'
  <2> SUFFICES ASSUME child' = "running" PROVE ToCome'
    BY DEF ToCome
  <2> DEFINE s == Bytes(offered, n)
  <2>1. /\ child = "running" /\ pc \notin Writes /\ open /\ offered' = offered + n /\ open' = open
        /\ \/ obuf' = obuf \o s /\ pc' = "idle"
           \/ writing' = obuf /\ string' = s /\ pc' = "flush"
           \/ writing' = s /\ pc' = "direct" /\ obuf = <<>>
    BY DEF PutString, theirs, Writes
  <2>2. obuf = Bytes(InWriting, Len(obuf)) /\ InWriting + Len(obuf) = offered
    BY <2>1 DEF ToCome
  <2>3. Len(s) = n
    BY <1>1, BytesType
  <2>4. obuf \o s = Bytes(InWriting, Len(obuf) + n)
    BY <1>1, <2>2, AppendOn
  <2>5. Len(obuf \o s) = Len(obuf) + n
    BY <1>1, <2>4, BytesType
  <2>6. obuf = <<>> => InWriting = offered
    BY <1>1, <2>2, StretchLen
  <2>7. CASE obuf' = obuf \o s /\ pc' = "idle"
    <3>1. Len(obuf') = Len(obuf) + n
      BY <2>5, <2>7
    <3>2. obuf' = Bytes(InWriting', Len(obuf'))
      BY <1>2, <2>4, <2>7, <3>1
    <3>3. InWriting' + Len(obuf') = offered'
      BY <1>1, <1>2, <2>1, <2>2, <3>1
    <3> QED  BY <2>1, <2>7, <3>2, <3>3 DEF ToCome, Writes
  <2>8. CASE writing' = obuf /\ string' = s /\ pc' = "flush"
    <3>1. InString' = offered
      BY <1>2, <2>2, <2>8 DEF InString
    <3> QED  BY <1>1, <1>2, <2>1, <2>2, <2>3, <2>8, <3>1 DEF ToCome, Writes
  <2>9. CASE writing' = s /\ pc' = "direct" /\ obuf = <<>>
    BY <1>1, <1>2, <2>1, <2>3, <2>6, <2>9 DEF ToCome, Writes, InString
  <2> QED  BY <2>1, <2>7, <2>8, <2>9
<1>4. Control'
  BY <1>2 DEF Control, PutString, theirs, istream, Writes, Reads
<1> QED  BY <1>2, <1>3, <1>4

LEMMA PutInVainKeeps ==
  ASSUME IInv, PutInVain
  PROVE  OnTheWay' /\ ToCome' /\ Control'
<1> USE DEF IInv
<1>1. child # "running"
  BY DEF PutInVain, Control
<1>2. OnTheWay' /\ InWriting' = InWriting
  BY Lengths, StillOnTheWay, SMTT(30) DEF PutInVain, theirs, istream
<1>3. ToCome' /\ Control'
  BY <1>1, <1>2 DEF ToCome, Control, PutInVain, theirs, istream, ostream, Writes, Reads
<1> QED  BY <1>2, <1>3

\* sync and the destructor begin to write the buffer.
LEMMA BufferIsWritten ==
  ASSUME IInv, pc = "idle", open, writing' = obuf, pc' \in {"overflow", "destroy"},
         UNCHANGED <<offered, obuf, string, good, lost, input, theirs, istream, open, exit>>
  PROVE  OnTheWay' /\ ToCome' /\ Control'
<1> USE DEF IInv
<1>1. OnTheWay' /\ InWriting' = InWriting
  BY Lengths, StillOnTheWay DEF theirs, istream
<1>2. ToCome'
  <2> SUFFICES ASSUME child = "running" PROVE ToCome'
    BY DEF ToCome, theirs
  <2>1. obuf = Bytes(InWriting, Len(obuf)) /\ InWriting + Len(obuf) = offered
    BY DEF ToCome, Writes
  <2>2. writing' = Bytes(InWriting', Len(writing')) /\ InString' = offered
    BY <1>1, <2>1 DEF InString
  <2> QED  BY <2>2 DEF ToCome, Writes
<1>3. Control'
  BY <1>1 DEF Control, theirs, istream, Writes, Reads
<1> QED  BY <1>1, <1>2, <1>3

LEMMA SyncKeeps ==
  ASSUME IInv, Sync
  PROVE  OnTheWay' /\ ToCome' /\ Control'
BY BufferIsWritten DEF Sync

LEMMA CloseStdinKeeps ==
  ASSUME IInv, CloseStdin
  PROVE  OnTheWay' /\ ToCome' /\ Control'
BY BufferIsWritten DEF CloseStdin

LEMMA WriteSomeKeeps ==
  ASSUME IInv, NEW k \in DOMAIN writing, WriteSome(k)
  PROVE  OnTheWay' /\ ToCome' /\ Control'
<1> USE DEF IInv
<1>1. /\ input \in Stretches /\ writing \in Stretches /\ k \in 1..Len(writing) /\ k \in 0..Len(writing)
      /\ Len(writing) \in Nat /\ k \in Nat
  BY Lengths, StretchLen, SMTT(30) DEF Typed, SeqTypes
<1>2. pc \in Writes /\ child = "running" /\ writing # <<>>
  BY DEF WriteSome, Control
<1>3. input = Bytes(InInput, Len(input))
  BY DEF OnTheWay
<1>4. writing = Bytes(InInput + Len(input), Len(writing))
  BY <1>2 DEF ToCome, InWriting
<1>5. InInput \in Nat /\ Len(input) \in Nat /\ InWriting \in Nat /\ Len(string) \in Nat
  BY Lengths
<1>6. /\ input' = Bytes(InInput, Len(input) + k)
      /\ writing' = Bytes(InInput + Len(input) + k, Len(writing) - k)
      /\ Len(input') = Len(input) + k /\ Len(writing') = Len(writing) - k
  <2>1. \A j \in 0..Len(writing) :
          /\ input \o SubSeq(writing, 1, j) = Bytes(InInput, Len(input) + j)
          /\ Len(input \o SubSeq(writing, 1, j)) = Len(input) + j
          /\ Drop(writing, j) = Bytes(InInput + Len(input) + j, Len(writing) - j)
          /\ Len(Drop(writing, j)) = Len(writing) - j
    <3>1. InInput \in Nat /\ input \in Stretches /\ writing \in Stretches
      BY <1>1, <1>5
    <3> QED  BY <1>3, <1>4, <3>1, MoveOn, Zenon
  <2>2. input' = input \o SubSeq(writing, 1, k) /\ writing' = Drop(writing, k)
    BY DEF WriteSome
  <2> QED  BY <1>1, <2>1, <2>2, Zenon
<1>7. /\ InInput' = InInput /\ InWriting' = InWriting + k /\ InString' = InString
  <2>1. InInput' = InInput
    BY DEF WriteSome, theirs, istream, InInput, InHeld, InOutput, InIbuf
  <2>2. Len(input') = Len(input) + k /\ Len(writing') = Len(writing) - k
    BY <1>6
  <2>3. InWriting' = InWriting + k
    BY <1>1, <1>5, <2>1, <2>2 DEF InWriting
  <2> QED  BY <1>1, <1>5, <2>1, <2>2, <2>3 DEF InString
<1>8. InWriting + Len(writing) <= offered
  <2>1. offered \in Nat
    BY Lengths
  <2>2. CASE pc = "flush"
    BY <1>1, <1>2, <1>5, <2>1, <2>2 DEF ToCome, Writes, InString
  <2>3. CASE pc # "flush"
    BY <1>1, <1>2, <1>5, <2>1, <2>3 DEF ToCome, Writes, InString
  <2> QED  BY <2>2, <2>3
<1>9. OnTheWay'
  <2>1. InOutput' = InOutput /\ InHeld' = InHeld /\ InIbuf' = InIbuf
    BY DEF WriteSome, theirs, istream, InHeld, InOutput, InIbuf
  <2>2. InWriting' <= offered'
    <3>1. offered' = offered /\ offered \in Nat
      BY Lengths DEF WriteSome
    <3> QED  BY <1>1, <1>5, <1>7, <1>8, <3>1
  <2>3. input' = Bytes(InInput', Len(input'))
    BY <1>6, <1>7
  <2> QED  BY <2>1, <2>2, <2>3 DEF OnTheWay, WriteSome, theirs, istream
<1>10. ToCome'
  <2>1. writing' = Bytes(InWriting', Len(writing'))
    BY <1>6, <1>7 DEF InWriting
  <2>2. /\ pc \in Writes \ {"flush"} => InString = offered
        /\ pc = "flush" => /\ string = Bytes(InString, Len(string))
                           /\ InString + Len(string) = offered
    BY <1>2 DEF ToCome
  <2>3. open' /\ pc' = pc /\ offered' = offered /\ string' = string
    BY <1>2 DEF Control, WriteSome
  <2> QED  BY <1>2, <1>7, <2>1, <2>2, <2>3 DEF ToCome
<1>11. Control'
  BY <1>2 DEF Control, WriteSome, theirs, istream, Writes, Reads
<1> QED  BY <1>9, <1>10, <1>11

LEMMA WrittenKeeps ==
  ASSUME IInv, Written
  PROVE  OnTheWay' /\ ToCome' /\ Control'
<1> USE DEF IInv
<1>1. OnTheWay' /\ InWriting' = InWriting
  BY Lengths, StillOnTheWay DEF Written, theirs, istream
<1>2. Len(writing) = 0 /\ InString = InWriting /\ InWriting \in Nat /\ offered \in Nat
      /\ Len(string) \in Nat
  BY Lengths DEF Written, InString
<1>3. ToCome'
  <2> SUFFICES ASSUME child = "running" PROVE ToCome'
    BY DEF ToCome, Written, theirs
  <2>1. open /\ open' = open /\ offered' = offered
    BY DEF Control, Written, Writes
  <2>2. CASE pc = "flush"
    <3>1. string = Bytes(InWriting, Len(string)) /\ InWriting + Len(string) = offered
      BY <1>2, <2>2 DEF ToCome
    <3>2. writing' = string /\ pc' = "direct"
      BY <2>2 DEF Written
    <3>3. InString' = offered
      BY <1>1, <3>1, <3>2 DEF InString
    <3> QED  BY <1>1, <2>1, <3>1, <3>2, <3>3 DEF ToCome, Writes
  <2>3. CASE pc # "flush"
    <3>1. InWriting = offered /\ pc' = "idle"
      BY <1>2, <2>3 DEF ToCome, Written, Writes
    <3>2. obuf' = <<>> /\ Len(<<>>) = 0
      BY <2>3, NoStretch DEF Control, Written
    <3>3. obuf' = Bytes(InWriting', Len(obuf'))
      BY <1>1, <1>2, <3>2, BytesEmpty
    <3> QED  BY <1>1, <1>2, <2>1, <3>1, <3>2, <3>3 DEF ToCome, Writes
  <2> QED  BY <2>2, <2>3
<1>4. Control'
  BY <1>1 DEF Control, Written, theirs, istream, Writes, Reads
<1> QED  BY <1>1, <1>3, <1>4

LEMMA WriteFailsKeeps ==
  ASSUME IInv, WriteFails
  PROVE  OnTheWay' /\ ToCome' /\ Control'
<1> USE DEF IInv
<1>1. OnTheWay' /\ InWriting' = InWriting
  BY Lengths, StillOnTheWay DEF WriteFails, theirs, istream
<1>2. child = "failed" /\ pc \in Writes
  BY DEF Control, WriteFails, Typed, OtherTypes
<1> QED
  BY <1>1, <1>2 DEF ToCome, Control, WriteFails, theirs, istream, Writes, Reads

LEMMA KilledKeeps ==
  ASSUME IInv, Killed
  PROVE  OnTheWay' /\ ToCome' /\ Control'
<1> USE DEF IInv
<1>1. OnTheWay' /\ InWriting' = InWriting
  BY Lengths, StillOnTheWay DEF Killed, theirs, istream
<1>2. child = "failed" /\ pc \in Writes
  BY DEF Control, Killed, Typed, OtherTypes
<1> QED
  BY <1>1, <1>2 DEF ToCome, Control, Killed, theirs, istream, Writes, Reads

LEMMA DestroyedKeeps ==
  ASSUME IInv, Destroyed
  PROVE  OnTheWay' /\ ToCome' /\ Control'
<1> USE DEF IInv
<1>1. OnTheWay' /\ InWriting' = InWriting
  BY Lengths, StillOnTheWay DEF Destroyed, theirs, istream
<1>2. child # "ok" /\ open
  BY DEF Control, Destroyed, Writes
<1>3. ToCome'
  <2> SUFFICES ASSUME child = "running" PROVE ToCome'
    BY DEF ToCome, Destroyed, theirs
  <2>1. writing = <<>> /\ InString = offered /\ InWriting \in Nat
    BY Lengths DEF Destroyed, ToCome, Writes
  <2>2. InWriting = offered
    BY <2>1, NoStretch DEF InString
  <2> QED  BY <1>1, <2>2 DEF ToCome, Destroyed, Writes
<1>4. Control'
  BY <1>1, <1>2 DEF Control, Destroyed, theirs, istream, Writes, Reads, Typed, OtherTypes
<1> QED  BY <1>1, <1>3, <1>4

-----------------------------------------------------------------------------
(* The steps of the reader and of the child.                               *)

\* A step that moves no byte.
LEMMA NothingMoves ==
  ASSUME IInv, UNCHANGED <<offered, obuf, writing, string, input, held, output, ibuf, got, open, child>>,
         pc' = pc \/ (pc \notin Writes /\ pc' \notin Writes)
  PROVE  OnTheWay' /\ ToCome' /\ InWriting' = InWriting
<1>1. OnTheWay' /\ InWriting' = InWriting
  BY Lengths, StillOnTheWay DEF IInv
<1> QED  BY <1>1, StillToCome DEF IInv

\* What a cut of a stretch gives, with the types.
LEMMA CutOn ==
  \A a \in Nat, s \in Stretches : s = Bytes(a, Len(s)) =>
    \A k \in 0..Len(s) :
      /\ SubSeq(s, 1, k) = Bytes(a, k) /\ Len(SubSeq(s, 1, k)) = k
      /\ Drop(s, k) = Bytes(a + k, Len(s) - k) /\ Len(Drop(s, k)) = Len(s) - k
<1> TAKE a \in Nat, s \in Stretches
<1> HAVE s = Bytes(a, Len(s))
<1> TAKE k \in 0..Len(s)
<1>1. SubSeq(s, 1, k) = Bytes(a, k) /\ Drop(s, k) = Bytes(a + k, Len(s) - k)
  BY BytesCut, Zenon
<1>2. Len(SubSeq(s, 1, k)) = k /\ Len(Drop(s, k)) = Len(s) - k
  BY StretchPart
<1> QED  BY <1>1, <1>2

LEMMA UnderflowKeeps ==
  ASSUME IInv, NEW k \in DOMAIN output, Underflow(k)
  PROVE  OnTheWay' /\ ToCome' /\ Control'
<1> USE DEF IInv
<1>1. /\ output \in Stretches /\ k \in 0..Len(output) /\ k \in Nat /\ InOutput \in Nat
      /\ Len(output) \in Nat /\ Len(ibuf) = 0 /\ InIbuf \in Nat
  BY Lengths, StretchLen, NoStretch DEF Typed, SeqTypes, Underflow
<1>2. output = Bytes(InOutput, Len(output)) /\ InOutput = InIbuf
  BY <1>1 DEF OnTheWay, InOutput
<1>3. /\ ibuf' = Bytes(InOutput, k) /\ output' = Bytes(InOutput + k, Len(output) - k)
      /\ Len(ibuf') = k /\ Len(output') = Len(output) - k
  <2>1. /\ SubSeq(output, 1, k) = Bytes(InOutput, k) /\ Len(SubSeq(output, 1, k)) = k
        /\ Drop(output, k) = Bytes(InOutput + k, Len(output) - k)
        /\ Len(Drop(output, k)) = Len(output) - k
    BY <1>1, <1>2, CutOn, Zenon
  <2>2. ibuf' = SubSeq(output, 1, k) /\ output' = Drop(output, k)
    BY DEF Underflow
  <2> QED  BY <2>1, <2>2, Zenon
<1>4. /\ InIbuf' = InIbuf /\ InOutput' = InOutput + k /\ InHeld' = InHeld
      /\ InInput' = InInput /\ InWriting' = InWriting
  <2>1. InIbuf' = InIbuf
    BY DEF Underflow, InIbuf
  <2>2. InOutput' = InOutput + k
    BY <1>1, <1>2, <1>3, <2>1 DEF InOutput
  <2>3. InHeld' = InHeld
    BY <1>1, <1>3, <2>2 DEF InHeld
  <2> QED  BY <2>1, <2>2, <2>3 DEF InInput, InWriting, Underflow
<1>5. OnTheWay'
  <2>1. got' = Bytes(0, Len(got')) /\ held' = Bytes(InHeld', Len(held'))
        /\ input' = Bytes(InInput', Len(input')) /\ InWriting' <= offered'
    BY <1>4 DEF OnTheWay, Underflow
  <2>2. ibuf' = Bytes(InIbuf', Len(ibuf')) /\ output' = Bytes(InOutput', Len(output'))
    BY <1>2, <1>3, <1>4
  <2> QED  BY <2>1, <2>2 DEF OnTheWay
<1>6. ToCome'
  BY <1>4, StillToCome DEF Underflow, ostream
<1>7. Control'
  BY <1>4 DEF Control, Underflow, ostream, Writes, Reads
<1> QED  BY <1>5, <1>6, <1>7

LEMMA GetKeeps ==
  ASSUME IInv, Get
  PROVE  OnTheWay' /\ ToCome' /\ Control'
<1>1. OnTheWay' /\ ToCome' /\ InWriting' = InWriting
  BY NothingMoves DEF Get, ostream, theirs, Writes
<1>2. Control'
  BY <1>1 DEF IInv, Control, Get, ostream, theirs, Writes, Reads
<1> QED  BY <1>1, <1>2

\* All of ibuf is a part of it, too.
LEMMA TakenOn ==
  ASSUME IInv, NEW k \in 0..Len(ibuf),
         got' = got \o SubSeq(ibuf, 1, k), ibuf' = Drop(ibuf, k),
         UNCHANGED <<offered, output, held, input>>
  PROVE  OnTheWay' /\ InWriting' = InWriting
<1> USE DEF IInv
<1>1. got \in Stretches /\ ibuf \in Stretches /\ Len(got) \in Nat /\ Len(ibuf) \in Nat /\ k \in Nat
  BY Lengths DEF Typed, SeqTypes
<1>2. got = Bytes(0, Len(got)) /\ ibuf = Bytes(0 + Len(got), Len(ibuf))
  BY <1>1 DEF OnTheWay, InIbuf
<1>3. /\ got \o SubSeq(ibuf, 1, k) = Bytes(0, Len(got) + k)
      /\ Len(got \o SubSeq(ibuf, 1, k)) = Len(got) + k
      /\ Drop(ibuf, k) = Bytes(0 + Len(got) + k, Len(ibuf) - k)
      /\ Len(Drop(ibuf, k)) = Len(ibuf) - k
  <2>1. 0 \in Nat
    OBVIOUS
  <2> QED  BY <2>1, <1>1, <1>2, MoveOn, ZenonT(60)
<1>4. Len(got') = Len(got) + k /\ Len(ibuf') = Len(ibuf) - k
  BY <1>3
<1>5. got' = Bytes(0, Len(got')) /\ ibuf' = Bytes(Len(got) + k, Len(ibuf'))
  BY <1>1, <1>3, <1>4
<1>6. InIbuf' = Len(got) + k /\ InOutput' = InOutput
  BY <1>1, <1>4 DEF InIbuf, InOutput
<1>7. InHeld' = InHeld /\ InInput' = InInput /\ InWriting' = InWriting
  BY <1>6 DEF InHeld, InInput, InWriting
<1> QED  BY <1>5, <1>6, <1>7 DEF OnTheWay

LEMMA GetStringKeeps ==
  ASSUME IInv, NEW n \in Length, GetString(n)
  PROVE  OnTheWay' /\ ToCome' /\ Control'
<1> USE DEF IInv
<1>1. CASE n < Len(ibuf) + Direct
  <2>1. OnTheWay' /\ ToCome' /\ InWriting' = InWriting
    BY <1>1, NothingMoves DEF GetString, ostream, theirs, Writes
  <2>2. Control'
    BY <1>1, <2>1 DEF Control, GetString, ostream, theirs, Writes, Reads
  <2> QED  BY <2>1, <2>2
<1>2. CASE ~(n < Len(ibuf) + Direct)
  <2>1. ibuf \in Stretches /\ Len(ibuf) \in Nat
    BY Lengths DEF Typed, SeqTypes
  <2>2. SubSeq(ibuf, 1, Len(ibuf)) = ibuf /\ Drop(ibuf, Len(ibuf)) = <<>>
    BY <2>1, SubSeqFull, SubSeqEmpty DEF Stretches, Drop
  <2>3. got' = got \o SubSeq(ibuf, 1, Len(ibuf)) /\ ibuf' = Drop(ibuf, Len(ibuf))
    BY <1>2, <2>2 DEF GetString
  <2>4. OnTheWay' /\ InWriting' = InWriting
    BY <2>1, <2>3, TakenOn DEF GetString, theirs
  <2>5. ToCome'
    BY <1>2, <2>4, StillToCome DEF GetString, ostream, theirs, Writes
  <2>6. Control'
    BY <1>2, <2>4 DEF Control, GetString, ostream, theirs, Writes, Reads
  <2> QED  BY <2>4, <2>5, <2>6
<1> QED  BY <1>1, <1>2

LEMMA TakeKeeps ==
  ASSUME IInv, Take
  PROVE  OnTheWay' /\ ToCome' /\ Control'
<1> USE DEF IInv
<1> DEFINE k == Min2(wanted, Len(ibuf))
<1>1. k \in 0..Len(ibuf)
  BY Lengths DEF Min2, Typed, OtherTypes
<1>2. OnTheWay' /\ InWriting' = InWriting
  <2>1. got' = got \o SubSeq(ibuf, 1, k) /\ ibuf' = Drop(ibuf, k)
    BY DEF Take
  <2> HIDE DEF k
  <2> QED  BY <1>1, <2>1, TakenOn DEF Take, theirs
<1>3. pc \notin Writes /\ pc' \notin Writes /\ pc' \in {pc, "idle"}
  BY DEF Take, Writes
<1>4. ToCome'
  BY <1>2, <1>3, StillToCome DEF Take, ostream, theirs
<1>5. Control'
  BY <1>2, <1>3 DEF Control, Take, ostream, theirs, Writes, Reads
<1> QED  BY <1>2, <1>4, <1>5

LEMMA DirectReadKeeps ==
  ASSUME IInv, NEW k \in DOMAIN output, DirectRead(k)
  PROVE  OnTheWay' /\ ToCome' /\ Control'
<1> USE DEF IInv
<1>1. /\ output \in Stretches /\ k \in 0..Len(output) /\ k \in Nat /\ got \in Stretches
      /\ Len(output) \in Nat /\ Len(ibuf) = 0 /\ Len(got) \in Nat /\ ibuf = <<>>
  BY Lengths, StretchLen, NoStretch, SMTT(30) DEF Typed, SeqTypes, DirectRead, Control
<1>2. got = Bytes(0, Len(got)) /\ output = Bytes(0 + Len(got), Len(output))
  BY <1>1 DEF OnTheWay, InOutput, InIbuf
<1>3. /\ got \o SubSeq(output, 1, k) = Bytes(0, Len(got) + k)
      /\ Len(got \o SubSeq(output, 1, k)) = Len(got) + k
      /\ Drop(output, k) = Bytes(0 + Len(got) + k, Len(output) - k)
      /\ Len(Drop(output, k)) = Len(output) - k
  <2>1. 0 \in Nat /\ output \in Stretches /\ got \in Stretches /\ k \in 0..Len(output)
    BY <1>1
  <2> QED  BY <2>1, <1>2, MoveOn, Zenon
<1>4. got' = got \o SubSeq(output, 1, k) /\ output' = Drop(output, k) /\ ibuf' = ibuf
  BY DEF DirectRead
<1>5. Len(got') = Len(got) + k /\ Len(output') = Len(output) - k
  BY <1>3, <1>4
<1>6. got' = Bytes(0, Len(got')) /\ output' = Bytes(Len(got) + k, Len(output'))
  BY <1>1, <1>3, <1>4, <1>5, SMTT(30)
<1>7. InIbuf' = Len(got) + k /\ InOutput' = Len(got) + k /\ InHeld' = InHeld
  BY <1>1, <1>4, <1>5 DEF InIbuf, InOutput, InHeld
<1>8. InInput' = InInput /\ InWriting' = InWriting
  BY <1>7 DEF DirectRead, InInput, InWriting
<1>9. OnTheWay'
  <2>1. ibuf' = Bytes(InIbuf', Len(ibuf'))
    BY <1>1, <1>4, <1>7, BytesEmpty
  <2> QED  BY <1>6, <1>7, <1>8, <2>1 DEF OnTheWay, DirectRead
<1>10. pc \notin Writes /\ pc' \notin Writes /\ pc' \in {pc, "idle"}
  BY DEF DirectRead, Writes
<1>11. ToCome'
  BY <1>8, <1>10, StillToCome DEF DirectRead, ostream
<1>12. Control'
  BY <1>8, <1>10 DEF Control, DirectRead, ostream, Writes, Reads
<1> QED  BY <1>9, <1>11, <1>12

LEMMA NudgedKeeps ==
  ASSUME IInv, ReadNothing \/ ChildWritesNothing
  PROVE  OnTheWay' /\ ToCome' /\ Control'
<1>1. UNCHANGED <<offered, ostream, input, held, output, child, istream, open, pc, exit>>
  BY Zenon DEF ReadNothing, ChildWritesNothing
<1>2. OnTheWay' /\ ToCome' /\ InWriting' = InWriting
  BY <1>1, NothingMoves DEF ostream, istream
<1> QED  BY <1>1, <1>2 DEF IInv, Control, ostream, istream, Writes, Reads

LEMMA EndOfFileKeeps ==
  ASSUME IInv, EndOfFile
  PROVE  OnTheWay' /\ ToCome' /\ Control'
<1>1. OnTheWay' /\ ToCome' /\ InWriting' = InWriting
  BY NothingMoves DEF EndOfFile, Reading, ostream, theirs, Writes
<1>2. Control'
  BY <1>1 DEF IInv, Control, EndOfFile, Reading, ostream, theirs, Writes, Reads
<1> QED  BY <1>1, <1>2

LEMMA WaitKeeps ==
  ASSUME IInv, Wait
  PROVE  OnTheWay' /\ ToCome' /\ Control'
<1>1. OnTheWay' /\ ToCome' /\ InWriting' = InWriting
  BY NothingMoves DEF Wait, ostream, istream, theirs, Writes
<1>2. Control'
  BY <1>1 DEF IInv, Control, Wait, ostream, istream, theirs, Writes, Reads
<1> QED  BY <1>1, <1>2

LEMMA ChildReadsKeeps ==
  ASSUME IInv, NEW k \in DOMAIN input, ChildReads(k)
  PROVE  OnTheWay' /\ ToCome' /\ Control'
<1> USE DEF IInv
<1>1. /\ input \in Stretches /\ k \in 0..Len(input) /\ k \in Nat /\ InInput \in Nat
      /\ Len(input) \in Nat /\ Len(held) = 0 /\ InHeld \in Nat
  BY Lengths, StretchLen, NoStretch, SMTT(30) DEF Typed, SeqTypes, ChildReads
<1>2. input = Bytes(InInput, Len(input)) /\ InInput = InHeld
  BY <1>1 DEF OnTheWay, InInput
<1>3. /\ held' = Bytes(InInput, k) /\ input' = Bytes(InInput + k, Len(input) - k)
      /\ Len(held') = k /\ Len(input') = Len(input) - k
  <2>1. /\ SubSeq(input, 1, k) = Bytes(InInput, k) /\ Len(SubSeq(input, 1, k)) = k
        /\ Drop(input, k) = Bytes(InInput + k, Len(input) - k)
        /\ Len(Drop(input, k)) = Len(input) - k
    BY <1>1, <1>2, CutOn, Zenon
  <2>2. held' = SubSeq(input, 1, k) /\ input' = Drop(input, k)
    BY DEF ChildReads
  <2> QED  BY <2>1, <2>2, Zenon
<1>4. /\ InIbuf' = InIbuf /\ InOutput' = InOutput /\ InHeld' = InHeld
      /\ InInput' = InInput + k /\ InWriting' = InWriting
  <2>1. InIbuf' = InIbuf /\ InOutput' = InOutput /\ InHeld' = InHeld
    BY DEF ChildReads, istream, InIbuf, InOutput, InHeld
  <2>2. InInput' = InInput + k
    BY <1>1, <1>2, <1>3, <2>1 DEF InInput
  <2>3. InWriting' = InWriting
    BY <1>1, <1>3, <2>2 DEF InWriting
  <2> QED  BY <2>1, <2>2, <2>3
<1>5. OnTheWay'
  <2>1. got' = Bytes(0, Len(got')) /\ ibuf' = Bytes(InIbuf', Len(ibuf'))
        /\ output' = Bytes(InOutput', Len(output')) /\ InWriting' <= offered'
    BY <1>4 DEF OnTheWay, ChildReads, istream
  <2>2. held' = Bytes(InHeld', Len(held')) /\ input' = Bytes(InInput', Len(input'))
    BY <1>2, <1>3, <1>4
  <2> QED  BY <2>1, <2>2 DEF OnTheWay
<1>6. ToCome'
  BY <1>4, StillToCome DEF ChildReads, ostream
<1>7. Control'
  BY <1>4 DEF Control, ChildReads, ostream, istream, Writes, Reads
<1> QED  BY <1>5, <1>6, <1>7

LEMMA ChildWritesKeeps ==
  ASSUME IInv, NEW k \in DOMAIN held, ChildWrites(k)
  PROVE  OnTheWay' /\ ToCome' /\ Control'
<1> USE DEF IInv
<1>1. /\ held \in Stretches /\ k \in 0..Len(held) /\ k \in Nat /\ output \in Stretches
      /\ Len(held) \in Nat /\ Len(output) \in Nat /\ InOutput \in Nat
  BY Lengths, StretchLen, SMTT(30) DEF Typed, SeqTypes
<1>2. output = Bytes(InOutput, Len(output))
  BY DEF OnTheWay
<1>3. held = Bytes(InOutput + Len(output), Len(held))
  BY DEF OnTheWay, InHeld
<1>4. /\ output \o SubSeq(held, 1, k) = Bytes(InOutput, Len(output) + k)
      /\ Len(output \o SubSeq(held, 1, k)) = Len(output) + k
      /\ Drop(held, k) = Bytes(InOutput + Len(output) + k, Len(held) - k)
      /\ Len(Drop(held, k)) = Len(held) - k
  BY <1>1, <1>2, <1>3, MoveOn, ZenonT(60)
<1>5. output' = output \o SubSeq(held, 1, k) /\ held' = Drop(held, k)
  BY DEF ChildWrites
<1>6. Len(output') = Len(output) + k /\ Len(held') = Len(held) - k
  BY <1>4, <1>5
<1>7. output' = Bytes(InOutput, Len(output')) /\ held' = Bytes(InOutput + Len(output'), Len(held'))
  <2>1. InOutput + Len(output) + k = InOutput + Len(output')
    BY <1>1, <1>6
  <2> QED  BY <1>4, <1>5, <1>6, <2>1, Zenon
<1>8. InIbuf' = InIbuf /\ InOutput' = InOutput
  BY DEF ChildWrites, istream, InIbuf, InOutput
<1>9. InHeld' = InOutput + Len(output') /\ InInput' = InInput
  BY <1>1, <1>6, <1>8 DEF InHeld, InInput
<1>10. InWriting' = InWriting
  BY <1>9 DEF ChildWrites, InWriting
<1>11. OnTheWay'
  BY <1>7, <1>8, <1>9, <1>10 DEF OnTheWay, ChildWrites, istream
<1>12. ToCome'
  BY <1>10, StillToCome DEF ChildWrites, ostream
<1>13. Control'
  BY <1>10 DEF Control, ChildWrites, ostream, istream, Writes, Reads
<1> QED  BY <1>11, <1>12, <1>13

LEMMA ChildEndsKeeps ==
  ASSUME IInv, NEW how \in {"ok", "failed"}, ChildEnds(how)
  PROVE  OnTheWay' /\ ToCome' /\ Control'
<1> USE DEF IInv
<1>1. OnTheWay' /\ InWriting' = InWriting
  BY Lengths, StillOnTheWay DEF ChildEnds, istream
<1>2. ToCome'
  BY DEF ToCome, ChildEnds
<1>3. how = "ok" => InWriting = offered
  BY DEF ChildEnds, ToCome
<1>4. Control'
  BY <1>1, <1>3 DEF Control, ChildEnds, ostream, istream, Writes, Reads
<1> QED  BY <1>1, <1>2, <1>4

-----------------------------------------------------------------------------
(* The invariant.                                                          *)

LEMMA InitIInv == Init => IInv
<1> SUFFICES ASSUME Init PROVE IInv
  OBVIOUS
<1>1. Typed
  BY InitType
<1>2. /\ InIbuf = 0 /\ InOutput = 0 /\ InHeld = 0 /\ InInput = 0 /\ InWriting = 0
  BY NoStretch DEF Init, InIbuf, InOutput, InHeld, InInput, InWriting
<1>3. OnTheWay
  BY <1>2, NoStretch, BytesEmpty DEF Init, OnTheWay
<1>4. ToCome
  BY <1>2, NoStretch, BytesEmpty DEF Init, ToCome, Writes
<1>5. Control
  BY DEF Init, Control, Writes, Reads
<1> QED  BY <1>1, <1>3, <1>4, <1>5 DEF IInv

LEMMA NextIInv == IInv /\ [Next]_vars => IInv'
<1> SUFFICES ASSUME IInv, [Next]_vars PROVE IInv'
  OBVIOUS
<1>1. Typed'
  BY NextType DEF IInv
<1>2. OnTheWay' /\ ToCome' /\ Control'
  <2>1. CASE UNCHANGED vars
    <3>1. OnTheWay' /\ ToCome' /\ InWriting' = InWriting
      BY <2>1, NothingMoves DEF vars, ostream, istream, theirs
    <3> QED  BY <2>1, <3>1 DEF IInv, Control, vars, ostream, istream, theirs, Writes, Reads
  <2> QED
    BY <2>1, PutCharKeeps, PutStringKeeps, PutInVainKeeps, SyncKeeps, WriteSomeKeeps,
       WrittenKeeps, WriteFailsKeeps, KilledKeeps, CloseStdinKeeps, DestroyedKeeps,
       UnderflowKeeps, GetKeeps, GetStringKeeps, TakeKeeps, DirectReadKeeps,
       NudgedKeeps, EndOfFileKeeps, WaitKeeps, ChildReadsKeeps, ChildWritesKeeps, ChildEndsKeeps
    DEF Next
<1> QED  BY <1>1, <1>2 DEF IInv

\* In every state the bytes are where the invariant says: on their way in order
\* and without a gap from the buffer of the ostream to the reader
\* (fhstream.cpp:45-211).
THEOREM NoByteAstray == Spec => []IInv
BY InitIInv, NextIInv, PTL DEF Spec

\* When exec_command or get_encrypted_files is told that the child ended well,
\* the child got every byte that was put and git-crypt every byte of its answer,
\* though neither looks at the state of its stream (util.cpp:44-61).
THEOREM StatusTold == Spec => []StatusTellsAll
<1>1. IInv => StatusTellsAll
  <2> SUFFICES ASSUME IInv, exit = "ok" PROVE got = Bytes(0, offered)
    BY DEF StatusTellsAll
  <2>1. /\ ibuf = <<>> /\ output = <<>> /\ held = <<>> /\ input = <<>> /\ InWriting = offered
        /\ got = Bytes(0, Len(got))
    BY DEF IInv, Control, OnTheWay
  <2>2. Len(got) = offered
    BY <2>1, Lengths, NoStretch DEF IInv, InIbuf, InOutput, InHeld, InInput, InWriting
  <2> QED  BY <2>1, <2>2, Zenon
<1> QED  BY <1>1, NoByteAstray, PTL

-----------------------------------------------------------------------------
(* The streams are a pipe.                                                 *)

Broken == lost \/ child = "failed"

\* What the ostream has lost, a child that failed has not read.
LEMMA AlreadyBroken ==
  ASSUME IInv, IInv', lost', child' = child
  PROVE  Broken /\ Broken'
BY DEF IInv, Control, Broken

\* When the reader has more than before, it has received what comes next.
LEMMA Received ==
  ASSUME IInv, IInv', offered' = offered, Len(got') >= Len(got)
  PROVE  \/ got' = got
         \/ \E n \in 1..(offered - Len(got)) :
              got' = got \o [i \in 1..n |-> Len(got) + i]
<1>1. /\ Len(got) \in Nat /\ Len(got') \in Nat /\ offered \in Nat
      /\ got = Bytes(0, Len(got)) /\ got' = Bytes(0, Len(got'))
  <2>1. Len(got) \in Nat /\ offered \in Nat /\ got = Bytes(0, Len(got))
    BY Lengths DEF IInv, OnTheWay
  <2>2. Len(got') \in Nat /\ got' = Bytes(0, Len(got'))
    BY StretchLen DEF IInv, OnTheWay, Typed, SeqTypes
  <2> QED  BY <2>1, <2>2
<1>2. Len(got') <= offered
  <2>1. /\ Len(got') \in Nat /\ Len(ibuf') \in Nat /\ Len(output') \in Nat /\ Len(held') \in Nat
        /\ Len(input') \in Nat /\ InWriting' <= offered'
    BY StretchLen DEF IInv, OnTheWay, Typed, SeqTypes
  <2> QED  BY <1>1, <2>1 DEF InWriting, InInput, InHeld, InOutput, InIbuf
<1> DEFINE n == Len(got') - Len(got)
<1>3. n \in Nat /\ Len(got) + n = Len(got') /\ n <= offered - Len(got)
  BY <1>1, <1>2
<1>4. got' = got \o Bytes(Len(got), n)
  <2>1. Bytes(0, Len(got)) \o Bytes(0 + Len(got), n) = Bytes(0, Len(got) + n)
    <3>1. 0 \in Nat
      OBVIOUS
    <3> QED  BY <3>1, <1>1, <1>3, BytesJoin, Zenon
  <2>2. 0 + Len(got) = Len(got)
    BY <1>1
  <2> QED  BY <1>1, <1>3, <2>1, <2>2, Zenon
<1>5. CASE n = 0
  BY <1>1, <1>3, <1>5
<1>6. CASE n # 0
  <2>1. n \in 1..(offered - Len(got))
    BY <1>1, <1>3, <1>6
  <2> QED  BY <2>1, <1>4 DEF Bytes
<1> QED  BY <1>5, <1>6

LEMMA InitPipe == Init => Pipe!Init
BY Zenon DEF Init, Pipe!Init

\* What each step is to the reader and the writer.
PipeStep == [Pipe!Next]_Pipe!vars

\* Steps that put nothing, take nothing, close nothing and lose nothing.
LEMMA Silent ==
  ASSUME UNCHANGED <<offered, got, open, eof>>, Broken' <=> Broken
  PROVE  PipeStep
BY Zenon DEF PipeStep, Pipe!vars, Broken

\* Steps that put.
LEMMA Sends ==
  ASSUME Typed, open, offered' \in Nat, offered' > offered, UNCHANGED <<got, open, eof, lost, child>>
  PROVE  PipeStep
<1>1. Pipe!Send
  BY Zenon DEF Pipe!Send
<1> QED  BY <1>1 DEF PipeStep, Pipe!Next

\* Steps that take.
LEMMA Receives ==
  ASSUME IInv, IInv', ~eof, Len(got') >= Len(got), UNCHANGED <<offered, open, eof, lost, child>>
  PROVE  PipeStep
<1>1. CASE got' = got
  BY <1>1, Silent DEF Broken
<1>2. CASE \E n \in 1..(offered - Len(got)) : got' = got \o [i \in 1..n |-> Len(got) + i]
  <2>1. Pipe!Receive
    BY <1>2, Zenon DEF Pipe!Receive
  <2> QED  BY <2>1 DEF PipeStep, Pipe!Next
<1> QED  BY <1>1, <1>2, Received

\* The end of the child's input.
LEMMA Closes ==
  ASSUME open' = FALSE, UNCHANGED <<offered, got, eof>>, Broken' <=> Broken
  PROVE  PipeStep
<1>1. Pipe!Close
  BY Zenon DEF Pipe!Close, Broken
<1> QED  BY <1>1 DEF PipeStep, Pipe!Next

LEMMA WriterPipes ==
  ASSUME IInv,
         \/ PutChar \/ PutInVain \/ \E n \in Length : PutString(n)
         \/ Sync \/ CloseStdin \/ Written \/ \E k \in DOMAIN writing : WriteSome(k)
  PROVE  PipeStep
<1>1. offered \in Nat /\ \A n \in Length : n \in Nat /\ n > 0
  BY Lengths, SizeAssumption DEF IInv, Length
<1>2. ASSUME PutChar \/ PutInVain \/ \E n \in Length : PutString(n) PROVE PipeStep
  <2>1. offered' \in Nat /\ offered' > offered
    BY <1>1, <1>2 DEF PutChar, PutInVain, PutString
  <2>2. open /\ UNCHANGED <<got, open, eof, lost, child>>
    BY <1>2, Zenon DEF PutChar, PutInVain, PutString, ostream, istream, theirs
  <2> QED  BY <2>1, <2>2, Sends DEF IInv
<1>3. ASSUME Sync \/ CloseStdin \/ Written \/ \E k \in DOMAIN writing : WriteSome(k) PROVE PipeStep
  <2>1. UNCHANGED <<offered, got, open, eof, lost, child>>
    BY <1>3, Zenon DEF Sync, CloseStdin, Written, WriteSome, istream, theirs
  <2> QED  BY <2>1, Silent DEF Broken
<1> QED  BY <1>2, <1>3

\* What is lost is lost to a child that failed.
LEMMA LossPipes ==
  ASSUME IInv, IInv', WriteFails \/ Killed \/ Destroyed
  PROVE  PipeStep
<1>1. ASSUME WriteFails PROVE PipeStep
  <2>1. UNCHANGED <<offered, got, open, eof>> /\ (Broken' <=> Broken)
    BY <1>1, AlreadyBroken DEF WriteFails, istream, theirs
  <2> QED  BY <2>1, Silent
<1>2. ASSUME Killed PROVE PipeStep
  <2>1. open' = FALSE /\ UNCHANGED <<offered, got, eof>> /\ (Broken' <=> Broken)
    BY <1>2, AlreadyBroken DEF Killed, istream, theirs
  <2> QED  BY <2>1, Closes
<1>3. ASSUME Destroyed PROVE PipeStep
  <2>1. open' = FALSE /\ UNCHANGED <<offered, got, eof, child>>
    BY <1>3 DEF Destroyed, istream, theirs
  <2>2. Broken' <=> Broken
    BY <1>3, <2>1, AlreadyBroken DEF Destroyed, Broken
  <2> QED  BY <2>1, <2>2, Closes
<1> QED  BY <1>1, <1>2, <1>3

\* A write of zero bytes is nothing to either.
LEMMA NudgedPipes ==
  ASSUME ReadNothing \/ ChildWritesNothing
  PROVE  PipeStep
<1>1. UNCHANGED <<offered, got, open, eof, lost, child>>
  BY Zenon DEF ReadNothing, ChildWritesNothing, ostream, istream
<1> QED  BY <1>1, Silent DEF Broken

LEMMA ReaderPipes ==
  ASSUME IInv, IInv',
         \/ Get \/ Take \/ Wait
         \/ \E n \in Length : GetString(n)
         \/ \E k \in DOMAIN output : Underflow(k) \/ DirectRead(k)
  PROVE  PipeStep
<1>1. ASSUME Get \/ Wait \/ \E k \in DOMAIN output : Underflow(k) PROVE PipeStep
  <2>1. UNCHANGED <<offered, got, open, eof, lost, child>>
    BY <1>1, Zenon DEF Get, Wait, Underflow, ostream, istream, theirs
  <2> QED  BY <2>1, Silent DEF Broken
<1>2. /\ got \in Stretches /\ ibuf \in Stretches /\ output \in Stretches
      /\ Len(got) \in Nat /\ Len(ibuf) \in Nat /\ Len(output) \in Nat
  BY Lengths DEF IInv, Typed, SeqTypes
<1>3. \A s \in Stretches : \A k \in 0..Len(s) : Len(got \o SubSeq(s, 1, k)) >= Len(got)
  <2> TAKE s \in Stretches
  <2> TAKE k \in 0..Len(s)
  <2>1. SubSeq(s, 1, k) \in Stretches
    BY StretchPart
  <2>2. Len(got \o SubSeq(s, 1, k)) = Len(got) + Len(SubSeq(s, 1, k)) /\ Len(SubSeq(s, 1, k)) \in Nat
    BY <1>2, <2>1, StretchConcat, StretchLen
  <2> QED  BY <1>2, <2>2
<1>4. ASSUME Take PROVE PipeStep
  <2>1. Min2(wanted, Len(ibuf)) \in 0..Len(ibuf)
    BY <1>2 DEF IInv, Min2, Typed, OtherTypes
  <2>2. Len(got') >= Len(got)
    BY <1>2, <1>3, <1>4, <2>1 DEF Take
  <2>3. ~eof /\ UNCHANGED <<offered, open, eof, lost, child>>
    BY <1>4 DEF IInv, Control, Reads, Take, ostream, theirs
  <2> QED  BY <2>2, <2>3, Receives
<1>5. ASSUME NEW n \in Length, GetString(n) PROVE PipeStep
  <2>1. got' = got \/ got' = got \o ibuf
    BY <1>5, Zenon DEF GetString
  <2>2. Len(got \o ibuf) = Len(got) + Len(ibuf)
    BY <1>2, StretchConcat
  <2>3. Len(got') >= Len(got)
    BY <1>2, <2>1, <2>2
  <2>4. ~eof /\ UNCHANGED <<offered, open, eof, lost, child>>
    BY <1>5 DEF GetString, ostream, theirs
  <2> QED  BY <2>3, <2>4, Receives
<1>6. ASSUME NEW k \in DOMAIN output, DirectRead(k) PROVE PipeStep
  <2>1. k \in 0..Len(output)
    BY <1>2, StretchLen
  <2>2. Len(got') >= Len(got)
    BY <1>2, <1>3, <1>6, <2>1 DEF DirectRead
  <2>3. ~eof /\ UNCHANGED <<offered, open, eof, lost, child>>
    BY <1>6 DEF IInv, Control, Reads, DirectRead, ostream
  <2> QED  BY <2>2, <2>3, Receives
<1> QED  BY <1>1, <1>4, <1>5, <1>6

\* The end of the file is seen when all was received, or the child failed.
LEMMA EndOfFilePipes ==
  ASSUME IInv, EndOfFile
  PROVE  PipeStep
<1>1. Broken \/ (~open /\ Len(got) = offered)
  <2> SUFFICES ASSUME child # "failed" PROVE ~open /\ Len(got) = offered
    BY DEF Broken
  <2>1. /\ child = "ok" /\ ~open /\ ibuf = <<>> /\ output = <<>> /\ held = <<>> /\ input = <<>>
        /\ InWriting = offered
    BY DEF IInv, Control, EndOfFile, Reading, Typed, OtherTypes
  <2> QED
    BY <2>1, Lengths, NoStretch DEF IInv, InIbuf, InOutput, InHeld, InInput, InWriting
<1>2. eof' = TRUE /\ UNCHANGED <<offered, got, open, lost, child>>
  BY DEF EndOfFile, ostream, theirs
<1>3. Pipe!Finish
  BY <1>1, <1>2, Zenon DEF Pipe!Finish, Broken
<1> QED  BY <1>3 DEF PipeStep, Pipe!Next

LEMMA ChildPipes ==
  ASSUME IInv,
         \/ \E k \in DOMAIN input : ChildReads(k)
         \/ \E k \in DOMAIN held : ChildWrites(k)
         \/ \E how \in {"ok", "failed"} : ChildEnds(how)
  PROVE  PipeStep
<1>1. ASSUME \/ \E k \in DOMAIN input : ChildReads(k)
             \/ \E k \in DOMAIN held : ChildWrites(k)
      PROVE  PipeStep
  <2>1. UNCHANGED <<offered, got, open, eof, lost, child>>
    BY <1>1, Zenon DEF ChildReads, ChildWrites, ostream, istream
  <2> QED  BY <2>1, Silent DEF Broken
<1>2. ASSUME ChildEnds("ok") PROVE PipeStep
  <2>1. /\ UNCHANGED <<offered, got, open, eof, lost>> /\ child' = "ok" /\ child = "running"
    BY <1>2 DEF ChildEnds, ostream, istream
  <2> QED  BY <2>1, Silent DEF Broken
<1>3. ASSUME ChildEnds("failed") PROVE PipeStep
  <2>1. /\ UNCHANGED <<offered, got, open, eof, lost>> /\ child' = "failed"
    BY <1>3 DEF ChildEnds, ostream, istream
  <2>2. Pipe!Break
    BY <2>1, Zenon DEF Pipe!Break
  <2> QED  BY <2>2 DEF PipeStep, Pipe!Next
<1> QED  BY <1>1, <1>2, <1>3

\* The buffers, the pipes and the child between them do what BytePipe promises:
\* the bytes arrive in the order they were put, none twice, none out of nothing,
\* and the reader is told of the end only when there are no more or the child
\* failed (fhstream.cpp:45-211, coprocess-unix.cpp:120-178).
THEOREM StreamsAreAPipe == Spec => ImplementsPipe
<1>1. Init => Pipe!Init
  BY InitPipe
<1>2. IInv /\ IInv' /\ [Next]_vars => [Pipe!Next]_Pipe!vars
  <2> SUFFICES ASSUME IInv, IInv', [Next]_vars PROVE PipeStep
    BY DEF PipeStep
  <2>1. CASE UNCHANGED vars
    BY <2>1, Silent DEF vars, ostream, istream, theirs, Broken
  <2> QED
    BY <2>1, WriterPipes, LossPipes, ReaderPipes, NudgedPipes, EndOfFilePipes, ChildPipes DEF Next
<1> QED  BY <1>1, <1>2, NoByteAstray, PTL DEF Spec, ImplementsPipe, Pipe!Spec
=============================================================================
