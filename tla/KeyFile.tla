------------------------------ MODULE KeyFile ------------------------------
(***************************************************************************)
(* Key files (key.cpp): how a key is written, and what is read of a file   *)
(* that is whole, cut off, written by a later version or by one before     *)
(* 0.4.  A file is a sequence of cells, each as wide as the code reads     *)
(* and writes it at once; a cell that is cut can only be read in part.     *)
(***************************************************************************)
EXTENDS Naturals, SequencesExt

CONSTANTS Zero     \* a key of which no byte was read: Entry() clears it

Cell(kind, val, width) == [kind |-> kind, val |-> val, width |-> width]
U32(n) == Cell("u32", n, 4)
Bytes(x, n) == Cell("bytes", x, n)
Magic == Cell("magic", 0, 12)
FormatVersion == 2

\* Field numbers and the lengths they may have.
Header == [id \in {1} |-> 1..128]
Entry == [id \in {1, 3, 5} |-> CASE id = 1 -> {4} [] id = 3 -> {32} [] id = 5 -> {64}]
MaxFieldLen == 1024 * 1024

-----------------------------------------------------------------------------
(* A key: its name, and for every version its two secrets.                 *)

NoName == "default"
KeyOf(name, entries) == [name |-> name, entries |-> entries]
NoEntries == [v \in {} |-> Zero]
\* f, and y at x where f has nothing.
Under(f, x, y) == [z \in DOMAIN f \cup {x} |-> IF z \in DOMAIN f THEN f[z] ELSE y]
Latest(k) == CHOOSE v \in DOMAIN k.entries : \A w \in DOMAIN k.entries : w <= v

Generate(k, s) ==
  LET v == IF k.entries = NoEntries THEN 0 ELSE Latest(k) + 1
  IN KeyOf(k.name, Under(k.entries, v, [aes |-> s, hmac |-> s]))

StoreEntry(v, e) == <<U32(1), U32(4), U32(v), U32(3), U32(32), Bytes(e.aes, 32),
                      U32(5), U32(64), Bytes(e.hmac, 64), U32(0)>>

\* The latest version comes first: the map is ordered by std::greater.
Descending(S) == CHOOSE v \in [1..Cardinality(S) -> S] : \A i, j \in DOMAIN v : i < j => v[i] > v[j]

Store(k) ==
  LET versions == Descending(DOMAIN k.entries)
  IN <<Magic, U32(FormatVersion)>>
     \o (IF k.name = NoName THEN <<>> ELSE <<U32(1), U32(5), Bytes(k.name, 5)>>)
     \o <<U32(0)>>
     \o FlattenSeq([i \in DOMAIN versions |-> StoreEntry(versions[i], k.entries[versions[i]])])

-----------------------------------------------------------------------------
Fails(how) == [error |-> how]
Read(next, found) == [error |-> "none", next |-> next, found |-> found]

\* Mutant of Whole: a read that ends early is not noticed.
WholeOrCut(file, i, width) == i <= Len(file)

\* A read of that many bytes succeeds.
Whole(file, i, width) == i <= Len(file) /\ file[i].kind # "cut" /\ file[i].width = width

\* The loop over fields of load_header and Entry::load: one round of it, with what
\* the rounds after it come to.  An unknown field is critical when its number is odd.
Field(file, i, lengths, rest) ==
  LET id == file[i].val
      len == file[i + 1].val
      begins == Whole(file, i, 4)
      goes == begins /\ id # 0 /\ Whole(file, i + 1, 4)
  IN CASE ~begins \/ (begins /\ id # 0 /\ ~goes) -> Fails("malformed")
       [] begins /\ id = 0 -> Read(i + 1, NoEntries)
       [] goes /\ id \in DOMAIN lengths ->
            IF len \notin lengths[id] \/ ~Whole(file, i + 2, len) THEN Fails("malformed")
            ELSE IF rest.error # "none" THEN rest
            ELSE Read(rest.next, Under(rest.found, id, file[i + 2].val))
       [] goes /\ id \notin DOMAIN lengths ->
            IF id % 2 = 1 THEN Fails("incompatible")
            ELSE IF len > MaxFieldLen \/ ~Whole(file, i + 2, len) THEN Fails("malformed")
            ELSE rest

Fields(file, from, lengths) ==
  LET Walk[i \in Nat] == Field(file, i, lengths, Walk[i + 3]) IN Walk[from]

Found(fields, id, default) == IF id \in DOMAIN fields.found THEN fields.found[id] ELSE default

\* An entry whose fields were read, and the entries behind it.
WithEntry(f, rest) ==
  IF f.error # "none" THEN f
  ELSE IF rest.error # "none" THEN rest
  ELSE Read(rest.next, Under(rest.found, Found(f, 1, 0), [aes |-> Found(f, 3, Zero), hmac |-> Found(f, 5, Zero)]))

\* The entries are read until the file ends.
Entries(file, from) ==
  LET Walk[i \in Nat] ==
        IF i > Len(file) THEN Read(i, NoEntries)
        ELSE WithEntry(Fields(file, i, Entry), Walk[Fields(file, i, Entry).next])
  IN Walk[from]

\* Key_file::load.
Load(file) ==
  LET header == Fields(file, 3, Header)
      body == Entries(file, header.next)
      starts == Whole(file, 1, 12) /\ Whole(file, 2, 4) /\ file[1] = Magic
  IN CASE ~starts -> Fails("malformed")
       [] starts /\ file[2] # U32(FormatVersion) -> Fails("incompatible")
       [] starts /\ file[2] = U32(FormatVersion) ->
            IF header.error # "none" THEN header
            ELSE IF body.error # "none" THEN body
            ELSE [error |-> "none", key |-> KeyOf(Found(header, 1, NoName), body.found)]

\* Before 0.4 a key file was two secrets and nothing else.
LoadLegacy(file) ==
  IF Len(file) = 2 /\ Whole(file, 1, 32) /\ Whole(file, 2, 64)
  THEN [error |-> "none", key |-> KeyOf(NoName, Under(NoEntries, 0, [aes |-> file[1].val, hmac |-> file[2].val]))]
  ELSE Fails("malformed")

-----------------------------------------------------------------------------
(* What becomes of a file.                                                 *)

\* It was not written to its end: the last cell is missing or there in part.
Cuts(file) ==
  UNION {{SubSeq(file, 1, j)} \cup {Append(SubSeq(file, 1, j), Cell("cut", 0, left)) :
                                     left \in 1..(file[j + 1].width - 1)} :
         j \in 0..(Len(file) - 1)}

\* A field a later version adds to the header.
Added(file, id) == SubSeq(file, 1, 2) \o <<U32(id), U32(8), Bytes(Zero, 8)>>
                   \o SubSeq(file, 3, Len(file))

\* migrate-key, export-key, unlock: the key is loaded and stored elsewhere.
StoredAgain(loaded) == Store(loaded.key)
Migrated(file) == StoredAgain(LoadLegacy(file))
=============================================================================
