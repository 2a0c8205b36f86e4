--------------------------- MODULE AttributeScan ---------------------------
(***************************************************************************)
(* What git-crypt status, and with a git before 1.8.5 lock and unlock, do  *)
(* with a file they found in the listing (IndexScan): they read what git   *)
(* check-attr prints for people (get_file_attributes, commands.cpp:390),   *)
(* two lines "name: attribute: value", of which the name may hold ": "     *)
(* itself.  The value decides whether status calls the file encrypted, and *)
(* lock and unlock work on it.                                             *)
(***************************************************************************)
EXTENDS IndexScan

CONSTANTS Written, \* what users write for a filter or diff attribute: anything
          Legal    \* letters, digits, '-' and '_'

Separator == <<Letter(":"), Blank>>
Filter == <<Letter("filter")>>
Diff == <<Letter("diff")>>

\* git ends an attribute at a blank.
ASSUME WrittenAssumption == \A v \in Written : v \in Seq(Range(v)) /\ Blank \notin Range(v)

NotAValue == {<<Letter("unspecified")>>, <<Letter("unset")>>, <<Letter("set")>>}
Values == NotAValue \cup Written

\* The name of the default key, a null pointer in the code.
NoName == <<>>
Default == <<Letter("default")>>
NamedPrefix == <<Letter("git-crypt"), Letter("-")>>

\* attribute_name
AttributeName(key) ==
  IF key = NoName THEN <<Letter("git-crypt")>> ELSE NamedPrefix \o key

\* But for the limit to its length.
validate_key_name(key) == key # <<>> /\ key # Default /\ Range(key) \subseteq Legal

\* The keys there may be that a value could be of.
KeyNames == {key \in {From(v, 3) : v \in Written} : validate_key_name(key)}

VARIABLES
  values,                 \* the attributes of the file
  lines,                  \* what git check-attr printed and is still to be read
  filter_attr, diff_attr, \* what was read
  pc,
  encrypted,              \* status calls the file encrypted
  listed                  \* the keys whose lock and unlock take the file

scan == <<values, lines, filter_attr, diff_attr, pc, encrypted, listed>>
allvars == <<vars, scan>>

Unspecified == [a \in {Filter, Diff} |-> <<Letter("unspecified")>>]

ScanInit ==
  /\ Init
  /\ values = Unspecified /\ lines = <<>> /\ filter_attr = <<>> /\ diff_attr = <<>>
  /\ pc = "list" /\ encrypted = FALSE /\ listed = {}

-----------------------------------------------------------------------------
\* git check-attr filter diff -- NAME
AttributeLine(name, v, a) == name \o Separator \o a \o Separator \o v[a]

\* Bound: it is followed for a file that is alone, and was found under its name;
\* what is printed for one file does not depend on another.
Ask ==
  /\ pc = "list" /\ output = <<>> /\ rows # <<>> /\ NamesOf = <<rows[1].name>>
  /\ \E v \in [{Filter, Diff} -> Values] :
       /\ values' = v
       /\ lines' = [i \in 1..2 |-> AttributeLine(rows[1].name, v, IF i = 1 THEN Filter ELSE Diff)]
  /\ pc' = "read"
  /\ UNCHANGED <<vars, filter_attr, diff_attr, encrypted, listed>>

\* Mutant of LastSeparator: searches from the start of the line.
FirstSeparator(line, upto) ==
  LET found == {i \in 1..(Len(line) - 1) : i <= upto /\ SubSeq(line, i, i + 1) = Separator}
  IN IF found = {} THEN 0 ELSE Min(found)

\* line.rfind(": ", upto), and 0 for npos
LastSeparator(line, upto) ==
  LET found == {i \in 1..(Len(line) - 1) : i <= upto /\ SubSeq(line, i, i + 1) = Separator}
  IN IF found = {} THEN 0 ELSE Max(found)

ReadLine ==
  /\ pc = "read" /\ lines # <<>>
  /\ LET line == Head(lines)
         value_pos == LastSeparator(line, Len(line))
         name_pos == LastSeparator(line, value_pos - 1)
         attr_name == SubSeq(line, name_pos + 2, value_pos - 1)
         attr_value == From(line, value_pos + 2)
         taken == name_pos # 0 /\ attr_value \notin NotAValue
     IN /\ filter_attr' = IF taken /\ attr_name = Filter THEN attr_value ELSE filter_attr
        /\ diff_attr' = IF taken /\ attr_name = Diff THEN attr_value ELSE diff_attr
  /\ lines' = Tail(lines)
  /\ UNCHANGED <<vars, values, pc, encrypted, listed>>

\* Mutant of Status: one character less is compared.
StatusShortPrefix ==
  /\ pc = "read" /\ lines = <<>>
  /\ pc' = "keys"
  /\ encrypted' = IsPrefix(<<Letter("git-crypt")>>, filter_attr)
  /\ UNCHANGED <<vars, values, lines, filter_attr, diff_attr, listed>>

Status ==
  /\ pc = "read" /\ lines = <<>>
  /\ pc' = "keys"
  /\ encrypted' = (\/ filter_attr = <<Letter("git-crypt")>>
                   \/ IsPrefix(NamedPrefix, filter_attr))
  /\ UNCHANGED <<vars, values, lines, filter_attr, diff_attr, listed>>

\* get_encrypted_files, for each key
ListFor(key) ==
  /\ pc = "keys" /\ filter_attr = AttributeName(key) /\ key \notin listed
  /\ listed' = listed \cup {key}
  /\ UNCHANGED <<vars, values, lines, filter_attr, diff_attr, pc, encrypted>>

ListedForAll ==
  /\ pc = "keys"
  /\ \A key \in KeyNames \cup {NoName} : filter_attr = AttributeName(key) => key \in listed
  /\ pc' = "done"
  /\ UNCHANGED <<vars, values, lines, filter_attr, diff_attr, encrypted, listed>>

ScanNext ==
  \/ Next /\ UNCHANGED scan
  \/ Ask \/ ReadLine \/ Status \/ ListedForAll
  \/ \E key \in KeyNames \cup {NoName} : ListFor(key)

ScanSpec == ScanInit /\ [][ScanNext]_allvars

-----------------------------------------------------------------------------
(* Properties: those of IndexScan, and                                     *)

\* The types, those of the listing among them.
ScanTypeOK ==
  /\ TypeOK
  /\ values \in [{Filter, Diff} -> Values] /\ Len(lines) <= 2
  /\ filter_attr \in Values \cup {<<>>} /\ diff_attr \in Values \cup {<<>>}
  /\ pc \in {"list", "read", "keys", "done"} /\ encrypted \in BOOLEAN
  /\ listed \subseteq KeyNames \cup {NoName}

\* Whatever the file is called, even like an answer of git check-attr, what is
\* read is its attributes.
Meant(value) == IF value \in NotAValue THEN <<>> ELSE value
AttributesTrue ==
  pc = "keys" => filter_attr = Meant(values[Filter]) /\ diff_attr = Meant(values[Diff])

\* No two keys take the same file, and status calls encrypted what one takes.  What
\* it calls encrypted and no key takes has a filter for a name no key may have.
StatusAgrees ==
  pc = "done" =>
    /\ \A k, l \in listed : k = l
    /\ listed # {} => encrypted
    /\ encrypted /\ listed = {} => /\ IsPrefix(NamedPrefix, values[Filter])
                                  /\ ~validate_key_name(From(values[Filter], 3))
=============================================================================
