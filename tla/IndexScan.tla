----------------------------- MODULE IndexScan -----------------------------
(***************************************************************************)
(* How git-crypt takes apart what git ls-files prints: get_encrypted_files *)
(* for lock and unlock (commands.cpp:561), and git-crypt status            *)
(* (commands.cpp:1619).  Both read fields that end at a blank and a name   *)
(* that ends at a NUL; names may hold blanks.                              *)
(***************************************************************************)
EXTENDS Naturals, SequencesExt

CONSTANTS Names,      \* file names, of any tokens but a NUL: they may look like
                      \* what git prints between them
          Alone,      \* bound: names only a listing of one entry has
          MaxTracked, \* bound: entries of the index
          MaxOthers   \* bound: untracked files

\* What the output is made of.  Only a blank ends a word, not a NUL.
Blank == <<"blank">>
Nul   == <<"NUL">>
Tag(t) == <<"tag", t>>
Mode(kind) == <<"mode", kind>>
Id(i) == <<"id", i>>
Stage == <<"stage">>
Letter(x) == <<"letter", x>>

Modes == {Mode("file"), Mode("link")}
Tags == {Tag("?"), Tag("H")}
Tokens == {Blank, Nul, Stage} \cup Modes \cup Tags \cup {Id(i) : i \in 1..MaxTracked}
            \cup UNION {Range(n) : n \in Names}
OneWord(n) == Blank \notin Range(n)
Plain(n) == Head(n) # Blank

ASSUME NamesAssumption == \A n \in Names : n \in Seq(Range(n)) /\ Len(n) > 0 /\ Nul \notin Range(n)
ASSUME BoundAssumption == Alone \subseteq Names /\ MaxTracked \in Nat /\ MaxOthers \in Nat

\* A symbolic link or a submodule is a link here.
Entry == [kind : {"file", "link"}, name : Names]

VARIABLES
  others,   \* untracked files
  tracked,  \* the index
  reader,   \* whose loop it is
  output,   \* what is left of the output
  rows      \* the files found, as [name, id]

vars == <<others, tracked, reader, output, rows>>

-----------------------------------------------------------------------------
(* git ls-files -csz, and -cotsz: a tag, and first the untracked files.    *)

Fields(i) == <<Mode(tracked[i].kind), Blank, Id(i), Blank, Stage, Blank>>
                \o tracked[i].name \o <<Nul>>
Listing == FlattenSeq([i \in DOMAIN tracked |-> Fields(i)])
TaggedListing ==
  FlattenSeq([i \in DOMAIN others |-> <<Tag("?"), Blank>> \o others[i] \o <<Nul>>])
  \o FlattenSeq([i \in DOMAIN tracked |-> <<Tag("H"), Blank>> \o Fields(i)])

SeqsUpTo(S, n) == UNION {[1..k -> S] : k \in 0..n}
NamesOf == [i \in DOMAIN tracked |-> tracked[i].name] \o others

Init ==
  /\ others \in SeqsUpTo(Names, MaxOthers)
  /\ tracked \in SeqsUpTo(Entry, MaxTracked)
  /\ IsInjective(NamesOf)
  /\ Range(NamesOf) \cap Alone # {} => Len(NamesOf) = 1
  /\ reader \in {"get_encrypted_files", "status"}
  /\ output = IF reader = "status" THEN TaggedListing ELSE Listing
  /\ rows = <<>>

-----------------------------------------------------------------------------
(* std::istream                                                            *)

From(s, i) == SubSeq(s, i, Len(s))

\* in >> std::ws
Ws(s) == LET i == SelectInSeq(s, LAMBDA c : c # Blank)
         IN IF i = 0 THEN <<>> ELSE From(s, i)

\* in >> word.  At the end of the output the word is empty.
NextWord(s) == LET t == Ws(s)  i == SelectInSeq(t, LAMBDA c : c = Blank)
               IN IF i = 0 THEN [word |-> t, rest |-> <<>>]
                  ELSE [word |-> SubSeq(t, 1, i - 1), rest |-> From(t, i)]

\* Mutant of Line: the NUL is part of it.
LineWithNul(s) == LET i == SelectInSeq(s, LAMBDA c : c = Nul)
                  IN IF i = 0 THEN [word |-> s, rest |-> <<>>]
                     ELSE [word |-> SubSeq(s, 1, i), rest |-> From(s, i + 1)]

\* std::getline(in, name, '\0')
Line(s) == LET i == SelectInSeq(s, LAMBDA c : c = Nul)
           IN IF i = 0 THEN [word |-> s, rest |-> <<>>]
              ELSE [word |-> SubSeq(s, 1, i - 1), rest |-> From(s, i + 1)]

-----------------------------------------------------------------------------
(* The two loops                                                           *)

\* Mutant of IsFileMode: the type of the file is not masked out.
IsFileModeUnmasked(mode) == mode # <<>> /\ Head(mode)[1] = "mode"

\* strtoul takes the digits a word starts with.
IsFileMode(mode) == mode # <<>> /\ Head(mode) = Mode("file")

Found(id, name) == rows' = Append(rows, [name |-> name, id |-> id])

\* Mutant of TakeListed: a link is left before its name is read.
TakeListedContinues ==
  /\ reader = "get_encrypted_files" /\ output # <<>>
  /\ LET mode == NextWord(output)  id == NextWord(mode.rest)  stage == NextWord(id.rest)
         name == Line(Ws(stage.rest))
     IN IF IsFileMode(mode.word) THEN Found(id.word, name.word) /\ output' = name.rest
        ELSE UNCHANGED rows /\ output' = stage.rest
  /\ UNCHANGED <<others, tracked, reader>>

TakeListed ==
  /\ reader = "get_encrypted_files" /\ output # <<>>
  /\ LET mode == NextWord(output)  id == NextWord(mode.rest)  stage == NextWord(id.rest)
         name == Line(Ws(stage.rest))
     IN /\ IF IsFileMode(mode.word) THEN Found(id.word, name.word) ELSE UNCHANGED rows
        /\ output' = name.rest
  /\ UNCHANGED <<others, tracked, reader>>

TakeOther ==
  /\ reader = "status" /\ output # <<>>
  /\ LET tag == NextWord(output)  name == Line(Ws(tag.rest))
     IN /\ tag.word = <<Tag("?")>>
        /\ Found(<<>>, name.word) /\ output' = name.rest
  /\ UNCHANGED <<others, tracked, reader>>

\* Mutant of TakeTracked: the stage is not read.
TakeTrackedNoStage ==
  /\ reader = "status" /\ output # <<>>
  /\ LET tag == NextWord(output)  mode == NextWord(tag.rest)  id == NextWord(mode.rest)
         name == Line(Ws(id.rest))
     IN /\ tag.word # <<Tag("?")>> /\ IsFileMode(mode.word)
        /\ Found(id.word, name.word) /\ output' = name.rest
  /\ UNCHANGED <<others, tracked, reader>>

TakeTracked ==
  /\ reader = "status" /\ output # <<>>
  /\ LET tag == NextWord(output)  mode == NextWord(tag.rest)  id == NextWord(mode.rest)
         stage == NextWord(id.rest)  name == Line(Ws(stage.rest))
     IN /\ tag.word # <<Tag("?")>> /\ IsFileMode(mode.word)
        /\ Found(id.word, name.word) /\ output' = name.rest
  /\ UNCHANGED <<others, tracked, reader>>

\* The loop continues without reading the name.
PassLink ==
  /\ reader = "status" /\ output # <<>>
  /\ LET tag == NextWord(output)  mode == NextWord(tag.rest)  id == NextWord(mode.rest)
     IN /\ tag.word # <<Tag("?")>> /\ ~IsFileMode(mode.word)
        /\ output' = NextWord(id.rest).rest
  /\ UNCHANGED <<others, tracked, reader, rows>>

Next == TakeListed \/ TakeOther \/ TakeTracked \/ PassLink

Spec == Init /\ [][Next]_vars

-----------------------------------------------------------------------------
(* Properties.                                                             *)

TypeOK ==
  /\ others \in Seq(Names) /\ tracked \in Seq(Entry)
  /\ reader \in {"get_encrypted_files", "status"}
  /\ output \in Seq(Tokens)
  /\ rows \in Seq([name : Seq(Tokens \ {Nul}), id : Seq(Tokens)])

\* What the loops should find, and what they found.
RowOf(i) == [name |-> tracked[i].name, id |-> <<Id(i)>>]
Files == {i \in DOMAIN tracked : tracked[i].kind = "file"}
Wanted == {RowOf(i) : i \in Files}
          \cup IF reader = "status" THEN {[name |-> n, id |-> <<>>] : n \in Range(others)}
               ELSE {}
\* std::ws takes the blanks a name starts with for the separator's.
AllPlain == \A i \in DOMAIN NamesOf : Plain(NamesOf[i])

OneWords == \A i \in DOMAIN tracked \ Files : OneWord(tracked[i].name)
\* No name has the digits of a file's mode in it, or a question mark.
NoLookalikes ==
  \A i \in DOMAIN NamesOf : Range(NamesOf[i]) \cap {Mode("file"), Tag("?")} = {}

\* A row is a file of the listing, with its blob.  status is certain of it only
\* where the links have names of one word, or no name has words of git's: behind
\* a link it is out of step, and would take such words for an entry.
RowsTrue ==
  AllPlain /\ (reader = "status" => OneWords \/ NoLookalikes) => Range(rows) \subseteq Wanted

\* lock and unlock work on every file of the index, whatever the links between
\* them are called.
ListWhole ==
  reader = "get_encrypted_files" /\ output = <<>> /\ AllPlain => Range(rows) = Wanted

\* status finds its place again after a link whose name is a single word.
StatusResumes ==
  reader = "status" /\ output = <<>> /\ AllPlain /\ OneWords => Range(rows) = Wanted

\* status displays a list of files in the repository (git-crypt.xml:124), and
\* ignores symbolic links and other non-files (NEWS.md:31): not the files after.
StatusWhole == reader = "status" /\ output = <<>> => Range(rows) = Wanted
=============================================================================
