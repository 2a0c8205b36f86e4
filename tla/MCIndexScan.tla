---------------------------- MODULE MCIndexScan ----------------------------
EXTENDS AttributeScan

\* One to three words, words like git's, and a name that starts with a blank.
SomeNames == {<<Letter("a")>>, <<Letter("b"), Letter("c")>>,
              <<Letter("d"), Blank, Letter("e")>>,
              <<Letter("f"), Blank, Letter("g"), Blank, Blank, Letter("h")>>,
              <<Letter("x"), Blank, Mode("file")>>, <<Tag("?")>>,
              <<Blank, Letter("i")>>}
OwnNames == {n \in SomeNames : Plain(n) /\ Range(n) \cap {Mode("file"), Tag("?")} = {}}

\* Names that look like an answer of git check-attr, or end where one begins.
AnswerNames == {<<Letter("a"), Letter(":")>>, <<Letter("a"), Letter(":"), Blank>>,
                <<Letter("a")>> \o Separator \o Filter,
                <<Letter("a")>> \o Separator \o Filter \o Separator \o AttributeName(NoName),
                Diff \o Separator \o <<Letter("lfs"), Letter(":")>>}
AllNames == SomeNames \cup AnswerNames

\* Values of other programs, of keys, and of names no key may have.
Crypt == <<Letter("git-crypt")>>
SomeValues == {<<Letter("lfs")>>, <<>>, <<Letter("git-crypt"), Letter("k")>>, <<Letter(":")>>, Crypt}
                \cup {NamedPrefix \o n : n \in {<<Letter("k")>>, Crypt, <<>>, Default, <<Letter(":")>>}}
SomeLegal == {Letter("k"), Letter("git-crypt"), Letter("-"), Letter("default")}
=============================================================================
