----------------------------- MODULE FilterRun -----------------------------
(***************************************************************************)
(* A filter from the configuration to its exit status: init or unlock      *)
(* writes the command into git's configuration, git has a shell run it,    *)
(* main and parse_options take the arguments apart, load_key reads the key *)
(* file they name, and clean takes the key's latest version, smudge and    *)
(* diff version 0.  Users may call the filters, too.  The filters          *)
(* themselves are those of FilterStream.                                   *)
(***************************************************************************)
EXTENDS FilterStream, KeyFile, CommandLine

CONSTANTS Paths    \* bound: where git-crypt is installed

\* A path is a sequence of characters, whichever they are.
ASSUME PathsAssumption == \A p \in Paths : p \in Seq(Range(p))

VARIABLES
  stage,    \* of the run of a filter
  path,     \* our_exe_path()
  conf,     \* git's configuration: the command of each filter
  argv,     \* the arguments still to be taken apart
  cmd,      \* the command that runs
  asked,    \* history: the key file that is meant
  options,  \* key_name and key_path, where given
  chosen,   \* the key file load_key reads
  wanted,   \* history: the secret in it, for clean and for the others
  used,     \* the entry that is used
  whole,    \* history: was the key file as git-crypt writes it?
  code      \* what kept the filter from encrypting or decrypting

mine == <<stage, path, conf, argv, cmd, asked, options, chosen, wanted, used, whole, code>>
stream == vars
allvars == <<stream, mine>>

Filters == {"clean", "smudge", "diff"}
Name == "alpha"
Internal(n) == [by |-> "name", at |-> n]
Given == [by |-> "path", at |-> "key"]
Legacy == [by |-> "legacy", at |-> "key"]
Nothing == [by |-> "nothing", at |-> "key"]

NoCommand == [c \in Filters |-> <<>>]
NoSecret == [c \in Filters |-> Zero]
NoEntry == [aes |-> Zero, hmac |-> Zero]

FilterRunInit ==
  /\ Init
  /\ stage = "idle" /\ path = <<>> /\ conf = NoCommand /\ argv = <<>> /\ cmd = "none"
  /\ asked = Nothing /\ options = [by \in {"name", "path"} |-> <<>>] /\ chosen = Nothing
  /\ wanted = NoSecret /\ used = NoEntry /\ whole = TRUE /\ code = "none"

-----------------------------------------------------------------------------
(* configure_git_filters.  The name of a key needs no quotes.  On Windows  *)
(* the arguments of git config are made one line.                          *)

Line(c, n) == EscapeShellArg(path') \o <<Space, c>>
              \o (IF n = NoName THEN <<>> ELSE <<Space, "--key-name", "=", n>>)

GitConfig(windows, value) ==
  IF windows THEN ArgumentsOf(FormatCmdline(<<<<"git">>, <<"config">>, value>>))[3] ELSE value

Configure(p, n, windows) ==
  /\ stage = "idle" /\ conf = NoCommand
  /\ path' = p /\ conf' = [c \in Filters |-> GitConfig(windows, Line(c, n))]
  /\ asked' = Internal(n)
  /\ UNCHANGED <<stream, stage, argv, cmd, options, chosen, wanted, used, whole, code>>

\* Bound: a git-crypt installed under another path is followed until its arguments
\* are taken apart, a run by a user until its key is loaded; from there on they are
\* like the others.
Plain == <<"/usr/bin/git-crypt">>

\* clean on what is to be staged, the others on what is stored.
Due(c) == IF c = "clean" THEN pc = "load" ELSE pc = "stored"

\* Git appends the file to the command of a textconv.
GitRuns(c) ==
  /\ stage = "idle" /\ conf # NoCommand /\ Due(c)
  /\ argv' = ShellWords(conf[c] \o (IF c = "diff" THEN <<Space, "file">> ELSE <<>>))
  /\ cmd' = c /\ stage' = "main"
  /\ UNCHANGED <<stream, path, conf, asked, options, chosen, wanted, used, whole, code>>

\* What a user may write for a key, and the key that is meant by it.
Spellings ==
  {[args |-> a, means |-> Internal(Name)] :
     a \in {<<<<"-k", Name>>>>, <<<<"-k">>, <<Name>>>>,
            <<<<"--key-name", "=", Name>>>>, <<<<"--key-name">>, <<Name>>>>,
            <<<<"-k", "other">>, <<"-k", Name>>, <<"--">>>>}}
  \cup {[args |-> a, means |-> Given] :
     a \in {<<<<"--key-file", "=", "key">>>>, <<<<"--key-file">>, <<"key">>>>,
            <<<<"-k", Name>>, <<"--key-file", "=", "key">>>>}}
  \cup {[args |-> a, means |-> Legacy] : a \in {<<<<"key">>>>, <<<<"--">>, <<"key">>>>}}
  \cup {[args |-> a, means |-> Nothing] :
     a \in {<<<<"-x">>>>, <<<<"--key">>>>, <<<<"-k">>>>, <<<<"--key-file", "=", "key">>, <<"key">>>>}}

UserRuns(c, sp) ==
  /\ stage = "idle" /\ conf = NoCommand
  /\ c \in Filters => Due(c)
  /\ path' = <<"git-crypt">> /\ cmd' = c /\ asked' = sp.means
  \* An option without a value would take the name of the file for one.
  /\ ~(c = "diff" /\ sp.args = <<<<"-k">>>>)
  /\ argv' = <<path', <<c>>>> \o sp.args \o (IF c = "diff" THEN <<<<"file">>>> ELSE <<>>)
  /\ stage' = "main"
  /\ UNCHANGED <<stream, conf, options, chosen, wanted, used, whole, code>>

-----------------------------------------------------------------------------
(* main and parse_options                                                  *)

Exit(what) ==
  /\ stage' = "ended" /\ code' = what
  /\ UNCHANGED <<stream, path, conf, argv, cmd, asked, options, chosen, wanted, used, whole>>

Dispatch ==
  /\ stage = "main"
  /\ IF argv[2] \in {<<c>> : c \in Filters}
     THEN /\ argv' = SubSeq(argv, 3, Len(argv)) /\ stage' = "options"
          /\ UNCHANGED <<stream, path, conf, cmd, asked, options, chosen, wanted, used, whole, code>>
     ELSE Exit("usage")

OptionNames == {"-k", "--key-name", "--key-file"}
IsOption(a) == a[1] \in OptionNames \cup {"--", "-x", "--key"}
Sets(o) == IF o = "--key-file" THEN "path" ELSE "name"

\* The value of the first option, and what follows it: a long option's is
\* behind the equals sign, a short one's the rest of the argument; else the
\* next argument is the value.
Value ==
  LET a == Head(argv)
  IN CASE Len(a) = 1 -> IF Len(argv) > 1 THEN argv[2] ELSE <<>>
       [] Len(a) > 1 /\ a[1] = "-k" -> Tail(a)
       [] Len(a) > 1 /\ a[1] # "-k" -> SubSeq(a, 3, Len(a))
Rest == SubSeq(argv, IF Len(Head(argv)) = 1 THEN 3 ELSE 2, Len(argv))

Option ==
  /\ stage = "options" /\ argv # <<>> /\ Head(argv)[1] \in OptionNames /\ Value # <<>>
  /\ options' = [options EXCEPT ![Sets(Head(argv)[1])] = Value]
  /\ argv' = Rest
  /\ UNCHANGED <<stream, stage, path, conf, cmd, asked, chosen, wanted, used, whole, code>>

OptionError ==
  /\ stage = "options" /\ argv # <<>> /\ IsOption(Head(argv)) /\ Head(argv) # <<"--">>
  /\ Head(argv)[1] \in OptionNames => Value = <<>>
  /\ Exit("usage")

\* One argument too many is a key file from before 0.4, unless a key was named.
SelectKey ==
  /\ stage = "options"
  /\ argv # <<>> => Head(argv) = <<"--">> \/ ~IsOption(Head(argv))
  /\ LET given == IF argv # <<>> /\ Head(argv) = <<"--">> THEN Tail(argv) ELSE argv
         extra == Len(given) - (IF cmd = "diff" THEN 1 ELSE 0)
         named == options["name"] # <<>> \/ options["path"] # <<>>
     IN IF extra = 0 \/ (extra = 1 /\ ~named)
        THEN /\ chosen' = CASE extra = 1 -> [by |-> "legacy", at |-> given[1][1]]
                            [] extra = 0 /\ options["path"] # <<>> ->
                                 [by |-> "path", at |-> options["path"][1]]
                            [] extra = 0 /\ options["path"] = <<>> ->
                                 Internal(IF options["name"] # <<>> THEN options["name"][1] ELSE NoName)
             /\ stage' = "load" /\ argv' = <<>>
             /\ UNCHANGED <<stream, path, conf, cmd, asked, options, wanted, used, whole, code>>
        ELSE Exit("usage")

-----------------------------------------------------------------------------
(* The key files the commands of git-crypt write.                          *)

NewKey(n, s) == Generate(KeyOf(n, NoEntries), s)
OldFile(s) == <<Bytes(s, 32), Bytes(s, 64)>>

\* init and keygen; unlock, export-key and add-gpg-user, which load and store;
\* migrate-key, whose keys have no name.
Written(n, s) ==
  {Store(NewKey(n, s)), StoredAgain(Load(Store(NewKey(n, s))))}
  \cup (IF n = NoName THEN {Migrated(OldFile(s))} ELSE {})

\* A killed store, and later versions of the format.
Unwhole(n, s) ==
  LET f == Store(NewKey(n, s))
  IN Cuts(f) \cup {Added(f, 7), [f EXCEPT ![2] = U32(3)]}

\* The last is a file of the new format that is taken for an old one.
UnwholeLegacy(s) ==
  Cuts(OldFile(s)) \cup {OldFile(s) \o <<Bytes(s, 1)>>, Store(NewKey(NoName, s))}

\* An entry's two secrets belong together.
Version(loaded, c) == IF c = "clean" THEN Latest(loaded.key) ELSE 0

\* smudge and diff look at the blob before they look for the version of the key.
LoadKey(file, s, isWhole) ==
  /\ stage = "load" /\ path \in {Plain, <<"git-crypt">>}
  /\ LET loaded == IF chosen.by = "legacy" THEN LoadLegacy(file) ELSE Load(file)
     IN IF loaded.error # "none" \/ loaded.key.entries = NoEntries
           \/ Version(loaded, cmd) \notin DOMAIN loaded.key.entries
        THEN /\ stage' = "ended" /\ UNCHANGED used
             /\ code' = IF loaded.error = "none" /\ cmd # "clean" /\ ~blob.marked
                        THEN "plain" ELSE "key"
        ELSE stage' = "loaded" /\ used' = loaded.key.entries[Version(loaded, cmd)] /\ UNCHANGED code
  /\ wanted' = [wanted EXCEPT ![cmd] = s] /\ whole' = isWhole
  /\ UNCHANGED <<stream, path, conf, argv, cmd, asked, options, chosen>>

\* The file that is read where the arguments say holds the secret s.
ReadKey(s) ==
  LET n == IF chosen.by = "name" THEN chosen.at ELSE NoName
  IN \/ \E f \in (IF chosen.by = "legacy" THEN {OldFile(s)}
                  ELSE Written(n, s) \cup {Added(f, 2) : f \in Written(n, s)}) :
          LoadKey(f, s, TRUE)
     \/ \E f \in (IF chosen.by = "legacy" THEN UnwholeLegacy(s) ELSE Unwhole(n, s)) :
          LoadKey(f, s, FALSE)

-----------------------------------------------------------------------------
(* The filter runs.                                                        *)

Again == /\ stage' = "idle" /\ options' = [by \in {"name", "path"} |-> <<>>]
         /\ chosen' = Nothing /\ argv' = <<>> /\ used' = NoEntry

StartFilter ==
  /\ stage = "loaded" /\ path = Plain
  /\ IF cmd = "clean" THEN StartClean(used.aes) ELSE StartSmudge(used.aes)
  /\ stage' = "run"
  /\ UNCHANGED <<path, conf, argv, cmd, asked, options, chosen, wanted, used, whole, code>>

FilterStep ==
  /\ stage = "run"
  /\ \/ ReadChunk \/ TooLong \/ WriteHeader \/ EncryptMemory \/ EncryptTemp \/ CleanDies
     \/ CopyPlain \/ DecryptByte \/ Verify
  /\ UNCHANGED mine

CleanEnds ==
  /\ stage = "run" /\ FinishClean
  /\ Again
  /\ UNCHANGED <<path, conf, cmd, asked, wanted, whole, code>>

BlobChanges ==
  /\ stage = "idle"
  /\ \/ \E i \in DOMAIN blob.body : \/ Damage(Truncated(i - 1)) \/ Damage(Altered(i))
                                    \/ i + 1 \in DOMAIN blob.body /\ Damage(Swapped(i))
     \/ Damage(Renonced) \/ Damage(Unmarked)
  /\ UNCHANGED mine

FilterRunNext ==
  \/ \E p \in Paths, n \in {NoName, Name}, w \in BOOLEAN : Configure(p, n, w)
  \/ \E c \in Filters : GitRuns(c)
  \/ \E c \in Filters \cup {"encrypt"}, sp \in Spellings : UserRuns(c, sp)
  \/ Dispatch \/ Option \/ OptionError \/ SelectKey
  \/ \E s \in Secrets : ReadKey(s)
  \/ StartFilter \/ FilterStep \/ CleanEnds \/ BlobChanges

FilterRunSpec == FilterRunInit /\ [][FilterRunNext]_allvars

-----------------------------------------------------------------------------
(* Properties.                                                             *)

\* Whatever the path, and on Windows too, the shell runs git-crypt and hands it
\* the command and the key it was configured with.
ConfiguredRuns ==
  stage = "main" /\ conf # NoCommand =>
    argv = <<path, <<cmd>>>>
           \o (IF asked.at = NoName THEN <<>> ELSE <<<<"--key-name", "=", asked.at>>>>)
           \o (IF cmd = "diff" THEN <<<<"file">>>> ELSE <<>>)

\* The key file that is read is the one that is meant, and of a file that is cut
\* off or of a later format no key is used but its own; whatever git-crypt itself
\* has written, with fields added that an old version may pass over, is read.
KeyFaithful ==
  /\ stage \in {"load", "loaded"} => chosen = asked
  /\ stage = "loaded" => used.aes = wanted[cmd] /\ used.hmac = wanted[cmd]
  /\ code \in {"key", "plain"} => ~whole

\* The text of a file survives staging and checkout wherever both find a key file
\* with the same secret, although clean takes the latest version of the key and
\* smudge always takes version 0 (commands.cpp:845).
EndToEnd ==
  pc = "smudged" /\ ~damaged /\ wanted["clean"] = wanted[cmd] => exit = "ok" /\ out = input
=============================================================================
