-------------------------------- MODULE Conf --------------------------------
(***************************************************************************)
(* The configuration of a mount: conf_ctor of conf.c fills the global conf *)
(* with defaults, reads $HOME/.dplfsrc line by line and lets env.c put the *)
(* environment over it; conf_free gives it back.                           *)
(*                                                                         *)
(* What a configuration is made from is input, fixed in a behaviour.       *)
(* Allocations succeed.                                                    *)
(***************************************************************************)
EXTENDS Naturals, Sequences, FiniteSets

CONSTANTS Inputs \* the command lines, files and environments of a behaviour

VARIABLES input, \* what the mount is started with
          main,  \* where the main thread is
          line,  \* the line of the file to read next
          conf,  \* the global conf, and whether the pointer is valid
          ub     \* undefined behaviour: freed or NULL memory was used

confVars == <<input, main, line, conf, ub>>

-----------------------------------------------------------------------------
(* Options.                                                                 *)

Ints == {"zlib_level", "max_retry", "gc_loop_delay", "gc_age_threshold",
         "sc_loop_delay", "sc_age_threshold", "cache_max_size"}
Strs == {"compression_method", "encryption_method"}
Keys == Ints \union Strs \union {"cache_dir", "exclusion_pattern", "log_level"}

\* A line of the file: its key, or another one (a comment, an unknown key),
\* whether it has an '=', and the value as a number and as a string: one of a
\* single character is not told from longer ones.
Line == [key : Keys \union {"other"}, eq : BOOLEAN, num : Nat, str : STRING]

\* The bucket's name in a path.
Bucket == "bucket"

\* env: the variables of Ints and Strs that are set and not empty; pattern and
\* level are those of their variables, "unset" without; dirs: the directories
\* that exist; cut: the file does not end in a newline; faults: calls can fail;
\* used: clients make requests; entries: the root directory of the bucket;
\* lists: clients list directories; below: the names in another one.
IsInput(i) ==
    /\ DOMAIN i = {"home", "file", "cut", "dirs", "int", "str", "pattern", "level",
                   "faults", "used", "entries", "lists", "below"}
    /\ i.home \in BOOLEAN /\ i.cut \in BOOLEAN /\ i.faults \in BOOLEAN
    /\ i.used \in BOOLEAN /\ i.lists \in BOOLEAN
    /\ i.file \in Seq(Line) /\ i.dirs \subseteq STRING
    /\ DOMAIN i.int \subseteq Ints /\ i.int \in [DOMAIN i.int -> Nat]
    /\ DOMAIN i.str \subseteq Strs /\ i.str \in [DOMAIN i.str -> STRING]
    /\ i.pattern \in {"unset", "", "good", "bad"} /\ i.level \in STRING

ASSUME InputsAssumption == \A i \in Inputs : IsInput(i)

DefaultInt == [k \in Ints |-> CASE k = "zlib_level" -> 3
                                [] k = "max_retry" -> 5
                                [] k = "gc_loop_delay" -> 60
                                [] k = "gc_age_threshold" -> 900
                                [] k = "cache_max_size" -> 10
                                [] OTHER -> 0]
DefaultStr == [k \in Strs |-> "NONE"]
DefaultDir == "/tmp"
Levels == {"LOG_EMERG", "LOG_ERR", "LOG_DEBUG"}
LevelOf(s) == IF s \in Levels THEN s ELSE "LOG_ERR"

\* The texts that the program adds to those of its input are strings, too.
ASSUME TextsAssumption == {"", "cut", "NONE", DefaultDir, Bucket} \subseteq STRING

\* regex: str is NULL, allocated or freed; set when rx is compiled.
NoConf == [ptr |-> "null", int |-> DefaultInt, str |-> DefaultStr, dir |-> <<DefaultDir>>,
           level |-> "LOG_ERR", re |-> [set |-> FALSE, str |-> "null"]]

\* Reading a field of conf.
ConfLive == conf.ptr = "live"

-----------------------------------------------------------------------------
(* conf_ctor.                                                               *)

\* conf_set_full_cache_dir appends the bucket and makes the directory, not
\* its parents.
FullDir(d) == Append(d, Bucket)
CanMake(d) == Len(d) > 1 \/ d[1] \in input.dirs

\* conf_new and conf_ctor_default.
ConfDefault ==
    /\ main = "conf"
    /\ conf' = [NoConf EXCEPT !.ptr = "live"]
    /\ main' = "home"
    /\ UNCHANGED <<input, line, ub>>

\* Without HOME, or a directory for the cache, there is no file to read.
ConfHome ==
    /\ main = "home"
    /\ \/ /\ input.home
          /\ conf' = [conf EXCEPT !.dir = FullDir(@)]
          /\ main' = IF CanMake(conf.dir) THEN "parse" ELSE "env"
       \/ /\ ~input.home
          /\ main' = "env"
          /\ UNCHANGED conf
    /\ UNCHANGED <<input, line, ub>>

\* The last character of a line is taken for its newline: it is one of the value,
\* the '=' if there is none, or one of the key.
Cut(l) == IF l.str # "" THEN [l EXCEPT !.num = @ \div 10, !.str = "cut"]
          ELSE IF l.eq THEN [l EXCEPT !.eq = FALSE]
          ELSE [l EXCEPT !.key = "other"]
ReadLine(i) == IF i = Len(input.file) /\ input.cut THEN Cut(input.file[i]) ELSE input.file[i]

\* parse_str leaves the field alone when there is no value.
DirOf(l) == IF l.str = "" THEN conf.dir ELSE <<l.str>>

\* parse_int: strtoul of nothing is 0.
ParseInt(l) == [conf.int EXCEPT ![l.key] = l.num]

\* parse_token, for a line with an '='.
Parsed(l) ==
    CASE l.key \in Ints           -> [conf EXCEPT !.int = ParseInt(l)]
      [] l.key \in Strs /\ l.str # "" -> [conf EXCEPT !.str[l.key] = l.str]
      [] l.key = "cache_dir"      -> [conf EXCEPT !.dir = FullDir(DirOf(l))]
      [] l.key = "exclusion_pattern" /\ l.str # "" -> [conf EXCEPT !.re.str = "live"]
      [] l.key = "log_level"      -> [conf EXCEPT !.level = LevelOf(l.str)]
      [] OTHER                    -> conf

\* A line of the file, by parse_line.  The first bad one ends the parsing and
\* nothing else; a log_level without a value makes strcmp read NULL.
ParseLine ==
    /\ main = "parse"
    /\ \/ /\ line > Len(input.file)
          /\ main' = "env"
          /\ UNCHANGED <<line, conf, ub>>
       \/ /\ line <= Len(input.file)
          /\ LET l == ReadLine(line) IN
             /\ ub' = (ub \/ (l.key = "log_level" /\ l.eq /\ l.str = ""))
             /\ conf' = IF l.key \in Keys /\ ~l.eq THEN conf ELSE Parsed(l)
             /\ main' = IF l.key \in Keys /\ (~l.eq \/ (l.key = "cache_dir" /\ ~CanMake(DirOf(l))))
                        THEN "env" ELSE "parse"
          /\ line' = line + 1
    /\ UNCHANGED input

\* re_dtor and re_ctor of env_set_exclusion_pattern: a pattern that is empty or
\* not a regular expression leaves str as re_dtor left it.
EnvRegex(re) ==
    CASE input.pattern = "unset" -> re
      [] input.pattern = "good"  -> [set |-> TRUE, str |-> "live"]
      [] OTHER -> [set |-> FALSE, str |-> IF re.str = "live" THEN "freed" ELSE re.str]

\* Mutant of EnvOverride: the environment only says what the file did not.
EnvYields ==
    /\ main = "env"
    /\ conf' = [conf EXCEPT
          !.int = [k \in Ints |-> IF k \in DOMAIN input.int /\ @[k] = DefaultInt[k]
                                  THEN input.int[k] ELSE @[k]],
          !.str = [k \in Strs |-> IF k \in DOMAIN input.str THEN input.str[k] ELSE @[k]],
          !.level = IF input.level = "unset" THEN @ ELSE LevelOf(input.level),
          !.re = EnvRegex(@)]
    /\ main' = "conf_log"
    /\ UNCHANGED <<input, line, ub>>

\* env_override_conf, at the end of conf_ctor.
EnvOverride ==
    /\ main = "env"
    /\ conf' = [conf EXCEPT
          !.int = [k \in Ints |-> IF k \in DOMAIN input.int THEN input.int[k] ELSE @[k]],
          !.str = [k \in Strs |-> IF k \in DOMAIN input.str THEN input.str[k] ELSE @[k]],
          !.level = IF input.level = "unset" THEN @ ELSE LevelOf(input.level),
          !.re = EnvRegex(@)]
    /\ main' = "conf_log"
    /\ UNCHANGED <<input, line, ub>>

\* conf_log of main prints the options, the pattern too, at LOG_ERR.
ConfLog ==
    /\ main = "conf_log"
    /\ ub' = (ub \/ (conf.re.str = "freed" /\ conf.level # "LOG_EMERG"))
    /\ main' = "fuse"
    /\ UNCHANGED <<input, line, conf>>

\* conf_dtor frees regex.str when the pattern was compiled, conf_free when it
\* is not NULL, which it still is.
FreesTwice == conf.re.set \/ conf.re.str = "freed"

\* Mutant of ConfFree: the global pointer is not reset.
ConfFreeOnly == /\ conf' = [conf EXCEPT !.ptr = "freed"]
                /\ ub' = (ub \/ ~ConfLive \/ FreesTwice)

\* conf_free, and the global pointer reset.
ConfFree == /\ conf' = [conf EXCEPT !.ptr = "null"]
            /\ ub' = (ub \/ ~ConfLive \/ FreesTwice)

-----------------------------------------------------------------------------
(* Which value an option has to have, from the file as it is written.       *)

\* The lines that count: those before the first bad one, if a file is read.
Bad(l) == l.key \in Keys /\ (~l.eq \/ (l.key = "cache_dir" /\ l.str \notin input.dirs \union {""}))
FileIsRead == input.home /\ DefaultDir \in input.dirs
Counts(i) == /\ FileIsRead
             /\ i \in 1..Len(input.file)
             /\ \A j \in 1..i : ~Bad(input.file[j])

\* The lines that give k a value, and those with a text; the last of some lines.
Told(k) == {i \in 1..Len(input.file) : Counts(i) /\ input.file[i].key = k}
ToldText(k) == {i \in Told(k) : input.file[i].str # ""}
Newest(lines) == CHOOSE i \in lines : \A j \in lines : j <= i

WantedInt(k) ==
    IF k \in DOMAIN input.int THEN input.int[k]
    ELSE IF Told(k) = {} THEN DefaultInt[k]
    ELSE input.file[Newest(Told(k))].num

WantedStr(k) ==
    IF k \in DOMAIN input.str THEN input.str[k]
    ELSE IF ToldText(k) = {} THEN DefaultStr[k]
    ELSE input.file[Newest(ToldText(k))].str

\* A cache_dir that cannot be made is kept, although it ends the parsing.
ToldDir == {i \in 1..Len(input.file) : /\ FileIsRead /\ (i = 1 \/ Counts(i - 1))
                                       /\ input.file[i].key = "cache_dir"
                                       /\ input.file[i].eq /\ input.file[i].str # ""}
WantedDir == IF ToldDir = {} THEN DefaultDir ELSE input.file[Newest(ToldDir)].str

\* A last line without a newline is not read as it is written.
CutShort(i) == input.cut /\ i = Len(input.file)
Whole(k) == ~ \E i \in 1..Len(input.file) : CutShort(i) /\ input.file[i].key = k

\* The environment has no pattern that can be compiled, and that of the file was
\* freed for it.
PatternFreed == input.pattern \in {"", "bad"} /\ ToldText("exclusion_pattern") # {}
EmptyLevel(l) == l.key = "log_level" /\ l.eq /\ l.str = ""

\* The smart cache is on.
ScOn == conf.int["sc_loop_delay"] # 0 /\ conf.int["sc_age_threshold"] # 0
=============================================================================
