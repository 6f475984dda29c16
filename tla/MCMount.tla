------------------------------ MODULE MCMount -------------------------------
(* Configurations and root directories for TLC. *)
EXTENDS Mount, TLC

\* No file, nothing in the environment, one entry, the threads off.
Off == ("gc_loop_delay" :> 0) @@ ("sc_loop_delay" :> 0)
Bare == [home |-> TRUE, file |-> <<>>, cut |-> FALSE, dirs |-> {"/tmp"}, int |-> Off,
         str |-> [k \in {} |-> ""], pattern |-> "unset", level |-> "unset", faults |-> FALSE, used |-> TRUE,
         entries |-> {"a"}, lists |-> FALSE, below |-> {}]

Set(k, n, s)  == [key |-> k, eq |-> TRUE, num |-> n, str |-> s]
NoValue(k)    == [key |-> k, eq |-> FALSE, num |-> 0, str |-> ""]

\* Files of up to two lines, with what can be wrong with a line.
SomeLines == {Set("gc_loop_delay", 30, "30"), Set("gc_loop_delay", 0, ""), NoValue("max_retry"),
              Set("compression_method", 0, "zlib"), Set("compression_method", 0, ""),
              Set("cache_dir", 0, "/data"), Set("cache_dir", 0, "/none"), Set("cache_dir", 0, ""),
              Set("exclusion_pattern", 0, "tmp"), Set("log_level", 0, "LOG_DEBUG"),
              Set("log_level", 0, ""), NoValue("other")}
SomeFiles == {<<>>} \union {<<l>> : l \in SomeLines} \union {<<l, m>> : l, m \in SomeLines}

\* The collector may be on by default, or the environment says otherwise.
ConfInputs ==
    {[Bare EXCEPT !.file = f, !.cut = c, !.dirs = {"/tmp", "/data"}, !.int = e, !.entries = {}] :
        f \in SomeFiles, c \in BOOLEAN, e \in {Off, "sc_loop_delay" :> 0}}
    \union
    {[Bare EXCEPT !.home = h, !.file = <<Set("gc_loop_delay", 30, "30")>>, !.dirs = d, !.entries = {}] :
        h \in BOOLEAN, d \in {{"/tmp"}, {}}}
PatternInputs ==
    {[Bare EXCEPT !.file = f, !.pattern = p, !.faults = TRUE,
                  !.str = "encryption_method" :> "aes", !.level = l] :
        f \in {<<>>, <<Set("exclusion_pattern", 0, "tmp")>>, <<Set("encryption_method", 0, "none")>>},
        p \in {"unset", "", "good", "bad"}, l \in {"LOG_DEBUG", "LOG_EMERG"}}

\* The smart cache on, by the file; it may list three entries.
Smart == <<Set("sc_loop_delay", 30, "30"), Set("sc_age_threshold", 10, "10")>>
SmartBase == [Bare EXCEPT !.file = Smart, !.int = [k \in {"gc_loop_delay"} |-> 0]]
Small(n) == ("cache_max_size" :> n) @@ ("gc_loop_delay" :> 0)
SmartInputs ==
    {[SmartBase EXCEPT !.entries = {"a", "b"}, !.int = Small(0)],
     [SmartBase EXCEPT !.int = Small(2), !.used = FALSE],
     [SmartBase EXCEPT !.entries = {}],
     [SmartBase EXCEPT !.lists = TRUE, !.below = {"b"}, !.int = Small(0)],
     [SmartBase EXCEPT !.faults = TRUE, !.int = Small(1)]}

\* The collector on, without and with the smart cache.
GcInputs == {[Bare EXCEPT !.int = "sc_loop_delay" :> 0],
             [SmartBase EXCEPT !.int = "cache_max_size" :> 1]}

AllInputs == ConfInputs \union PatternInputs \union SmartInputs \union GcInputs

ManyInputs == {[SmartBase EXCEPT !.entries = {"a", "b", "c"}, !.int = Small(0)]}
=============================================================================
