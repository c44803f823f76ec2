------------------------------- MODULE Config -------------------------------
(***************************************************************************)
(* The configuration of a run (DataCollection/src/common/config.cpp and    *)
(* config.hpp) and the command line that overrides it (main.cpp).          *)
(*                                                                         *)
(* A YAML file is a function from the keys it has to their values.  The    *)
(* sections are flattened, since a key belongs to one section, and of the  *)
(* keys those are kept that decide what a run does.  Durations are whole   *)
(* multiples of 1/Scale s, rates whole samples per second.                 *)
(***************************************************************************)
EXTENDS Integers, Sequences

CONSTANTS Bad,        \* a value that does not convert, a file that does not parse
          None,       \* an option without its value, an override that is not given
          Text,       \* the strings of configurations
          ReadBack,   \* what yaml-cpp reads where a string was written between quotes
          Scale,      \* a power of ten: a duration has the digits of its multiple
          Digits      \* the significant digits of a number printed with %.10g: 10

\* The empty string: a label or command that is left out.
Unset == ""

ASSUME ConfigAssumption ==
    /\ Scale \in Nat \ {0}
    /\ {Unset, "Signal", "UHF_", "abort", "continue"} \subseteq Text
    /\ Text \subseteq STRING

ASSUME PrintAssumption ==
    /\ \E k \in 0 .. Scale : Scale = 10 ^ k
    /\ Digits \in Nat \ {0}
    /\ ReadBack \in [Text -> Text \cup {Bad}]

Defaults == [MODE |-> "radiometer", clk_ref |-> "internal", rx_channels |-> <<0, 1>>,
             cpu_format |-> "sc16", ring_mb |-> 8192, on_full |-> "drop_newest",
             rate |-> 20000000, chunk_secs |-> 10 * Scale, max_stream_errors |-> 10,
             final_state_cmd |-> Unset, sequence |-> <<>>]

StepDefaults == [state |-> Unset, prefix |-> Unset, count |-> 1, duration_s |-> 2 * Scale,
                 state_cmd |-> Unset, on_cmd_fail |-> "abort"]

StepType == [state : Text, prefix : Text, count : Int, duration_s : Int,
             state_cmd : Text, on_cmd_fail : Text]

\* What a setting can be.
Values == Int \cup STRING \cup Seq(Int) \cup Seq(StepType)

\* The mark of a failed conversion is neither a value nor a file of values.
ASSUME BadAssumption ==
    /\ Bad \notin Values
    /\ \A keys \in {DOMAIN Defaults, DOMAIN Defaults \cup {"duration_s"}} :
          Bad \notin [keys -> Values]

AllowedKeys_NoEcho == DOMAIN Defaults \cup {"_derived"}

\* duration_s is not a setting of a file, but dump_effective writes it.
AllowedKeys == DOMAIN Defaults \cup {"_derived", "duration_s"}

\* What a typed reader leaves in a field: the value read, or the default.
ReadKey(raw, key, default) ==
    IF key \in DOMAIN raw /\ raw[key] # Bad THEN raw[key] ELSE default

\* "0 1" is read up to the first token that is no integer.
IntPrefix(tokens) ==
    LET ends == {n \in 0 .. Len(tokens) : \A i \in 1 .. n : tokens[i] # Bad}
    IN  SubSeq(tokens, 1, CHOOSE n \in ends : \A k \in ends : k <= n)

ReadStep(raw) == [key \in DOMAIN StepDefaults |-> ReadKey(raw, key, StepDefaults[key])]

\* The fields after from_file; an empty list of channels leaves the default.
FromFile(raw) ==
    [key \in DOMAIN Defaults |->
       LET val == ReadKey(raw, key, Defaults[key])
       IN  CASE key = "sequence"    -> [i \in 1 .. Len(val) |-> ReadStep(val[i])]
             [] key = "rx_channels" -> IF val = <<>> THEN Defaults[key] ELSE IntPrefix(val)
             [] OTHER               -> val]

\* The typed readers leave a value of its type in every field.
Typed(c) ==
    /\ \A key \in {"MODE", "clk_ref", "cpu_format", "on_full", "final_state_cmd"} :
          c[key] \in Text
    /\ \A key \in {"rate", "chunk_secs", "ring_mb", "max_stream_errors"} : c[key] \in Int
    /\ c.rx_channels \in Seq(Int)
    /\ c.sequence \in Seq(StepType)

\* check_keys and the readers, over the file and the steps of its sequence.  A
\* sequence that is no list is no error: it is ignored, as are the keys no one reads.
WellFormed(raw) ==
    LET Ignored == {"sequence", "_derived", "duration_s"}
        Readable(map, allowed) ==
          \A key \in DOMAIN map : key \in allowed /\ (map[key] # Bad \/ key \in Ignored)
        steps == ReadKey(raw, "sequence", <<>>)
    IN  /\ raw # Bad
        /\ Readable(raw, AllowedKeys)
        /\ \A i \in DOMAIN steps : Readable(steps[i], DOMAIN StepDefaults)

EnumsOK(c) ==
    /\ c.cpu_format \in {"fc32", "sc16", "sc8"}
    /\ c.on_full = "drop_newest"
    /\ \A i \in DOMAIN c.sequence : c.sequence[i].on_cmd_fail \in {"abort", "continue"}

\* llround(duration_s * rate), for the positive values it is used with.
Samples(duration, rate) == (2 * duration * rate + Scale) \div (2 * Scale)

StepOK_AnyLength(c, s) == s.duration_s > 0 /\ s.count > 0

StepOK(c, s) == /\ s.duration_s > 0
                /\ s.count > 0
                /\ c.rate > 0 => Samples(s.duration_s, c.rate) >= 1

\* validate: on_full is fixed, and an empty sequence is only a warning.
Valid(c, duration) ==
    /\ c.MODE = "radiometer"
    /\ c.rate > 0
    /\ \A i \in DOMAIN c.sequence : StepOK(c, c.sequence[i])
    /\ duration # None => duration > 0
    /\ c.on_full = "drop_newest"

\* The limit is converted to an unsigned number: below zero it is none.
TooMany(c, errors) == c.max_stream_errors >= 0 /\ errors > c.max_stream_errors

\* from_file reports no error; it validates before the command line is applied.
FileAccepted(raw) ==
    WellFormed(raw) /\ EnumsOK(FromFile(raw)) /\ Valid(FromFile(raw), None)

-----------------------------------------------------------------------------
(* The command line: a sequence of options, each with its value or None. *)

ValuedOptions == {"--config", "--duration", "--ring-mb", "--save-loc"}

Ends(o) == o.opt # "--until-stopped" /\ (o.opt \notin ValuedOptions \/ o.val = None)

\* The value of the last occurrence of an option.
OptionVal(argv, opt) ==
    LET at == {i \in DOMAIN argv : argv[i].opt = opt}
    IN  IF at = {} THEN None ELSE argv[CHOOSE i \in at : \A j \in at : j <= i].val

\* How the loop over argv ends: with help, an error, or the options read.
Verdict(argv) ==
    LET ends == {i \in DOMAIN argv : Ends(argv[i])}
    IN  IF ends # {}
        THEN IF argv[CHOOSE i \in ends : \A j \in ends : i <= j].opt = "--help"
             THEN "help" ELSE "refused"
        ELSE IF OptionVal(argv, "--config") = None THEN "refused" ELSE "read"

Duration(argv) == OptionVal(argv, "--duration")

UntilStopped(argv) == \E i \in DOMAIN argv : argv[i].opt = "--until-stopped"

\* set_ring_mb; --duration is kept apart from the fields of the file.
Override(c, argv) == IF OptionVal(argv, "--ring-mb") = None THEN c
                     ELSE [c EXCEPT !.ring_mb = OptionVal(argv, "--ring-mb")]

\* The sequence the driver runs: --duration replaces it by one capture.
PlanOf(c, duration) ==
    IF duration = None THEN c.sequence
    ELSE << [state |-> "Signal", prefix |-> "UHF_", count |-> 1, duration_s |-> duration,
             state_cmd |-> Unset, on_cmd_fail |-> "continue"] >>

-----------------------------------------------------------------------------
(* config_effective.yaml *)

\* num: rounded to Digits significant digits, a tie to the even one.
Num(v) ==
    LET Rounded(n) ==
          LET unit == 10 ^ (CHOOSE k \in 0 .. n : /\ n < 10 ^ (Digits + k)
                                                 /\ (k = 0 \/ n >= 10 ^ (Digits + k - 1)))
              down == n \div unit
              rest == 2 * (n % unit)
          IN  unit * (IF rest > unit \/ (rest = unit /\ down % 2 = 1) THEN down + 1 ELSE down)
    IN  IF v < 0 THEN - Rounded(- v) ELSE Rounded(v)

PrintedStep(s) ==
    [key \in DOMAIN s |-> CASE key = "count"      -> s[key]
                            [] key = "duration_s" -> Num(s[key])
                            [] OTHER              -> ReadBack[s[key]]]

\* What the lines of dump_effective say to one who reads them: numbers may have
\* lost digits, strings are written between quotes but not escaped.
Printed(c) ==
    [key \in DOMAIN c |->
       CASE key \in {"rate", "chunk_secs", "ring_mb"}       -> Num(c[key])
         [] key \in {"rx_channels", "max_stream_errors"}    -> c[key]
         [] key = "sequence" -> [i \in DOMAIN c.sequence |-> PrintedStep(c.sequence[i])]
         [] OTHER                                           -> ReadBack[c[key]]]

\* A string with a quote or a backslash in it may end the file for the parser.
Parses(printed) ==
    /\ \A key \in DOMAIN printed : printed[key] # Bad
    /\ \A i \in DOMAIN printed.sequence : \A key \in DOMAIN StepDefaults :
          printed.sequence[i][key] # Bad

\* Every number has few enough digits, and every string none to escape.
Survives(c) == Printed(c) = c

\* dump_effective, as a file that can be read again.  Its duration_s is not read,
\* and so its digits do not matter.
DumpEffective(c, duration) ==
    IF ~ Parses(Printed(c)) THEN Bad
    ELSE [key \in DOMAIN c \cup (IF duration = None THEN {} ELSE {"duration_s"}) |->
            IF key = "duration_s" THEN duration ELSE Printed(c)[key]]
=============================================================================
