---------------------------- MODULE Config_proofs ---------------------------
(***************************************************************************)
(* What the configuration's operators do to every file whose values have   *)
(* their types: the command line changes one field, the plan is a sequence *)
(* of steps, and config_effective.yaml says the same as the configuration  *)
(* it was written from, if all of that survives printing.                  *)
(***************************************************************************)
EXTENDS Config, TLAPS

\* The option --ring-mb changes its own field and no other.
LEMMA OverrideKeeps ==
    ASSUME NEW raw, NEW argv
    PROVE  LET c == FromFile(raw)  d == Override(c, argv)
           IN  /\ d = [key \in DOMAIN Defaults |-> d[key]]
               /\ \A key \in DOMAIN Defaults : key # "ring_mb" => d[key] = c[key]
               /\ d.ring_mb \in {c.ring_mb, OptionVal(argv, "--ring-mb")}
               /\ OptionVal(argv, "--ring-mb") = None => d.ring_mb = c.ring_mb
  <1> DEFINE c == FromFile(raw)  d == Override(c, argv)
  <1>1. c = [key \in DOMAIN Defaults |-> c[key]]
    BY DEF FromFile
  <1>2. "ring_mb" \in DOMAIN Defaults
    BY DEF Defaults
  <1> HIDE DEF c
  <1>3. /\ d = [key \in DOMAIN Defaults |-> d[key]]
        /\ \A key \in DOMAIN Defaults : key # "ring_mb" => d[key] = c[key]
    BY <1>1 DEF Override
  <1>4. /\ d.ring_mb \in {c.ring_mb, OptionVal(argv, "--ring-mb")}
        /\ OptionVal(argv, "--ring-mb") = None => d.ring_mb = c.ring_mb
    BY <1>1, <1>2 DEF Override
  <1>5. QED
    BY <1>3, <1>4 DEF c

LEMMA OverrideTyped ==
    ASSUME NEW raw, NEW argv, Typed(FromFile(raw)),
           OptionVal(argv, "--ring-mb") \in Int \cup {None}
    PROVE  Typed(Override(FromFile(raw), argv))
  <1> DEFINE c == FromFile(raw)  d == Override(c, argv)
  <1>1. /\ \A key \in DOMAIN Defaults : key # "ring_mb" => d[key] = c[key]
        /\ d.ring_mb \in {c.ring_mb, OptionVal(argv, "--ring-mb")}
        /\ OptionVal(argv, "--ring-mb") = None => d.ring_mb = c.ring_mb
    BY OverrideKeeps
  <1>2. {"MODE", "clk_ref", "cpu_format", "on_full", "final_state_cmd", "rate", "chunk_secs",
         "max_stream_errors", "rx_channels", "sequence"} \subseteq DOMAIN Defaults
    BY DEF Defaults
  <1> HIDE DEF c, d
  <1>3. Typed(c)
    BY DEF c
  <1>4. d.ring_mb \in Int
    BY <1>1, <1>3 DEF Typed
  <1>5. Typed(d)
    BY <1>1, <1>2, <1>3, <1>4 DEF Typed
  <1>6. QED
    BY <1>5 DEF c, d

\* The capture that --duration asks for.
LEMMA OneCaptureTyped ==
    ASSUME NEW d \in Int
    PROVE  [state |-> "Signal", prefix |-> "UHF_", count |-> 1, duration_s |-> d,
            state_cmd |-> Unset, on_cmd_fail |-> "continue"] \in StepType
  <1>1. "Signal" \in Text /\ "UHF_" \in Text /\ Unset \in Text /\ "continue" \in Text
    BY ConfigAssumption
  <1>2. QED
    BY <1>1 DEF StepType

-----------------------------------------------------------------------------
(* config_effective.yaml, read again *)

\* A value of its type is not the mark of a failed conversion.
LEMMA NotBad ==
    ASSUME NEW v \in Values
    PROVE  v # Bad
  BY BadAssumption

\* Typed, with every field a value.
LEMMA FieldsAreValues ==
    ASSUME NEW c, Typed(c)
    PROVE  \A key \in DOMAIN Defaults : c[key] \in Values
  <1>1. Text \subseteq Values
    BY ConfigAssumption DEF Values
  <1>2. \A key \in {"MODE", "clk_ref", "cpu_format", "on_full", "final_state_cmd"} :
            c[key] \in Values
    BY <1>1 DEF Typed
  <1>3. \A key \in {"rate", "chunk_secs", "ring_mb", "max_stream_errors"} : c[key] \in Values
    BY DEF Typed, Values
  <1>4. c.rx_channels \in Values /\ c.sequence \in Values
    BY DEF Typed, Values
  <1>5. DOMAIN Defaults = {"MODE", "clk_ref", "cpu_format", "on_full", "final_state_cmd",
                           "rate", "chunk_secs", "ring_mb", "max_stream_errors",
                           "rx_channels", "sequence"}
    BY DEF Defaults
  <1>6. QED
    BY <1>2, <1>3, <1>4, <1>5

\* A list of integers is read to its end.
LEMMA WholeList ==
    ASSUME NEW tokens \in Seq(Int)
    PROVE  IntPrefix(tokens) = tokens
  <1> DEFINE ends == {n \in 0 .. Len(tokens) : \A i \in 1 .. n : tokens[i] # Bad}
             last == CHOOSE n \in ends : \A k \in ends : k <= n
  <1>1. \A i \in 1 .. Len(tokens) : tokens[i] # Bad
    BY NotBad DEF Values
  <1>2. ends = 0 .. Len(tokens)
    BY <1>1
  <1>3. Len(tokens) \in ends /\ \A k \in ends : k <= Len(tokens)
    BY <1>2
  <1>4. last \in ends /\ \A k \in ends : k <= last
    BY <1>3
  <1>5. IntPrefix(tokens) = SubSeq(tokens, 1, last)
    BY DEF IntPrefix
  <1> HIDE DEF last
  <1>6. last = Len(tokens)
    <2>1. last <= Len(tokens) /\ Len(tokens) <= last /\ last \in Nat
      BY <1>2, <1>3, <1>4
    <2>2. QED
      BY <2>1
  <1>7. \A i \in 1 .. Len(tokens) : SubSeq(tokens, 1, Len(tokens))[i] = tokens[i]
    BY SMT
  <1>8. SubSeq(tokens, 1, Len(tokens)) = tokens
    BY <1>7, SMT
  <1>9. QED
    BY <1>5, <1>6, <1>8

\* A step is read as it was written.
LEMMA SameStep ==
    ASSUME NEW s \in StepType
    PROVE  /\ ReadStep(s) = s
           /\ \A key \in DOMAIN s : key \in DOMAIN StepDefaults /\ s[key] # Bad
  <1>1. DOMAIN s = DOMAIN StepDefaults /\ s = [key \in DOMAIN s |-> s[key]]
    BY DEF StepType, StepDefaults
  <1>2. \A key \in DOMAIN s : s[key] \in Values
    BY ConfigAssumption DEF StepType, Values
  <1>3. \A key \in DOMAIN s : ReadKey(s, key, StepDefaults[key]) = s[key]
    BY <1>2, NotBad DEF ReadKey
  <1>4. ReadStep(s) = [key \in DOMAIN s |-> s[key]]
    BY <1>1, <1>3 DEF ReadStep
  <1>5. QED
    BY <1>1, <1>2, <1>4, NotBad

\* A typed configuration has no failed value, in its steps either.
LEMMA TypedParses ==
    ASSUME NEW c, Typed(c), DOMAIN c = DOMAIN Defaults
    PROVE  Parses(c)
  <1>1. \A key \in DOMAIN c : c[key] # Bad
    BY FieldsAreValues, NotBad
  <1>2. ASSUME NEW i \in DOMAIN c.sequence, NEW key \in DOMAIN StepDefaults
        PROVE  c.sequence[i][key] # Bad
    <2>1. c.sequence[i] \in StepType
      BY DEF Typed
    <2>2. DOMAIN c.sequence[i] = DOMAIN StepDefaults
      BY <2>1 DEF StepType, StepDefaults
    <2>3. QED
      BY <2>1, <2>2, SameStep
  <1>3. QED
    BY <1>1, <1>2 DEF Parses

\* The file dump_effective writes has the configuration's fields, none failed.
LEMMA DumpKeys ==
    ASSUME NEW c, Typed(c), c = [key \in DOMAIN Defaults |-> c[key]], Survives(c),
           NEW duration \in Int \cup {None}
    PROVE  LET again == DumpEffective(c, duration)
           IN  /\ again # Bad
               /\ \A key \in DOMAIN again : key \in AllowedKeys /\ again[key] # Bad
               /\ \A key \in DOMAIN Defaults : key \in DOMAIN again /\ again[key] = c[key]
  <1> DEFINE keys == DOMAIN Defaults \cup (IF duration = None THEN {} ELSE {"duration_s"})
             again == DumpEffective(c, duration)
  <1>1. DOMAIN c = DOMAIN Defaults
    OBVIOUS
  <1>2. again = [key \in keys |-> IF key = "duration_s" THEN duration ELSE c[key]]
    BY <1>1, TypedParses DEF DumpEffective, Survives
  <1>3. "duration_s" \notin DOMAIN Defaults
    BY DEF Defaults
  <1>4. \A key \in DOMAIN Defaults : c[key] \in Values
    BY FieldsAreValues
  <1>5. ASSUME NEW key \in keys
        PROVE  (IF key = "duration_s" THEN duration ELSE c[key]) \in Values
    <2>1. CASE key = "duration_s"
      BY <1>3, <2>1 DEF Values
    <2>2. CASE key # "duration_s"
      BY <1>4, <2>2
    <2>3. QED
      BY <2>1, <2>2
  <1>6. again \in [keys -> Values]
    BY <1>2, <1>5
  <1>7. keys \in {DOMAIN Defaults, DOMAIN Defaults \cup {"duration_s"}}
    OBVIOUS
  <1>8. again # Bad
    BY <1>6, <1>7, BadAssumption
  <1>9. keys \subseteq AllowedKeys
    BY DEF AllowedKeys
  <1> HIDE DEF again
  <1>10. \A key \in DOMAIN again : key \in AllowedKeys /\ again[key] # Bad
    BY <1>6, <1>9, NotBad
  <1>11. \A key \in DOMAIN Defaults : key \in DOMAIN again /\ again[key] = c[key]
    BY <1>2, <1>3
  <1>12. QED
    BY <1>8, <1>10, <1>11 DEF again

\* Reading it gives the same fields.
LEMMA SameFields ==
    ASSUME NEW c, Typed(c), c = [key \in DOMAIN Defaults |-> c[key]], c.rx_channels # <<>>,
           NEW again,
           \A key \in DOMAIN Defaults : key \in DOMAIN again /\ again[key] = c[key]
    PROVE  FromFile(again) = c
  <1>1. \A key \in DOMAIN Defaults : ReadKey(again, key, Defaults[key]) = c[key]
    BY FieldsAreValues, NotBad DEF ReadKey
  <1>2. "sequence" \in DOMAIN Defaults /\ "rx_channels" \in DOMAIN Defaults
    BY DEF Defaults
  <1>3. c.sequence \in Seq(StepType) /\ c.rx_channels \in Seq(Int)
    BY DEF Typed
  <1>4. [i \in 1 .. Len(c.sequence) |-> ReadStep(c.sequence[i])] = c.sequence
    <2> DEFINE q == c.sequence
    <2>1. q \in Seq(StepType)
      BY <1>3
    <2> HIDE DEF q
    <2>2. \A i \in 1 .. Len(q) : q[i] \in StepType
      BY <2>1
    <2>3. \A i \in 1 .. Len(q) : ReadStep(q[i]) = q[i]
      BY <2>2, SameStep
    <2>4. [i \in 1 .. Len(q) |-> ReadStep(q[i])] = [i \in 1 .. Len(q) |-> q[i]]
      BY <2>3
    <2>5. [i \in 1 .. Len(q) |-> q[i]] = q
      BY <2>1
    <2>6. QED
      BY <2>4, <2>5 DEF q
  <1>5. IntPrefix(c.rx_channels) = c.rx_channels
    BY <1>3, WholeList
  <1> DEFINE Field(key) ==
               LET val == ReadKey(again, key, Defaults[key])
               IN  CASE key = "sequence"    -> [i \in 1 .. Len(val) |-> ReadStep(val[i])]
                     [] key = "rx_channels" -> IF val = <<>> THEN Defaults[key] ELSE IntPrefix(val)
                     [] OTHER               -> val
  <1>6. ASSUME NEW key \in DOMAIN Defaults
        PROVE  Field(key) = c[key]
    <2>1. CASE key = "sequence"
      BY <1>1, <1>2, <1>4, <2>1
    <2>2. CASE key = "rx_channels"
      BY <1>1, <1>2, <1>5, <2>2
    <2>3. CASE key \notin {"sequence", "rx_channels"}
      BY <1>1, <2>3
    <2>4. QED
      BY <2>1, <2>2, <2>3
  <1>7. FromFile(again) = [key \in DOMAIN Defaults |-> Field(key)]
    BY DEF FromFile
  <1> HIDE DEF Field
  <1>8. QED
    BY <1>6, <1>7

\* What config_effective.yaml says of an accepted configuration is accepted and
\* gives the same configuration, the fields changed on the command line included, if
\* each of its numbers and strings survives printing and a channel was left of the list.
THEOREM DumpReloads ==
    ASSUME NEW raw, NEW argv, FileAccepted(raw), Typed(FromFile(raw)),
           OptionVal(argv, "--ring-mb") \in Int \cup {None},
           NEW duration \in Int \cup {None}
    PROVE  LET c == Override(FromFile(raw), argv)
               again == DumpEffective(c, duration)
           IN  Valid(c, duration) /\ Survives(c) /\ c.rx_channels # <<>> =>
                  FileAccepted(again) /\ FromFile(again) = c
  <1> DEFINE f == FromFile(raw)
             c == Override(f, argv)
             again == DumpEffective(c, duration)
  <1> SUFFICES ASSUME Valid(c, duration), Survives(c), c.rx_channels # <<>>
               PROVE  FileAccepted(again) /\ FromFile(again) = c
    OBVIOUS
  <1>1. /\ c = [key \in DOMAIN Defaults |-> c[key]]
        /\ \A key \in DOMAIN Defaults : key # "ring_mb" => c[key] = f[key]
    BY OverrideKeeps
  <1>2. Typed(c)
    BY OverrideTyped
  <1>3. EnumsOK(f)
    BY DEF FileAccepted
  <1> HIDE DEF f, c, again
  <1>4. /\ again # Bad
        /\ \A key \in DOMAIN again : key \in AllowedKeys /\ again[key] # Bad
        /\ \A key \in DOMAIN Defaults : key \in DOMAIN again /\ again[key] = c[key]
    BY <1>1, <1>2, DumpKeys DEF again
  <1>5. FromFile(again) = c
    BY <1>1, <1>2, <1>4, SameFields
  <1>6. {"cpu_format", "on_full", "sequence"} \subseteq DOMAIN Defaults
    BY DEF Defaults
  <1>7. EnumsOK(c)
    BY <1>1, <1>3, <1>6 DEF EnumsOK
  <1>8. Valid(c, None)
    BY DEF Valid
  <1>9. WellFormed(again)
    <2>1. ReadKey(again, "sequence", <<>>) = c.sequence
      BY <1>4, <1>6 DEF ReadKey
    <2>2. c.sequence \in Seq(StepType)
      BY <1>2 DEF Typed
    <2>3. \A i \in DOMAIN c.sequence : c.sequence[i] \in StepType
      BY <2>2
    <2>4. QED
      BY <1>4, <2>1, <2>3, SameStep DEF WellFormed
  <1>10. QED
    BY <1>5, <1>7, <1>8, <1>9 DEF FileAccepted

=============================================================================
