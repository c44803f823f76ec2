--------------------------- MODULE MCRadiometerRun --------------------------
(***************************************************************************)
(* RadiometerRun with a few configuration files and command lines: files   *)
(* the checks accept, with commands that abort the run or do not, and one  *)
(* for each way to be refused; rates and durations around one sample.      *)
(***************************************************************************)
EXTENDS RadiometerRun, TLC

MCText == {"", "Signal", "UHF_", "abort", "continue", "NL", "L", "set NL", "set L", "set final",
           "radiometer", "internal", "external", "sc16", "drop_newest",
           "N\"L", "N\\tL", "N L"}

\* A string with a quote ends the file, one with an escape is another when read.
MCReadBack == [t \in MCText |-> CASE t = "N\"L"  -> Bad
                                  [] t = "N\\tL" -> "N L"
                                  [] OTHER      -> t]

MCStep(s, n, fail) ==
    [state |-> s, prefix |-> s, count |-> n, duration_s |-> 2,
     state_cmd |-> "set " \o s, on_cmd_fail |-> fail]

MCBase == [MODE |-> "radiometer", rate |-> 5, max_stream_errors |-> 0, rx_channels |-> <<0, 1>>,
           final_state_cmd |-> "set final"]

MCAborting == MCBase @@ [sequence |-> <<MCStep("NL", 1, "abort"), MCStep("L", 1, "abort")>>]
MCContinuing == [MCBase EXCEPT !.max_stream_errors = -1] @@
                [sequence |-> <<MCStep("NL", 1, "continue")>>, clk_ref |-> "external",
                 chunk_secs |-> 12345]
MCBare == [MCBase EXCEPT !.final_state_cmd = ""] @@
          [sequence |-> <<[MCStep("NL", 1, "abort") EXCEPT !.state_cmd = ""]>>]
MCTwice == [MCBare EXCEPT !.sequence[1].count = 2]
MCEscaped == [MCTwice EXCEPT !.sequence[1].prefix = "N\\tL"]
MCQuoted == [MCTwice EXCEPT !.sequence[1].prefix = "N\"L"]

\* Less than a sample, a key that is none, and no sequence and no channel.
MCTooShort == [MCAborting EXCEPT !.sequence[2].duration_s = 1, !.rate = 4]
MCTypo == MCBase @@ [seqence |-> <<>>]
MCIdle == [rx_channels |-> <<Bad>>, rate |-> 5, sequence |-> Bad]

MCPlain == << [opt |-> "--config", val |-> "c"], [opt |-> "--save-loc", val |-> "d"] >>
MCLong == << [opt |-> "--duration", val |-> 1], [opt |-> "--config", val |-> "c"] >>
MCRepeat == << [opt |-> "--until-stopped", val |-> None], [opt |-> "--config", val |-> "c"] >>
MCHelp == << [opt |-> "--help", val |-> None] >>
MCNoValue == << [opt |-> "--ring-mb", val |-> 64], [opt |-> "--config", val |-> None] >>

MCJob(file, argv) == [file |-> file, argv |-> argv]

MCTwoRuns == {<<MCJob(MCBare, MCPlain), MCJob(MCBare, MCPlain)>>}

MCSchedules ==
    MCTwoRuns \cup
    {<<j>> : j \in
        {MCJob(MCAborting, MCPlain), MCJob(MCContinuing, MCPlain), MCJob(MCAborting, MCLong),
         MCJob(MCEscaped, MCPlain), MCJob(MCQuoted, MCRepeat), MCJob(MCIdle, MCPlain),
         MCJob(MCIdle, MCLong), MCJob(MCTooShort, MCPlain), MCJob(MCTypo, MCPlain),
         MCJob(Bad, MCPlain), MCJob(Bad, MCHelp), MCJob(Bad, MCNoValue)}}

MCErrors == {<<MCJob([MCTwice EXCEPT !.max_stream_errors = 1], MCPlain)>>}
=============================================================================
