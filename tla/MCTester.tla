------------------------------ MODULE MCTester ------------------------------
(* The stages and programs stages_test.go pairs, and this repository's own  *)
(* server; the values a reader meets, in pairs.                             *)
EXTENDS Tester

TheScenarios ==
  [stage : {"rg2"}, program : {"eof", "without_crlf", "slow_response", "string_type_mismatch",
                               "multiple_pongs", "invalid_resp", "ours"}]
  \cup [stage : {"values"}, program : {"writer"}]
  \cup [stage : {"vm3"}, program : {"wrong_pattern"}]
  \cup [stage : {"psync_rdb"}, program : {"ours"}]
  \cup [stage : {"ec3"}, program : {"blpop_all", "ours"}]
  \cup [stage : {"uv9"}, program : {"always_nopass_flag", "mistake_sha256", "ours"}]
  \cup [stage : {"pl7"}, program : {"literal_password", "ours"}]
  \cup [stage : {"nm2"}, program : {"wrong_error_pattern", "ours"}]
  \cup [stage : {"hz3", "ws7"}, program : {"ours"}]
  \cup [stage : {"yg4"}, program : {"retry", "ours"}]

\* Texts with CR and LF in them, empty ones, numbers, nil values and nesting.
SampleValues ==
  {Simple(<<"CR">>), Error(<<"ERR">>), Integer(-1), Bulk(<<>>), Bulk(<<"CR", "LF">>),
   Bulk(<<"+", "LF">>), Nil, NilArray, Array(<<>>),
   Array(<<Bulk(<<"$">>), Array(<<Nil, Integer(2)>>)>>)}
\* Numbers as a program need not write them.
Respelled == {<<":", "-0">> \o CRLF,
              <<"$", "02">> \o CRLF \o <<"CR", "LF">> \o CRLF,
              <<"*", "+1", "CR", "LF", ":", "+3", "CR", "LF">>}
SampleTexts == {Written(v) : v \in SampleValues} \cup Respelled
SamplePairs == {a \o b : a, b \in SampleTexts}
OtherSpellings == [s \in {"-0", "+1", "02", "+3"} |->
                     CASE s = "-0" -> 0 [] s = "+1" -> 1 [] s = "02" -> 2 [] s = "+3" -> 3]
TheConns == 1 .. 3
TheSymbols == STRING
=============================================================================
