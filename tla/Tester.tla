------------------------------- MODULE Tester -------------------------------
(***************************************************************************)
(* redis-tester: a stage runs its script against a program and passes      *)
(* judgement.  A step sends a command, or takes one value off a            *)
(* connection and checks it, or asserts which of a group of blocked        *)
(* clients is served.  Values are read in pieces, against deadlines; what  *)
(* a program writes may reach the tester at any pace.                      *)
(***************************************************************************)
EXTENDS AuthPrograms

VARIABLES
  at,         \* the step of the script under way
  pc,         \* where the step is
  attempt,    \* SendCommandTestCase.Run's attempt
  got,        \* the value read, ActualValue
  buf,        \* UnreadBuffer
  left,       \* clientsToProcess, rotated to the one to look at
  verdict,    \* "", "pass" or "fail"
  late,       \* history: a deadline passed while the program owed something
  seen        \* history: the values taken off each connection
testerVars == <<at, pc, attempt, got, buf, left, verdict, late, seen>>
vars == <<programVars, authVars, testerVars>>

-----------------------------------------------------------------------------
(* The scripts.                                                            *)

\* The assertions on a value: which values it accepts.
Exactly(v) == [kind |-> "exactly", value |-> v]
NoopAssertion == [kind |-> "any", value |-> Nil]
SimpleStringAssertion(word) == Exactly(Simple(<<word>>))
IntegerAssertion(n) == Exactly(Integer(n))
BulkStringAssertion(word) == Exactly(Bulk(<<word>>))
OrderedBulkStringArrayAssertion(words) == Exactly(Command(words))
CommandAssertion(words) == Exactly(Command(words))
OnlyCommandAssertion(word) == [kind |-> "command", value |-> Bulk(<<word>>)]
RegexAssertion == [kind |-> "fullresync", value |-> Nil]
PrefixAndSubstringsAssertion(type, prefix) ==
  [kind |-> "prefix", value |-> Value(type, prefix, <<>>)]
ArrayElementsAssertion(present, absent, hashes) ==
  [kind |-> "user", present |-> present, absent |-> absent, hashes |-> hashes]

ArrayHolds(v, i, element) == v.type = "*" /\ i <= Len(v.elems) /\ v.elems[i] = element
BulkStringPresent(v, word) == v.type = "*" /\ Bulk(<<word>>) \in ToSet(v.elems)
BulkStringAbsent(v, word)  == v.type = "*" /\ Bulk(<<word>>) \notin ToSet(v.elems)
\* The flags' and the passwords' assertions, in order, on the reply to GETUSER.
AssertsUser(want, v) ==
  /\ v.type = "*" /\ Len(v.elems) >= 4
  /\ ArrayHolds(v, 1, Bulk(<<"flags">>))
  /\ \A f \in want.present : BulkStringPresent(v.elems[2], f)
  /\ \A f \in want.absent : BulkStringAbsent(v.elems[2], f)
  /\ ArrayHolds(v, 3, Bulk(<<"passwords">>)) /\ ArrayHolds(v, 4, Command(want.hashes))

\* The regular expression is not anchored, but no text that is sent holds more
\* than what it may match.  The one bare command that is expected is REPLCONF,
\* and its arguments are looked at next.
Accepts(want, v) ==
  CASE want.kind = "any"        -> TRUE
    [] want.kind = "exactly"    -> v = want.value
    [] want.kind = "fullresync" -> v = Simple(<<"FULLRESYNC", "id40", "0">>)
    [] want.kind = "prefix"     -> v.type = want.value.type /\ IsPrefix(want.value.text, v.text)
    [] want.kind = "user"       -> AssertsUser(want, v)
    [] want.kind = "command"    ->
         /\ v.type = "*" /\ Len(v.elems) >= 3
         /\ v.elems[1] = want.value /\ v.elems[2] = Bulk(<<"capa">>)
         /\ Len(v.elems) = 5 => v.elems[4] = Bulk(<<"capa">>)

MaxRetries == 5
Step(do, on, value, want, skip, retries) ==
  [do |-> do, on |-> on, value |-> value, want |-> want, skip |-> skip, retries |-> retries]

Send(k, v) == Step("send", k, v, NoopAssertion, TRUE, 0)
Receive(k, want, skip, retries) == Step("take", k, Nil, want, skip, retries)
\* SendCommandTestCase, without retries.
Ask(k, words, want) == <<Send(k, Command(words)), Receive(k, want, FALSE, 0)>>
\* ReceiveCommandTestCase.
Serve(k, want, skip, reply) == <<Receive(k, want, skip, 0), Send(k, Simple(reply))>>

testPingPongOnce == Ask(1, <<"PING">>, SimpleStringAssertion("PONG"))

\* The tester as a replica.
RunPingStep == Ask(1, <<"PING">>, SimpleStringAssertion("PONG"))
RunReplconfStep ==
  Ask(1, <<"REPLCONF", "listening-port", "6380">>, SimpleStringAssertion("OK"))
  \o Ask(1, <<"REPLCONF", "capa", "psync2">>, SimpleStringAssertion("OK"))
RunPsyncStep == <<Send(1, Command(<<"PSYNC", "?", "-1">>)), Receive(1, RegexAssertion, TRUE, 0)>>
RunReceiveRDBStep == <<Step("rdb", 1, Nil, NoopAssertion, FALSE, 0)>>
testReplMasterPsync    == RunPingStep \o RunReplconfStep \o RunPsyncStep
testReplMasterPsyncRdb == testReplMasterPsync \o RunReceiveRDBStep

SendBlockingCommands ==
  [k \in 1..2 |-> Send(k, Command(<<"BLPOP", "foo", "0">>))]
  \o <<Step("sleep", 1, Nil, NoopAssertion, TRUE, 0)>>
testListBlpopNoTimeout ==
  SendBlockingCommands
  \o Ask(3, <<"RPUSH", "foo", "v">>, IntegerAssertion(1))
  \o <<Step("group", 1, Nil, OrderedBulkStringArrayAssertion(<<"foo", "v">>), FALSE, 0)>>

\* The tester as a master.
ReceivePing      == Serve(1, CommandAssertion(<<"PING">>), FALSE, <<"PONG">>)
ReceiveReplconf1 ==
  Serve(1, CommandAssertion(<<"REPLCONF", "listening-port", "6380">>), TRUE, <<"OK">>)
ReceiveReplconf2 == Serve(1, OnlyCommandAssertion("REPLCONF"), FALSE, <<"OK">>)
ReceivePsync     ==
  Serve(1, CommandAssertion(<<"PSYNC", "?", "-1">>), FALSE, <<"FULLRESYNC", "id40", "0">>)
RunSendRDBStep   == <<Send(1, RDBFile)>>
ReceiveHandshake ==
  ReceivePing \o ReceiveReplconf1 \o ReceiveReplconf2 \o ReceivePsync \o RunSendRDBStep

Pairs == <<<<"foo", "123">>, <<"bar", "456">>, <<"baz", "789">>>>
testReplCmdProcessing ==
  <<Step("accept", 1, Nil, NoopAssertion, TRUE, 0)>>
  \o ReceiveHandshake
  \o [i \in 1..3 |-> Send(1, Command(<<"SET", Pairs[i][1], Pairs[i][2]>>))]
  \o FlattenSeq([i \in 1..3 |->
       <<Send(2, Command(<<"GET", Pairs[i][1]>>)),
         Receive(2, BulkStringAssertion(Pairs[i][2]), FALSE, MaxRetries)>>])

\* The stages of authentication.
AclGetuser(present, absent, secrets) ==
  Ask(1, GetUser, ArrayElementsAssertion(present, absent, [i \in DOMAIN secrets |-> Sha256[secrets[i]]]))
AclSetuser      == Ask(1, SetUser(Rule["pw"]), SimpleStringAssertion("OK"))
AclWhoami(k)    == Ask(k, WhoAmI, BulkStringAssertion("default"))
AclWhoamiError  == Ask(2, WhoAmI, PrefixAndSubstringsAssertion("-", <<"NOAUTH", " ">>))
AuthRefused     == Ask(1, Auth("other"), PrefixAndSubstringsAssertion("-", <<"WRONGPASS", " ">>))
AuthAccepted(k) == Ask(k, Auth("pw"), SimpleStringAssertion("OK"))
SpawnNextClient == <<Step("dial", 2, Nil, NoopAssertion, TRUE, 0)>>

testGetUserPasswordsRetrieval == AclGetuser({"nopass"}, {}, <<>>)
testSetUserPassword ==
  AclGetuser({"nopass"}, {}, <<>>) \o AclSetuser \o AclGetuser({}, {"nopass"}, <<"pw">>)
testAuthCommandResponse == AclSetuser \o AuthRefused \o AuthAccepted(1)
testdefaultUserAuthentication == AclSetuser \o AclWhoami(1) \o SpawnNextClient \o AclWhoamiError
\* Two of four commands follow, drawn at random: these two.
testAuthenticatedClient ==
  Ask(2, <<"GET", "foo">>, Exactly(Nil)) \o Ask(2, <<"PING">>, SimpleStringAssertion("PONG"))
testAuthCommandAuthentication ==
  testdefaultUserAuthentication \o AuthAccepted(2) \o AclWhoami(2) \o testAuthenticatedClient

Script == [
  pl7       |-> testGetUserPasswordsRetrieval,
  uv9       |-> testSetUserPassword,
  hz3       |-> testAuthCommandResponse,
  nm2       |-> testdefaultUserAuthentication,
  ws7       |-> testAuthCommandAuthentication,
  rg2       |-> testPingPongOnce,
  values    |-> <<Receive(1, NoopAssertion, TRUE, 0), Receive(1, NoopAssertion, TRUE, 0)>>,
  vm3       |-> testReplMasterPsync,
  psync_rdb |-> testReplMasterPsyncRdb,
  ec3       |-> testListBlpopNoTimeout,
  yg4       |-> testReplCmdProcessing]

ASSUME TesterAssumption == \A sc \in Scenarios : sc.stage \in DOMAIN Script

-----------------------------------------------------------------------------
Init ==
  /\ ProgramInit /\ AuthInit
  /\ at = 1 /\ pc = "step" /\ attempt = 0 /\ got = Nil
  /\ buf = [k \in Conns |-> <<>>] /\ seen = buf
  /\ left = <<2, 1>>      \* the group's clients, PushFront one by one
  /\ verdict = "" /\ late = FALSE

Steps == Script[scenario.stage]
Now == Steps[at]
Doing(do) == verdict = "" /\ Now.do = do

\* After the last step the stage returns nil.
Advance ==
  /\ pc' = "step" /\ attempt' = 0
  /\ IF at = Len(Steps) THEN verdict' = "pass" /\ UNCHANGED at
     ELSE at' = at + 1 /\ UNCHANGED verdict
Fail == verdict' = "fail" /\ UNCHANGED <<at, pc, attempt>>

SendStep ==
  /\ Doing("send")
  /\ inbox' = [inbox EXCEPT ![Now.on] = Append(@, Now.value)]
  /\ at' = at + 1
  /\ UNCHANGED <<scenario, wire, sent, chunks, db, requested, waiters, awaited, after, chan, link>>
  /\ UNCHANGED <<authVars, pc, attempt, got, buf, left, verdict, late, seen>>

\* listener.Accept, which has no deadline.
Accept ==
  /\ Doing("accept") /\ link # 0
  /\ Advance
  /\ UNCHANGED <<programVars, authVars, got, buf, left, late, seen>>

\* SpawnNextClient connects; the program accepts when it will.
Dial ==
  /\ Doing("dial") /\ user[Now.on] = "none"
  /\ user' = [user EXCEPT ![Now.on] = "new"]
  /\ Advance
  /\ UNCHANGED <<programVars, passwords, got, buf, left, late, seen>>

\* SendBlockingCommands waits a millisecond for the clients to block.
SleepStep ==
  /\ Doing("sleep")
  /\ Advance
  /\ late' = (late \/ Owes(1) \/ Owes(2))
  /\ UNCHANGED <<programVars, authVars, got, buf, left, seen>>

-----------------------------------------------------------------------------
(* Reading a value.  Each read waits a millisecond at most and may return  *)
(* any part of what the program wrote, or nothing.                         *)

Reader == IF Now.do = "group" THEN Head(left) ELSE Now.on
Reading ==
  /\ verdict = ""
  /\ \/ Now.do \in {"take", "rdb"} /\ pc \in {"step", "polled"}
     \/ Now.do = "group" /\ pc \in {"reading", "polled"}

\* ReadIntoBuffer: n symbols more.
Filled(k, n) == buf[k] \o SubSeq(wire[k], 1, n)
Drain(k, n) ==
  /\ wire' = [wire EXCEPT ![k] = SubSeq(@, n + 1, Len(@))]
  /\ UNCHANGED <<scenario, inbox, sent, chunks, db, requested, waiters, awaited, after, chan, link>>
  /\ UNCHANGED authVars

\* A whole value leaves the buffer and what follows it stays; an invalid one is
\* an error; for the rest of an incomplete one the reads go on, 10 ms apart,
\* until the deadline.
Read(k, n) ==
  LET s == Filled(k, n) IN
  /\ Reading /\ k = Reader
  /\ Drain(k, n)
  /\ \E d \in {IF Now.do = "rdb" THEN DecodeFullResyncRDBFile(s) ELSE Decode(s)} :
       \/ /\ d.res = "value"
          /\ buf' = [buf EXCEPT ![k] = SubSeq(s, d.next, Len(s))]
          /\ got' = d.value /\ seen' = [seen EXCEPT ![k] = Append(@, d.value)]
          /\ pc' = "got"
          /\ UNCHANGED <<at, attempt, verdict>>
       \/ /\ d.res = "invalid"
          /\ buf' = [buf EXCEPT ![k] = s]
          /\ Fail
          /\ UNCHANGED <<got, seen>>
       \/ /\ d.res = "incomplete"
          /\ buf' = [buf EXCEPT ![k] = s]
          /\ pc' = "polled"
          /\ UNCHANGED <<at, attempt, got, verdict, seen>>
  /\ UNCHANGED <<left, late>>

\* Wrong: waits on while nothing at all has come.
GiveUpOnPart ==
  /\ Reading /\ pc = "polled" /\ buf[Reader] # <<>>
  /\ Fail
  /\ late' = (late \/ Owes(Reader))
  /\ UNCHANGED <<programVars, authVars, got, buf, left, seen>>

\* Two seconds have passed; the incomplete value is an error.
GiveUp ==
  /\ Reading /\ pc = "polled"
  /\ Fail
  /\ late' = (late \/ Owes(Reader))
  /\ UNCHANGED <<programVars, authVars, got, buf, left, seen>>

-----------------------------------------------------------------------------
(* With the value in hand.                                                 *)

Wanting == verdict = "" /\ pc = "got"
Retryable == Now.retries > 0 /\ got.type = "nil" /\ attempt < Now.retries

\* Wrong: the attempts are not counted.
RetryForever ==
  /\ Wanting /\ Now.retries > 0 /\ got.type = "nil"
  /\ at' = at - 1 /\ pc' = "step" /\ attempt' = attempt + 1
  /\ late' = (late \/ inbox[1] # <<>>)
  /\ UNCHANGED <<programVars, authVars, got, buf, left, verdict, seen>>

\* A nil answer is asked for again, half a second later.  A SET that is still
\* not applied then is late.
Retry ==
  /\ Wanting /\ Retryable
  /\ at' = at - 1 /\ pc' = "step" /\ attempt' = attempt + 1
  /\ late' = (late \/ inbox[1] # <<>>)
  /\ UNCHANGED <<programVars, authVars, got, buf, left, verdict, seen>>

Refuse ==
  /\ Wanting /\ ~Retryable /\ ~Accepts(Now.want, got)
  /\ Fail
  /\ UNCHANGED <<programVars, authVars, got, buf, left, late, seen>>

\* A client of the group that is served leaves the list.
Approved == IF Now.do = "group"
            THEN pc' = "rest" /\ left' = Tail(left) /\ UNCHANGED <<at, attempt, verdict>>
            ELSE Advance /\ UNCHANGED left

\* ShouldSkipUnreadDataCheck.
Approve ==
  /\ Wanting /\ ~Retryable /\ Accepts(Now.want, got) /\ Now.skip
  /\ Approved
  /\ UNCHANGED <<programVars, authVars, got, buf, late, seen>>

\* Wrong: does not look for extra data.
ApproveAnyway(k, n) ==
  /\ Wanting /\ k = Reader /\ ~Retryable /\ Accepts(Now.want, got) /\ ~Now.skip
  /\ n = 0
  /\ Approved
  /\ UNCHANGED <<programVars, authVars, got, buf, late, seen>>

\* One more read must find nothing.
ApproveUnlessExtra(k, n) ==
  /\ Wanting /\ k = Reader /\ ~Retryable /\ Accepts(Now.want, got) /\ ~Now.skip
  /\ Drain(k, n)
  /\ buf' = [buf EXCEPT ![k] = Filled(k, n)]
  /\ late' = (late \/ Owes(k)')
  /\ IF Filled(k, n) = <<>> THEN Approved ELSE Fail /\ UNCHANGED left
  /\ UNCHANGED <<got, seen>>

-----------------------------------------------------------------------------
(* AssertResponses: one client of the group is served and the rest are not. *)

\* expectClientResponses looks at one client after the other, round and round.
PollClient(k, n) ==
  /\ Doing("group") /\ pc = "step" /\ k = Head(left)
  /\ Drain(k, n)
  /\ buf' = [buf EXCEPT ![k] = Filled(k, n)]
  /\ IF Filled(k, n) = <<>> THEN left' = Tail(left) \o <<k>> /\ UNCHANGED pc
     ELSE pc' = "reading" /\ UNCHANGED left
  /\ UNCHANGED <<at, attempt, got, verdict, late, seen>>

\* Two seconds without an answer.
GroupTimeout ==
  /\ Doing("group") /\ pc \in {"step", "polled"}
  /\ Fail
  /\ late' = (late \/ \E k \in Conns : Owes(k))
  /\ UNCHANGED <<programVars, authVars, got, buf, left, seen>>

\* NoResponseTestCase.
NoResponse(k, n) ==
  /\ Doing("group") /\ pc = "rest" /\ left # <<>> /\ k = Head(left)
  /\ Drain(k, n)
  /\ buf' = [buf EXCEPT ![k] = Filled(k, n)]
  /\ late' = (late \/ Owes(k)')
  /\ IF Filled(k, n) = <<>> THEN left' = Tail(left) /\ UNCHANGED verdict
     ELSE verdict' = "fail" /\ UNCHANGED left
  /\ UNCHANGED <<at, pc, attempt, got, seen>>
AllQuiet ==
  /\ Doing("group") /\ pc = "rest" /\ left = <<>>
  /\ Advance
  /\ UNCHANGED <<programVars, authVars, got, buf, left, late, seen>>

-----------------------------------------------------------------------------
Proceed ==
  \/ SendStep \/ Accept \/ Dial \/ SleepStep \/ Retry \/ Refuse \/ Approve \/ AllQuiet
  \/ \E k \in Conns : \E n \in 0 .. Len(wire[k]) :
       \/ Read(k, n) \/ ApproveUnlessExtra(k, n) \/ PollClient(k, n) \/ NoResponse(k, n)

TesterNext == Proceed \/ GiveUp \/ GroupTimeout

Next ==
  \/ TesterNext
  \/ ProgramNext /\ UNCHANGED <<authVars, testerVars>>
  \/ AuthNext /\ UNCHANGED testerVars

\* The tester runs on, and its deadlines expire.  A program need do nothing.
Spec == Init /\ [][Next]_vars /\ WF_vars(Proceed) /\ WF_vars(GiveUp) /\ WF_vars(GroupTimeout)

-----------------------------------------------------------------------------
(* Properties.                                                             *)

\* Every variable keeps to its type: the attempts stay within the retries, and
\* a client leaves the group's list once.
TypeOK ==
  /\ scenario \in Scenarios
  /\ at \in 1 .. Len(Steps)
  /\ pc \in {"step", "polled", "got", "reading", "rest"}
  /\ attempt \in 0 .. MaxRetries
  /\ verdict \in {"", "pass", "fail"} /\ late \in BOOLEAN
  /\ ToSet(left) \subseteq {1, 2} /\ Cardinality(ToSet(left)) = Len(left)
  /\ link \in 0 .. Handshaken
  /\ \A k \in Conns : after[k] \in {"", "rdb", "wait", "register", "notify"}

\* However the bytes of a connection are cut into reads, the values the tester
\* takes off it are those written, in order: nothing is lost, split or joined
\* between UnreadBuffer and the decoder (connection.go's ReadValueWithTimeout).
\* What it has not taken is a last part of what was written; the first part is
\* the values taken, texts as they are and numbers in a spelling Atoi takes.
ReadsExact ==
  \A k \in Conns :
    LET unread == buf[k] \o wire[k]
        n == Len(sent[k]) - Len(unread)
    IN  /\ Matches(SubSeq(sent[k], 1, n), FormAll(seen[k]))
        /\ SubSeq(sent[k], n + 1, Len(sent[k])) = unread

\* The programs that stages_test.go expects to fail; those that answer wrongly
\* cannot pass, those that answer too much pass when the excess is late.
Wrong     == {"eof", "without_crlf", "string_type_mismatch", "invalid_resp", "wrong_pattern",
              "always_nopass_flag", "literal_password", "mistake_sha256", "wrong_error_pattern"}
Excessive == {"multiple_pongs", "blpop_all"}

\* A stage's verdict on a program is the one stages_test.go expects of it, in
\* every interleaving and segmentation, unless a deadline of the tester passed
\* while the program still owed it something.
VerdictAsExpected ==
  /\ verdict = "pass" => program \notin Wrong /\ (program \in Excessive => late)
  /\ verdict = "fail" => program \in Wrong \cup Excessive \/ late

\* Whatever the program does or fails to do, the stage ends: every wait has a
\* deadline, but for that of yg4's Accept on the replica's connection.
VerdictComes == (scenario.stage = "yg4" => link # 0) ~> verdict # ""
=============================================================================
