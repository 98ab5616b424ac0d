------------------------------ MODULE Sessions ------------------------------
(***************************************************************************)
(* Connections: how serveCommands and the handlers take commands out of a  *)
(* stream of bytes, and the users they ask about.                          *)
(*                                                                         *)
(* A client sends its program as RESP arrays; the model's unit is a line.  *)
(* A bufio.Reader asks the socket for more only when it is empty, and gets *)
(* some of what has been sent; reader.Buffered() is what is left of that,  *)
(* so the end of RPUSH, LPOP and SET depends on how the bytes arrived.     *)
(* A handler that needs a line and finds none waits for it.                *)
(***************************************************************************)
EXTENDS Integers, SequencesExt

CONSTANTS
  Conns,
  Programs,    \* the commands of each connection: functions to sequences of commands
  InPieces,    \* bound: programs whose bytes may be cut between any two lines;
               \* the others arrive in whole commands
  Secret       \* arguments that begin with ">", and the password behind it

Nobody  == ""
Default == "default"          \* the only user there is: nothing stores another

ASSUME SessionsAssumption ==
  /\ \A p \in Programs : p \in [Conns -> Seq(Seq(STRING))]
  /\ \A w \in DOMAIN Secret : w \in STRING /\ Secret[w] \in STRING

VARIABLES
  up,
  program,    \* what each connection's client sends
  open,       \* connections that have been accepted
  closed,     \* clients that have closed their end
  ended,      \* connections serveCommands has returned from
  sent,       \* lines the client has sent
  got,        \* lines the reader has taken from the socket
  read,       \* lines ReadString has returned
  handler,    \* [name, lines]: the command being read, and what of it
  authUser,
  passwords, nopass,     \* the default user's Passwords; "nopass" in its Flags
  update,     \* SETUSER: [step, seen, new]: its unlocked accesses under way
  \* history
  executed,   \* the commands the handlers have carried out
  refused,    \* connections that have been told NOAUTH
  whole,      \* connections whose reads each brought exactly one command
  overlap     \* TRUE once two SETUSERs have been under way at a time

stream  == <<open, closed, ended, sent, got, read, handler, whole>>
account == <<passwords, nopass, update, overlap>>
vars == <<up, program, stream, authUser, account, executed, refused>>

NoHandler == [name |-> "", lines |-> <<>>]
NoUpdate  == [step |-> "", seen |-> <<>>, new |-> ""]

Init ==
  /\ up = TRUE /\ program \in Programs
  /\ open = {} /\ closed = {} /\ ended = {}
  /\ sent = [c \in Conns |-> 0] /\ got = sent /\ read = sent
  /\ handler = [c \in Conns |-> NoHandler]
  /\ authUser = [c \in Conns |-> Nobody]
  /\ passwords = <<>> /\ nopass = TRUE
  /\ update = [c \in Conns |-> NoUpdate]
  /\ executed = [c \in Conns |-> <<>>]
  /\ refused = {} /\ whole = Conns /\ overlap = FALSE

-----------------------------------------------------------------------------
(* The bytes.                                                              *)

\* The lines of a command: its length, and two lines for each word.
Lines(cmd) == [i \in 1..(2 * Len(cmd) + 1) |->
  IF i = 1 THEN "*" ELSE IF i % 2 = 0 THEN "$" ELSE cmd[i \div 2]]

\* The lines of the first n commands.
FirstLines(cmds) ==
  LET Of[n \in 0..Len(cmds)] == IF n = 0 THEN <<>> ELSE Of[n - 1] \o Lines(cmds[n]) IN Of

\* What a connection may have to send.
Scripts == {p[c] : p \in Programs, c \in Conns}

TextOf == [cmds \in Scripts |-> FirstLines(cmds)]

Text(c) == TextOf[program[c]][Len(program[c])]

\* Where the first commands of a program end.
End(c, n) == Len(TextOf[program[c]][n])
Ends(c)   == {End(c, n) : n \in 0..Len(program[c])}

Buffered(c) == got[c] - read[c]

Send(c) ==
  /\ c \in open \ closed /\ sent[c] < Len(Text(c))
  /\ sent' = [sent EXCEPT ![c] = Min({e \in Ends(c) : e > sent[c]})]
  /\ UNCHANGED <<up, program, open, closed, ended, got, read, handler, whole, authUser,
                 account, executed, refused>>

Close(c) ==
  /\ c \in open \ closed /\ sent[c] = Len(Text(c))
  /\ closed' = closed \union {c}
  /\ UNCHANGED <<up, program, open, ended, sent, got, read, handler, whole, authUser,
                 account, executed, refused>>

-----------------------------------------------------------------------------
(* The arguments each handler reads.                                       *)

Args(c) == [i \in 1..(Len(handler[c].lines) \div 2) |-> handler[c].lines[2 * i]]

NoArgument     == {"PING"}
OneArgument    == {"ECHO", "GET", "KEYS", "INFO", "LLEN", "ZCARD"}
TwoArguments   == {"SET", "AUTH", "CONFIG", "ZRANK", "ZSCORE", "ZREM"}
ThreeArguments == {"LRANGE", "ZRANGE", "GEODIST"}
WhileBuffered  == {"RPUSH", "LPUSH", "GEOPOS"}
Names == NoArgument \union OneArgument \union TwoArguments \union ThreeArguments
           \union WhileBuffered \union {"LPOP", "GEOADD", "GEOSEARCH", "ACL"}

\* The handlers that ask CheckAuth.
Guarded == Names \ {"AUTH", "ZRANK", "ZSCORE", "ZREM", "ZRANGE", "ZCARD",
                    "GEOADD", "GEOPOS", "GEODIST", "GEOSEARCH"}

\* Arguments read whatever is buffered; ACL's depend on the subcommand.  What
\* HandleSet reads behind its answer are handlers of their own: SET-OPTION, PX.
Needed(name, args) ==
  CASE name \in NoArgument -> 0
    [] name \in OneArgument \union {"SET-OPTION", "PX", "RPUSH", "LPUSH", "LPOP", "GEOPOS"} -> 1
    [] name \in TwoArguments -> 2
    [] name \in ThreeArguments -> 3
    [] name = "GEOADD" -> 4
    [] name = "GEOSEARCH" -> 7
    [] name = "ACL" -> IF args = <<>> \/ args[1] = "WHOAMI" THEN 1
                       ELSE IF args[1] = "GETUSER" THEN 2
                       ELSE IF args[1] = "SETUSER" THEN 3 ELSE 1

\* Wrong: every handler reads on while something is buffered.
MoreWhileBuffered(c) ==
  LET n == Len(handler[c].lines) IN
  n % 2 = 1 \/ n < 2 * Needed(handler[c].name, Args(c)) \/ Buffered(c) > 0

\* Wrong: LPOP waits for a count.
MoreForLPop(c) ==
  LET n == Len(handler[c].lines)
      name == handler[c].name IN
  \/ n % 2 = 1
  \/ n < 2 * Needed(name, Args(c))
  \/ name \in WhileBuffered /\ Buffered(c) > 0
  \/ name = "LPOP" /\ n = 2

\* The handler reads another line: the second of a pair, a needed argument, or
\* one more because something is buffered.
More(c) ==
  LET n == Len(handler[c].lines)
      name == handler[c].name IN
  \/ n % 2 = 1
  \/ n < 2 * Needed(name, Args(c))
  \/ name \in WhileBuffered /\ Buffered(c) > 0
  \/ name = "LPOP" /\ n = 2 /\ Buffered(c) > 0

Busy(c) == handler[c] # NoHandler

\* A line is wanted and none is buffered.
Starved(c) == c \in open \ ended /\ Buffered(c) = 0 /\ (Busy(c) => More(c))

\* bufio.Reader's fill: some of what has arrived.
Fill(c, n) ==
  /\ up /\ Starved(c)
  /\ n \in (got[c] + 1)..sent[c] /\ (program[c] \in InPieces \/ n \in Ends(c))
  /\ got' = [got EXCEPT ![c] = n]
  /\ whole' = IF got[c] \in Ends(c) /\ {e \in Ends(c) : got[c] < e /\ e <= n} = {n}
              THEN whole ELSE whole \ {c}
  /\ UNCHANGED <<up, program, open, closed, ended, sent, read, handler, authUser,
                 account, executed, refused>>

NextLine(c) == Text(c)[read[c] + 1]

-----------------------------------------------------------------------------
(* serveCommands.                                                          *)

\* The default user, if it has no password.
UserAtAccept == IF passwords = <<>> THEN Default ELSE Nobody

Accept(c) ==
  /\ up /\ c \notin open
  /\ open' = open \union {c}
  /\ authUser' = [authUser EXCEPT ![c] = UserAtAccept]
  /\ UNCHANGED <<up, program, closed, ended, sent, got, read, handler, whole, account,
                 executed, refused>>

\* A line that names no command is skipped: the lengths, and whatever a handler
\* has left.  CheckAuth comes before the arguments are read.
ReadCommand(c) ==
  /\ up /\ ~Busy(c) /\ Buffered(c) > 0
  /\ read' = [read EXCEPT ![c] = @ + 1]
  /\ IF NextLine(c) \in Names /\ (authUser[c] # Nobody \/ NextLine(c) \notin Guarded)
       THEN /\ handler' = [handler EXCEPT ![c] = [name |-> NextLine(c), lines |-> <<>>]]
            /\ UNCHANGED refused
       ELSE /\ refused' = IF NextLine(c) \in Names THEN refused \union {c} ELSE refused
            /\ UNCHANGED handler
  /\ UNCHANGED <<up, program, open, closed, ended, sent, got, whole, authUser, account,
                 executed>>

ReadArgument(c) ==
  /\ up /\ Busy(c) /\ More(c) /\ Buffered(c) > 0
  /\ read' = [read EXCEPT ![c] = @ + 1]
  /\ handler' = [handler EXCEPT ![c].lines = Append(@, NextLine(c))]
  /\ UNCHANGED <<up, program, open, closed, ended, sent, got, whole, authUser, account,
                 executed, refused>>

\* Wrong: takes an empty socket for the end.
EndOfFileAtOnce(c) ==
  /\ up /\ Starved(c) /\ got[c] = sent[c]
  /\ ended' = ended \union {c}
  /\ handler' = [handler EXCEPT ![c] = NoHandler]
  /\ UNCHANGED <<up, program, open, closed, sent, got, read, whole, authUser, account,
                 executed, refused>>

\* End of file: the handler returns without having done anything, the loop too.
EndOfFile(c) ==
  /\ up /\ Starved(c) /\ c \in closed /\ got[c] = sent[c]
  /\ ended' = ended \union {c}
  /\ handler' = [handler EXCEPT ![c] = NoHandler]
  /\ UNCHANGED <<up, program, open, closed, sent, got, read, whole, authUser, account,
                 executed, refused>>

-----------------------------------------------------------------------------
(* The handlers, once their arguments are read.                            *)

Ready(c, name) == up /\ handler[c].name = name /\ ~More(c) /\ update[c] = NoUpdate

Returns(c) == handler' = [handler EXCEPT ![c] = NoHandler]

Done(c) ==
  executed' = [executed EXCEPT ![c] = Append(@, <<handler[c].name>> \o Args(c))]

\* PING, ECHO, GET, KEYS, INFO, CONFIG GET, lists and sorted sets: what they do
\* to the shared state is in the modules of those.
Simple(c) ==
  /\ \E name \in Names \ {"SET", "AUTH", "ACL"} : Ready(c, name)
  /\ Done(c) /\ Returns(c)
  /\ UNCHANGED <<up, program, open, closed, ended, sent, got, read, whole, authUser,
                 account, refused>>

\* Store and +OK, and then a look for an option.
SetAnswers(c) ==
  /\ Ready(c, "SET")
  /\ Done(c)
  /\ handler' = [handler EXCEPT ![c] =
                   IF Buffered(c) > 0 THEN [name |-> "SET-OPTION", lines |-> <<>>]
                                      ELSE NoHandler]
  /\ UNCHANGED <<up, program, open, closed, ended, sent, got, read, whole, authUser,
                 account, refused>>

SetOption(c) ==
  /\ Ready(c, "SET-OPTION")
  /\ handler' = [handler EXCEPT ![c] =
                   IF Args(c) = <<"PX">> THEN [name |-> "PX", lines |-> <<>>] ELSE NoHandler]
  /\ UNCHANGED <<up, program, open, closed, ended, sent, got, read, whole, authUser,
                 account, executed, refused>>

SetDeadline(c) ==
  /\ Ready(c, "PX")
  /\ executed' = [executed EXCEPT ![c] = Front(@) \o << Last(@) \o <<"PX">> \o Args(c) >>]
  /\ Returns(c)
  /\ UNCHANGED <<up, program, open, closed, ended, sent, got, read, whole, authUser,
                 account, refused>>

\* An unknown user is a nil interface: the type assertion panics.
Auth(c) ==
  /\ Ready(c, "AUTH")
  /\ IF Args(c)[1] # Default
       THEN up' = FALSE /\ UNCHANGED <<authUser, handler, executed>>
       ELSE /\ authUser' = [authUser EXCEPT ![c] =
                              IF Args(c)[2] \in ToSet(passwords) THEN Default ELSE @]
            /\ Done(c) /\ Returns(c)
            /\ UNCHANGED up
  /\ UNCHANGED <<program, open, closed, ended, sent, got, read, whole, account, refused>>

\* WHOAMI, GETUSER (no answer for an unknown user), and SETUSER of an unknown
\* user (no answer) or of an argument that is no password (+OK).
AclReads(c) ==
  /\ Ready(c, "ACL")
  /\ ~(Args(c)[1] = "SETUSER" /\ Args(c)[2] = Default /\ Args(c)[3] \in DOMAIN Secret)
  /\ Done(c) /\ Returns(c)
  /\ UNCHANGED <<up, program, open, closed, ended, sent, got, read, whole, authUser,
                 account, refused>>

\* append(userInfo.Passwords, hash): the slice is read ...
SetUserReads(c) ==
  /\ Ready(c, "ACL")
  /\ Args(c)[1] = "SETUSER" /\ Args(c)[2] = Default /\ Args(c)[3] \in DOMAIN Secret
  /\ update' = [update EXCEPT ![c] =
                  [step |-> "append", seen |-> passwords, new |-> Secret[Args(c)[3]]]]
  /\ overlap' = (overlap \/ \E d \in Conns : update[d] # NoUpdate)
  /\ UNCHANGED <<up, program, stream, authUser, passwords, nopass, executed, refused>>

\* Wrong: the new password replaces the others.
AppendedAlone(u) == <<u.new>>

\* What the slice that was read becomes.
Appended(u) == Append(u.seen, u.new)

\* ... and assigned; nothing locks the user in between.
SetUserAppends(c) ==
  /\ up /\ update[c].step = "append"
  /\ passwords' = Appended(update[c])
  /\ update' = [update EXCEPT ![c].step = "scan"]
  /\ UNCHANGED <<up, program, stream, authUser, nopass, overlap, executed, refused>>

\* The loop over Flags finds "nopass", or does not and the handler answers.
SetUserScans(c) ==
  /\ up /\ update[c].step = "scan"
  /\ IF nopass THEN update' = [update EXCEPT ![c].step = "cut"] /\ UNCHANGED <<handler, executed>>
     ELSE update' = [update EXCEPT ![c] = NoUpdate] /\ Done(c) /\ Returns(c)
  /\ UNCHANGED <<up, program, open, closed, ended, sent, got, read, whole, authUser,
                 passwords, nopass, overlap, refused>>

\* Flags[i+1:] of a slice somebody else has shortened panics.
SetUserCuts(c) ==
  /\ up /\ update[c].step = "cut"
  /\ IF nopass
       THEN /\ nopass' = FALSE
            /\ update' = [update EXCEPT ![c] = NoUpdate]
            /\ Done(c) /\ Returns(c) /\ UNCHANGED up
       ELSE up' = FALSE /\ UNCHANGED <<nopass, update, handler, executed>>
  /\ UNCHANGED <<program, open, closed, ended, sent, got, read, whole, authUser,
                 passwords, overlap, refused>>

Client(c) == Send(c) \/ Close(c)

Handle(c) ==
  \/ Simple(c)
  \/ SetAnswers(c) \/ SetOption(c) \/ SetDeadline(c)
  \/ Auth(c)
  \/ AclReads(c) \/ SetUserReads(c) \/ SetUserAppends(c) \/ SetUserScans(c) \/ SetUserCuts(c)

Serve(c) ==
  \/ \E n \in 1..Len(Text(c)) : Fill(c, n)
  \/ ReadCommand(c) \/ ReadArgument(c) \/ EndOfFile(c)
  \/ Handle(c)

Next == \E c \in Conns : Accept(c) \/ Client(c) \/ Serve(c)

\* The goroutine of a connection runs while it can, and what has been sent
\* arrives; a client need not connect, send or close.
Spec == Init /\ [][Next]_vars /\ \A c \in Conns : WF_vars(Serve(c))

-----------------------------------------------------------------------------
(* Properties.                                                             *)

TypeOK ==
  /\ up \in BOOLEAN /\ nopass \in BOOLEAN /\ overlap \in BOOLEAN /\ program \in Programs
  /\ ended \subseteq closed /\ closed \subseteq open /\ open \subseteq Conns
  /\ \A c \in Conns : 0 <= read[c] /\ read[c] <= got[c] /\ got[c] <= sent[c]
  /\ \A c \in Conns : handler[c].name \in Names \union {"", "SET-OPTION", "PX"}
  /\ authUser \in [Conns -> {Nobody, Default}]
  /\ refused \subseteq open /\ whole \subseteq Conns
  /\ \A c \in Conns : update[c].step \in {"", "append", "scan", "cut"}

\* Commands whose handlers read a number of arguments that nothing but the
\* arguments decides.
FixedArity(c) == \A i \in DOMAIN program[c] : program[c][i][1] \notin WhileBuffered \union {"LPOP", "SET"}

\* The commands that end where their sender ended them, whatever the network does.
Dependable(c) == c \notin refused /\ (FixedArity(c) \/ c \in whole)

Quiet(c) == ~Busy(c) /\ Buffered(c) = 0

\* What a connection has carried out is what its client sent, command for
\* command, however the bytes were cut and joined on their way, as long as the
\* commands take a fixed number of arguments; with RPUSH, GEOPOS, LPOP and SET, as long
\* as every command arrives alone and in one piece.
CommandsExact ==
  \A c \in Conns : Dependable(c) /\ Quiet(c) =>
    /\ executed[c] = SubSeq(program[c], 1, Len(executed[c]))
    /\ read[c] \in Ends(c) => read[c] = End(c, Len(executed[c]))

\* The commands the handlers know, with the arguments they take.
Complete(cmd) ==
  /\ Len(cmd) > 0 /\ cmd[1] \in Names
  /\ cmd[1] \in WhileBuffered => Len(cmd) >= 2
  /\ cmd[1] = "LPOP" => Len(cmd) \in {2, 3}
  /\ cmd[1] = "SET" => Len(cmd) = 3 \/ (Len(cmd) = 5 /\ cmd[4] = "PX")
  /\ cmd[1] \notin WhileBuffered \union {"LPOP", "SET"} => Len(cmd) = 1 + Needed(cmd[1], Tail(cmd))

\* Clients send nothing else.
WholeCommands == \A p \in Programs : \A c \in Conns : \A i \in 1..Len(p[c]) : Complete(p[c][i])

\* Under the same conditions every command is carried out once it has been
\* sent: its handler does not wait for more than the client has to say.
CommandsAnswered ==
  \A c \in Conns : \A n \in 1..2 :
    n <= Len(program[c]) /\ sent[c] >= End(c, n)
      ~> Len(executed[c]) >= n \/ ~Dependable(c) \/ ~up

\* A SETUSER that gives the default user a password.
SetsPassword(e) ==
  Len(e) = 4 /\ e[1] = "ACL" /\ e[2] = "SETUSER" /\ e[3] = Default /\ e[4] \in DOMAIN Secret

Acknowledged ==
  UNION {{Secret[e[4]] : e \in {x \in ToSet(executed[c]) : SetsPassword(x)}} : c \in Conns}

\* When no SETUSER is under way the flag "nopass" says whether there is no
\* password, and the passwords are the acknowledged ones unless two SETUSERs
\* have overlapped: then one may have been lost.  The server goes down only when
\* they have, or for an AUTH that names an unknown user.
AccountKept ==
  /\ (up /\ \A c \in Conns : update[c] = NoUpdate) =>
       /\ nopass <=> passwords = <<>>
       /\ overlap \/ ToSet(passwords) = Acknowledged
  /\ up \/ overlap \/ \E c \in Conns : handler[c].name = "AUTH" /\ Args(c)[1] # Default
=============================================================================
