---------------------------- MODULE AuthPrograms ----------------------------
(***************************************************************************)
(* What the programs under test do with ACL and AUTH: four of the tester's *)
(* own that go wrong on purpose (test_helpers/scenarios/auth_...), and     *)
(* "ours", the server of redis-starter-go.  Only the user "default" is     *)
(* named, and a password is added only by ACL SETUSER default >password:   *)
(* the flag nopass is there exactly while there are no passwords.          *)
(***************************************************************************)
EXTENDS Programs

VARIABLES
  user,       \* connection -> "none" (not connected), "new", "default", "nobody"
  passwords   \* the hashes stored for the user "default"
authVars == <<user, passwords>>

AsksWho == {"ours", "wrong_error_pattern"}  \* programs to which it matters who a connection is
AuthStages == {"uv9", "pl7", "nm2", "hz3", "ws7"}

\* The first client is connected when the script begins.  Elsewhere nobody sets
\* a password, and every connection is the default user's.
AuthInit ==
  /\ user = [k \in Conns |-> IF scenario.stage \notin AuthStages THEN "default"
                             ELSE IF k # 1 THEN "none"
                             ELSE IF program \in AsksWho THEN "new" ELSE "default"]
  /\ passwords = <<>>

WhoAmI     == <<"ACL", "WHOAMI">>
GetUser    == <<"ACL", "GETUSER", "default">>
SetUser(p) == <<"ACL", "SETUSER", "default", p>>
Auth(p)    == <<"AUTH", "default", p>>
Secrets    == {"pw", "other"}
Sha256     == [p \in Secrets |-> IF p = "pw" THEN "a6d7" ELSE "d932"]
Sha1       == [p \in Secrets |-> IF p = "pw" THEN "1a91" ELSE "d0a3"]
\* SETUSER's argument: a password behind ">".
Rule       == [p \in Secrets |-> IF p = "pw" THEN ">pw" ELSE ">other"]

\* A connection takes a whole command and answers it.
Answer(k, words, reply) ==
  /\ inbox[k] # <<>> /\ Head(inbox[k]) = Command(words) /\ user[k] \in {"default", "nobody"}
  /\ ReadCommand(k)
  /\ Write(k, reply)
  /\ UNCHANGED <<scenario, chunks, db, requested, waiters, awaited, after, chan, link>>

UserReply(flags, hashes) ==
  Array(<<Bulk(<<"flags">>), Command(flags), Bulk(<<"passwords">>), Command(hashes)>>)
OK == Simple(<<"OK">>)

-----------------------------------------------------------------------------
(* The programs that go wrong.  Each has a codec and a server of its own.  *)

NopassFlagServes(k, words, reply) ==
  program = "always_nopass_flag" /\ Answer(k, words, reply) /\ UNCHANGED user
LiteralServes(k, words, reply) ==
  program = "literal_password" /\ Answer(k, words, reply) /\ UNCHANGED user
Sha256Serves(k, words, reply) ==
  program = "mistake_sha256" /\ Answer(k, words, reply) /\ UNCHANGED user
PatternServes(k, words, reply) ==
  program = "wrong_error_pattern" /\ Answer(k, words, reply) /\ UNCHANGED user

\* The password is forgotten, and the flag is always there.
NopassFlagAcl(k) ==
  \/ NopassFlagServes(k, GetUser, UserReply(<<"nopass">>, <<>>)) /\ UNCHANGED passwords
  \/ \E p \in Secrets : NopassFlagServes(k, SetUser(Rule[p]), OK) /\ UNCHANGED passwords

\* The third element is "password".
LiteralAcl(k) ==
  /\ LiteralServes(k, GetUser,
       Array(<<Bulk(<<"flags">>), Command(<<"nopass">>), Bulk(<<"password">>), Array(<<>>)>>))
  /\ UNCHANGED passwords

\* The password is hashed with SHA-1.
Sha1GetUser(k) ==
  /\ Sha256Serves(k, GetUser,
       UserReply(IF passwords = <<>> THEN <<"nopass">> ELSE <<>>, passwords))
  /\ UNCHANGED passwords
AddPassword(k) ==
  \E p \in Secrets : /\ Sha256Serves(k, SetUser(Rule[p]), OK)
                     /\ passwords' = Append(passwords, Sha1[p])

\* Whether a connection is the default user's is settled when it is accepted.
ConnIsDefault(k) ==
  /\ program = "wrong_error_pattern" /\ user[k] = "new"
  /\ user' = [user EXCEPT ![k] = IF passwords = <<>> THEN "default" ELSE "nobody"]
  /\ UNCHANGED <<programVars, passwords>>
\* No space follows NOAUTH; and of a password it keeps only that there is one.
PatternAcl(k) ==
  \/ /\ PatternServes(k, WhoAmI, IF user[k] = "default" THEN Bulk(<<"default">>)
                                 ELSE Error(<<"NOAUTH", "Authentication required.">>))
     /\ UNCHANGED passwords
  \/ \E p \in Secrets : PatternServes(k, SetUser(Rule[p]), OK) /\ passwords' = <<"some">>

-----------------------------------------------------------------------------
(* Ours.                                                                   *)

\* serveCommands settles who a connection is before it reads a command.
Attend(k) ==
  /\ program = "ours" /\ user[k] = "new"
  /\ user' = [user EXCEPT ![k] = IF passwords = <<>> THEN "default" ELSE "nobody"]
  /\ UNCHANGED <<programVars, passwords>>

NoAuth == Error(<<"NOAUTH", " ", "Authentication required.">>)

\* A refused command's arguments stay unread; none of them is a command.
HandleACL(k) ==
  LET Reply(v) == IF user[k] = "default" THEN v ELSE NoAuth IN
  /\ program = "ours" /\ UNCHANGED user
  /\ \/ Answer(k, WhoAmI, Reply(Bulk(<<"default">>))) /\ UNCHANGED passwords
     \/ /\ Answer(k, GetUser,
                  Reply(UserReply(IF passwords = <<>> THEN <<"nopass">> ELSE <<>>, passwords)))
        /\ UNCHANGED passwords
     \/ \E p \in Secrets :
          /\ Answer(k, SetUser(Rule[p]), Reply(OK))
          /\ passwords' = IF user[k] = "default" THEN Append(passwords, Sha256[p]) ELSE passwords

HandleAuth(k) ==
  \E p \in Secrets :
    LET known == Sha256[p] \in ToSet(passwords) IN
    /\ program = "ours" /\ UNCHANGED passwords
    /\ Answer(k, Auth(p), IF known THEN OK ELSE Error(<<"WRONGPASS", " ", "invalid">>))
    /\ user' = IF known THEN [user EXCEPT ![k] = "default"] ELSE user

AuthNext ==
  \E k \in Conns :
    \/ NopassFlagAcl(k) \/ LiteralAcl(k) \/ Sha1GetUser(k) \/ AddPassword(k)
    \/ ConnIsDefault(k) \/ PatternAcl(k) \/ Attend(k) \/ HandleACL(k) \/ HandleAuth(k)
=============================================================================
