----------------------------- MODULE MCSessions -----------------------------
EXTENDS Sessions

CONSTANTS c1, c2

MCConns  == {c1, c2}
MCSecret == [w \in {">p", ">q"} |-> IF w = ">p" THEN "p" ELSE "q"]

\* One command of each way to read arguments.
Commands ==
  { <<"PING">>, <<"ECHO", "x">>, <<"SET", "k", "x">>, <<"SET", "k", "x", "PX", "9">>,
    <<"RPUSH", "k", "x", "y">>, <<"LPOP", "k">>, <<"LPOP", "k", "1">>,
    <<"CONFIG", "GET", "dir">>, <<"ACL", "WHOAMI">>, <<"ACL", "GETUSER", "x">>, <<"ZRANGE", "k", "0", "1">>, <<"GEOPOS", "k", "x">> }

SetUser(w) == <<"ACL", "SETUSER", Default, w>>
AuthAs(u)  == <<"AUTH", u, "p">>

Second == { <<"ECHO", "x">>, <<"SET", "k", "x", "PX", "9">>, <<"LPOP", "k", "1">> }

MCInPieces == {<<a, b>> : a \in Commands, b \in Second}

\* One client of two commands; two that change the account, or use it.
MCPrograms ==
  { [c \in MCConns |-> IF c = c1 THEN p ELSE <<>>] : p \in MCInPieces }
  \union { [c \in MCConns |-> IF c = c1 THEN <<SetUser(">p")>> ELSE other] : other \in
            { <<SetUser(">q")>>, <<AuthAs(Default), <<"PING">> >>, <<AuthAs("x")>>,
              << <<"ECHO", "PING">> >>, <<SetUser("p"), <<"ACL", "GETUSER", Default>> >> } }

\* Every client sends whole commands.
ASSUME MCWholeCommands == WholeCommands
=============================================================================
