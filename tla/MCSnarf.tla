------------------------------- MODULE MCSnarf ------------------------------
(* Small instances for TLC: every command line of up to three options, with *)
(* short and long words, and every shape of URL.                            *)
EXTENDS Snarf

Arg(s, n) == [s |-> s, len |-> n]

Words == {Arg("date", 1), Arg("server", 6)}

Options == {<<Arg("-q", 2), w>> : w \in Words}
             \cup {<<Arg("-o", 2), Arg("out", 3)>>, <<Arg("-x", 2)>>, <<Arg("-q", 2)>>,
                   <<Arg("-oX", 3)>>, <<Arg("-h", 2)>>}

MCUrlOf == [u \in {"plain", "port", "noport", "relative", "slash", "ftp", "local"} |->
  CASE u = "plain" -> <<"http", ":", "/", "/", "h">>
    [] u = "port" -> <<"http", ":", "/", "/", "h", ":", "8080", "/", "p">>
    [] u = "noport" -> <<"http", ":", "/", "/", "h", ":", "/", "p">>
    [] u = "relative" -> <<"p">>
    [] u = "slash" -> <<"/", "p", ":">>
    [] u = "ftp" -> <<"ftp", ":", "/", "/", "h", "/", "p">>
    [] u = "local" -> <<"http", ":", "/", "p">>]

MCArgvs ==
  {<<Arg("plain", 8)>>, << >>}
    \cup {<<Arg(u, 8)>> : u \in DOMAIN MCUrlOf}
    \cup {o \o <<Arg("plain", 8)>> : o \in Options}
    \cup {o \o p \o <<Arg("plain", 8)>> : o, p \in Options}
    \cup {o \o p \o q \o <<Arg("local", 8)>> : o, p, q \in Options}
    \cup {<<Arg("plain", 8), Arg("plain", 8)>>, <<Arg("-q", 2), Arg("date", 1)>>}
=============================================================================
