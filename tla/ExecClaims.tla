----------------------------- MODULE ExecClaims -----------------------------
(***************************************************************************)
(* What a comment of the code says of Exec and the code does not do.  It   *)
(* is refuted by a run of its own.                                         *)
(***************************************************************************)
EXTENDS MCExecChannel

\* live.go:80-81: Exec runs argv, waits for the response and parses
\* "rc=<n>\n<output>".  A call that reports success thus has the whole response,
\* not the part of it that cat printed before it failed.
WholeAnswer == \A c \in Calls : pc[c] = "ok" => c \notin cut
=============================================================================
