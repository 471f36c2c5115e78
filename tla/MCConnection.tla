---------------------------- MODULE MCConnection ----------------------------
(***************************************************************************)
(* Values for the constants of Connection.                                 *)
(***************************************************************************)
EXTENDS Connection

Get ==
  [line |-> "ok", minor |-> 1, m |-> "GET", headers |-> "ok", conn |-> "none",
   te |-> "none", cl |-> "none", chunks |-> "empty", host |-> "ok"]

Post == [Get EXCEPT !.m = "POST", !.cl = "some"]
Chunked == [Get EXCEPT !.m = "POST", !.te = "chunked"]

\* One request of every method, and one or two departures from a plain GET or
\* POST for every check of the head.
MCRequests ==
  {[Get EXCEPT !.m = m] : m \in Methods \ {"PUT", "PATCH"}}
    \cup {[Get EXCEPT !.line = l] : l \in {"bad", "long", "major", "minor"}}
    \cup {[Get EXCEPT !.headers = h] : h \in {"bad", "big"}}
    \cup {[Get EXCEPT !.conn = c] : c \in {"close", "keep-alive"}}
    \cup {[Get EXCEPT !.minor = 0, !.host = h] : h \in {"bad", "none"}}
    \cup {[Get EXCEPT !.host = "none"]}
    \cup {[Post EXCEPT !.cl = c] : c \in {"zero", "some", "big", "bad"}}
    \cup {[Chunked EXCEPT !.chunks = c] : c \in {"empty", "data", "short", "big"}}
    \cup {[Chunked EXCEPT !.te = "other"], [Chunked EXCEPT !.cl = "some"]}
    \cup {[Chunked EXCEPT !.minor = 0], [Chunked EXCEPT !.minor = 0, !.cl = "some"]}
    \cup {[Post EXCEPT !.minor = 0], [Post EXCEPT !.conn = "close"]}
    \cup {[Post EXCEPT !.m = m] : m \in {"GET", "TRACE", "OPTIONS*"}}

\* The ones that are served.
MCServed ==
  {Get, Post, [Get EXCEPT !.m = "HEAD"], [Get EXCEPT !.m = "OPTIONS"],
   [Get EXCEPT !.m = "OPTIONS*"], [Get EXCEPT !.conn = "close"], [Get EXCEPT !.minor = 0],
   [Get EXCEPT !.headers = "bad"], [Chunked EXCEPT !.chunks = "short"]}

MCTargets == Target
MCAllRuns == CgiRun
MCAllReplies == FcgiReply

\* Scripts that give their length or are autochunked, and send a body with
\* every answer; applications that fail before or in the middle of theirs.
MCGoodRuns == {run \in CgiRun : ~run.bodyless /\ (run.cl # "none" \/ run.auto \/ run.kind \notin {"page", "cut"})}
MCGoodReplies == {"noconnect", "refuse", "invalid", "mute", "cut"}

=============================================================================
