----------------------------- MODULE MCLoadTest -----------------------------
(* LoadTest for TLC: with -n alone, with a log of failures, with a rate    *)
(* and a duration, with a duration only and no timeout.                    *)
EXTENDS LoadTest

File == [inRange |-> TRUE, timeout |-> 0, concurrency |-> 0, qps |-> 0,
         duration |-> 1, n |-> 0]

Command(c, f, l) == [config |-> c, file |-> File, flags |-> f, failLog |-> l]

MCCommands ==
    {Command(FALSE, [n |-> 3], FALSE),
     Command(FALSE, [n |-> 2, concurrency |-> 2], TRUE),
     Command(TRUE, [n |-> 2, concurrency |-> 2, qps |-> 1], FALSE),
     Command(TRUE, [timeout |-> 0], FALSE)}

\* What can become of each request: a 200 or a status that HTTP/2 does not end
\* with, a 429 that no gate gave, a 200.
MCStatuses == <<{0, 103}, {429}, {0}>>

Canceled == Error(499, "canceled")
Timeout == Error(504, "timeout")
MCErrors == <<{Canceled, Timeout}, {Timeout}, {}>>
=============================================================================
