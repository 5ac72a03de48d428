------------------------------- MODULE Config -------------------------------
(***************************************************************************)
(* The configuration files of the gateway and of the load client           *)
(* (internal/config): the defaults, the validation, and what the           *)
(* constructors that get the values ask of them in turn.                   *)
(*                                                                         *)
(* A configuration is a record of the fields some code decides on.  inRange*)
(* stands for the ports, rates, TLS files, host and resources, of which    *)
(* the validation asks that they are in their ranges and nothing else      *)
(* does.  Durations and rates are integers.                                *)
(***************************************************************************)
EXTENDS Integers

-----------------------------------------------------------------------------
(* The gateway.                                                            *)

\* What a file may say: "" and 0 where it says nothing.
Strategies == {"", "consistent_hash", "round-robin", "random"}

HTTP2GW ==
    [nodeId : 0..1, inRange : BOOLEAN, services : SUBSET (0..1),
     interval : -1..2, timeout : -1..3, deadTimeout : -1..3,
     txTimeout : -1..1, strategy : Strategies,
     pprof : BOOLEAN, master : BOOLEAN]

\* services are the service_ids of the list, 0 where an entry has none.
ApplyDefaults(c) ==
    [c EXCEPT !.nodeId = IF @ = 0 THEN 1 ELSE @,
              !.deadTimeout = IF @ = 0 /\ c.timeout > 0 THEN 2 * c.timeout ELSE @,
              !.strategy = IF @ = "" THEN "consistent_hash" ELSE @,
              !.services = IF @ = {} THEN {1} ELSE @]

\* heartbeat.Config.Validate, which HTTP2GW.Validate and Master.Validate repeat.
HeartbeatValid(c) ==
    /\ 0 < c.interval
    /\ c.interval < c.timeout
    /\ c.timeout < c.deadTimeout

Validate(c) ==
    /\ c.nodeId > 0
    /\ c.inRange
    /\ HeartbeatValid(c)
    /\ c.txTimeout > 0
    /\ c.strategy \in {"consistent_hash", "consistent-hash",
                       "round_robin", "round-robin"}
    /\ 0 \notin c.services

\* NewMonitor, NewSender, transaction.NewService, dispatch.New and httpsrv.New
\* give no error.
ConstructorsAccept(c) ==
    /\ HeartbeatValid(c)
    /\ c.nodeId > 0
    /\ c.interval > 0
    /\ c.txTimeout >= 0

-----------------------------------------------------------------------------
(* The load client.                                                        *)

\* A configuration file of the client.
LoadClient ==
    [inRange : BOOLEAN, timeout : Int, concurrency : Int, qps : Int,
     duration : Int, n : Int]

LoadClientDefaults(c) ==
    [c EXCEPT !.timeout = IF @ <= 0 THEN 10 ELSE @,
              !.concurrency = IF @ < 1 THEN 1 ELSE @]

LoadClientValid(c) ==
    /\ c.inRange
    /\ c.concurrency >= 1
    /\ c.qps >= 0
    /\ c.n >= 0
    /\ c.n = 0 => c.duration > 0
    /\ c.timeout > 0

\* A command line: -config and its file, the flags that are set, -fail-log.
OptionNames == {"timeout", "concurrency", "qps", "duration", "n"}
CommandLine(c) ==
    /\ c.config \in BOOLEAN /\ c.file \in LoadClient /\ c.failLog \in BOOLEAN
    /\ DOMAIN c.flags \subseteq OptionNames
    /\ \A o \in DOMAIN c.flags : c.flags[o] \in Int

\* What the flags are when they are not set.
FlagDefaults == [timeout |-> 10, concurrency |-> 1, qps |-> 0, duration |-> 0, n |-> 1]

\* The options: the flags that are set go over the file, which alone has been
\* defaulted and validated.
Merged(c) ==
    LET base == IF c.config THEN LoadClientDefaults(c.file) ELSE FlagDefaults
        Option(o) == IF o \in DOMAIN c.flags THEN c.flags[o] ELSE base[o]
    IN [timeout |-> Option("timeout"), concurrency |-> Option("concurrency"),
        qps |-> Option("qps"), duration |-> Option("duration"), n |-> Option("n"),
        failLog |-> c.failLog]

\* main's own checks, which leave the timeout alone: 0 or less is none.
OptionsValid(o) ==
    /\ o.concurrency >= 1
    /\ o.n >= 0
    /\ o.n = 0 => o.duration > 0
    /\ o.qps >= 0

\* One request is sent by main itself, without runLoad.
Single(o) == o.n = 1 /\ o.concurrency = 1 /\ o.duration = 0
=============================================================================
