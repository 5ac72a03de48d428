----------------------------- MODULE GatewayRun -----------------------------
(***************************************************************************)
(* The gateway process (cmd/http2gw, gateway.Run in internal/gateway): the *)
(* configuration, the start with its early returns, the goroutines, the    *)
(* select that waits for the context or for the first fatal error, and the *)
(* shutdown in its order: HTTP server, transport, transaction service,     *)
(* cancel, wg.Wait.                                                        *)
(*                                                                         *)
(* A goroutine that fails puts its error into errCh and cancels runCtx.    *)
(* A send hands its value to a goroutine that is parked in a select on the *)
(* channel; before Run gets there the error is buffered, and Run may find  *)
(* both of its cases ready, of which a select takes either.                *)
(*                                                                         *)
(* The metrics ticker, monitor, heartbeat sender and dispatcher are loops  *)
(* here (Membership and Dispatch have what they do).  Those that send may  *)
(* be left in a Send by the closing transport, whose batcher answers no    *)
(* job that is queued when its loop ends (module SendBatcher).  What the   *)
(* shutdown does to requests is in module TxService.                       *)
(***************************************************************************)
EXTENDS Config, FiniteSets

CONSTANTS ErrCap,   \* cap(errCh)
          NoConfig

ASSUME ErrCapAssumption == ErrCap \in Nat

\* Loops that end with their context; with them the dispatcher, the HTTP server
\* and, when a Master is configured, the Agent are in the WaitGroup; the pprof
\* server, when there is one, is not.
Loops == {"ticker", "monitor", "sender"}
Waited == Loops \cup {"dispatcher", "http", "agent"}
Services == Waited \cup {"pprof"}

\* Those that can end for another reason: a socket error, a failed listen.
Failing == {"dispatcher", "http"}

\* Those that send datagrams: the heartbeat sender, and the dispatcher with its
\* workers, for which disp.Run waits.
Senders == {"dispatcher", "sender"}

VARIABLES
    main,      \* where Run is
    cfg,       \* the configuration, while Run looks at it
    runErr,    \* what it will return
    svc,       \* where each goroutine is
    errCh,     \* errors in the channel, by the goroutine that sent them
    signal,    \* ctx is cancelled: SIGTERM or SIGINT
    runDone,   \* runCtx is cancelled
    shut,      \* httpSrv.Shutdown was called
    connOpen,  \* the transport is open
    txOpen,    \* the transaction service is open
    stuck,     \* goroutines that wait for a Send the batcher never answers
    early      \* history: an error was sent before Run reached its select

closeVars == <<shut, connOpen, txOpen, stuck>>
gatewayVars == <<main, cfg, runErr, svc, errCh, signal, runDone, closeVars, early>>

GatewayInit ==
    /\ main = "load"
    /\ cfg = NoConfig
    /\ runErr = "none"
    /\ svc = [g \in Services |-> "done"]
    /\ errCh = {}
    /\ signal = FALSE /\ runDone = FALSE
    /\ shut = FALSE /\ connOpen = FALSE /\ txOpen = FALSE
    /\ stuck = {}
    /\ early = FALSE

Goto(g, l) == svc' = [svc EXCEPT ![g] = l]

\* SIGTERM or SIGINT, once main has asked to be told.
Signal ==
    /\ main # "load" /\ ~signal
    /\ signal' = TRUE /\ runDone' = TRUE
    /\ UNCHANGED <<main, cfg, runErr, svc, errCh, closeVars, early>>

-----------------------------------------------------------------------------
(* The start.                                                              *)

\* Run, or main before it, returns with an error; the deferred calls close
\* what is open and cancel runCtx.
ReturnEarly(e) ==
    /\ main' = "returned" /\ runErr' = e /\ cfg' = NoConfig
    /\ connOpen' = FALSE /\ txOpen' = FALSE /\ runDone' = TRUE
    /\ UNCHANGED <<svc, errCh, signal, shut, stuck, early>>

\* LoadHTTP2GW, and the Validate Run begins with.
Load ==
    /\ main = "load"
    /\ \E raw \in HTTP2GW :
         LET c == ApplyDefaults(raw) IN
         IF ~Validate(c) THEN ReturnEarly("invalid")
         ELSE /\ main' = "udp" /\ cfg' = c
              /\ UNCHANGED <<runErr, svc, errCh, signal, runDone, closeVars, early>>

\* udp.New, which may not get its port; registerSelf is logged if it fails.
ListenUDP ==
    /\ main = "udp"
    /\ \/ ReturnEarly("udp")
       \/ /\ main' = "build" /\ connOpen' = TRUE
          /\ UNCHANGED <<cfg, runErr, svc, errCh, signal, runDone, shut, txOpen,
                         stuck, early>>

\* The constructors.
Build ==
    /\ main = "build"
    /\ IF ~ConstructorsAccept(cfg) THEN ReturnEarly("constructor")
       ELSE /\ main' = "pprof" /\ txOpen' = TRUE
            /\ UNCHANGED <<cfg, runErr, svc, errCh, signal, runDone, shut, connOpen,
                           stuck, early>>

\* StartPprofListen, if it is configured.
StartPprof ==
    /\ main = "pprof"
    /\ \/ cfg.pprof /\ ReturnEarly("pprof")
       \/ /\ main' = "go"
          /\ svc' = [svc EXCEPT !["pprof"] = IF cfg.pprof THEN "run" ELSE "done"]
          /\ UNCHANGED <<cfg, runErr, errCh, signal, runDone, closeVars, early>>

\* The go statements; the Agent only if a Master is configured.
Go ==
    /\ main = "go"
    /\ svc' = [g \in Services |-> IF g = "pprof" \/ (g = "agent" /\ ~cfg.master)
                                  THEN svc[g] ELSE "run"]
    /\ main' = "starting" /\ cfg' = NoConfig
    /\ UNCHANGED <<runErr, errCh, signal, runDone, closeVars, early>>

-----------------------------------------------------------------------------
(* The goroutines.                                                         *)

\* The HTTP server listens.
Listen ==
    /\ svc["http"] = "run"
    /\ Goto("http", "serve")
    /\ UNCHANGED <<main, cfg, runErr, errCh, signal, runDone, closeVars, early>>

\* A fatal error: of a receive, which disp.Run returns once its workers have
\* ended, perhaps after the transport's Close; of the listen; of the accept of a
\* server that was not shut down.
Fails(g) ==
    /\ \/ g = "dispatcher" /\ svc[g] = "run" /\ g \notin stuck
       \/ g = "http" /\ svc[g] = "run"
       \/ g = "http" /\ svc[g] = "serve" /\ ~shut
    /\ Goto(g, "failed")
    /\ UNCHANGED <<main, cfg, runErr, errCh, signal, runDone, closeVars, early>>

\* A slip: cancel first, then report.
PutErrAfterCancel(g) ==
    \/ /\ svc[g] = "failed" /\ ~runDone
       /\ runDone' = TRUE
       /\ UNCHANGED <<main, cfg, runErr, svc, errCh, signal, closeVars, early>>
    \/ /\ svc[g] = "failed" /\ runDone
       /\ Cardinality(errCh) < ErrCap
       /\ errCh' = errCh \cup {g}
       /\ Goto(g, "cancel")
       /\ early' = (early \/ main = "starting")
       /\ UNCHANGED <<main, cfg, runErr, signal, runDone, closeVars>>

\* errCh <- err: handed to Run if it is parked in its select.
PutErr(g) ==
    /\ svc[g] = "failed"
    /\ IF main = "select"
       THEN main' = "shutdown" /\ runErr' = g /\ UNCHANGED errCh
       ELSE /\ Cardinality(errCh) < ErrCap
            /\ errCh' = errCh \cup {g}
            /\ UNCHANGED <<main, runErr>>
    /\ Goto(g, "cancel")
    /\ early' = (early \/ main = "starting")
    /\ UNCHANGED <<cfg, signal, runDone, closeVars>>

\* cancel() after a fatal error.
CancelRun(g) ==
    /\ svc[g] = "cancel"
    /\ runDone' = TRUE
    /\ Goto(g, "done")
    /\ UNCHANGED <<main, cfg, runErr, errCh, signal, closeVars, early>>

\* The goroutine ends as it should: on runCtx, on ErrTransportClosed, on
\* ErrServerClosed; an Agent that is registered leaves first.  A goroutine that
\* is stuck in a Send does not end.
ServiceEnds(g) ==
    /\ g \notin stuck
    /\ \/ g \in Loops \cup {"agent"} /\ svc[g] = "run" /\ runDone /\ Goto(g, "done")
       \/ g = "agent" /\ svc[g] = "run" /\ runDone /\ Goto(g, "leave")
       \/ g = "agent" /\ svc[g] = "leave" /\ Goto(g, "done")
       \/ /\ g = "dispatcher" /\ svc[g] = "run" /\ (runDone \/ ~connOpen)
          /\ Goto(g, "done")
       \/ g = "http" /\ svc[g] = "serve" /\ shut /\ Goto(g, "done")
       \/ g = "pprof" /\ svc[g] = "run" /\ runDone /\ Goto(g, "done")
    /\ UNCHANGED <<main, cfg, runErr, errCh, signal, runDone, closeVars, early>>

-----------------------------------------------------------------------------
(* Run itself.                                                             *)

\* ctx.Err(), of the outer context.
CtxErr == IF signal THEN "canceled" ELSE "nil"

\* The select, when Run gets to it.
Select ==
    /\ main = "starting"
    /\ \/ \E g \in errCh : /\ runErr' = g /\ errCh' = errCh \ {g}
                           /\ main' = "shutdown"
       \/ runDone /\ runErr' = CtxErr /\ main' = "shutdown" /\ UNCHANGED errCh
       \/ /\ errCh = {} /\ ~runDone
          /\ main' = "select"
          /\ UNCHANGED <<runErr, errCh>>
    /\ UNCHANGED <<cfg, svc, signal, runDone, closeVars, early>>

\* The select is woken by runCtx.
Woken ==
    /\ main = "select" /\ runDone
    /\ runErr' = CtxErr
    /\ main' = "shutdown"
    /\ UNCHANGED <<cfg, svc, errCh, signal, runDone, closeVars, early>>

\* A slip: the HTTP server is left running.
ShutdownHTTPNot ==
    /\ main = "shutdown"
    /\ main' = "conn"
    /\ UNCHANGED <<cfg, runErr, svc, errCh, signal, runDone, closeVars, early>>

\* httpSrv.Shutdown, which returns after 5 s at the latest.
ShutdownHTTP ==
    /\ main = "shutdown"
    /\ shut' = TRUE
    /\ main' = "conn"
    /\ UNCHANGED <<cfg, runErr, svc, errCh, signal, runDone, connOpen, txOpen,
                   stuck, early>>

\* conn.Close: it returns when the batcher's loop has ended; a goroutine whose
\* job was queued behind the loop's last look waits for its answer for ever.
CloseConn ==
    /\ main = "conn"
    /\ connOpen' = FALSE
    /\ stuck' \in SUBSET {g \in Senders : svc[g] = "run"}
    /\ main' = "tx"
    /\ UNCHANGED <<cfg, runErr, svc, errCh, signal, runDone, shut, txOpen, early>>

CloseTx ==
    /\ main = "tx"
    /\ txOpen' = FALSE
    /\ main' = "cancel"
    /\ UNCHANGED <<cfg, runErr, svc, errCh, signal, runDone, shut, connOpen, stuck,
                   early>>

Cancel ==
    /\ main = "cancel"
    /\ runDone' = TRUE
    /\ main' = "wait"
    /\ UNCHANGED <<cfg, runErr, svc, errCh, signal, closeVars, early>>

\* wg.Wait.
Wait ==
    /\ main = "wait"
    /\ \A g \in Waited : svc[g] = "done"
    /\ main' = "returned"
    /\ UNCHANGED <<cfg, runErr, svc, errCh, signal, runDone, closeVars, early>>

-----------------------------------------------------------------------------
StartStep == Load \/ ListenUDP \/ Build \/ StartPprof \/ Go
RunMainStep == Select \/ Woken \/ ShutdownHTTP \/ CloseConn \/ CloseTx \/ Cancel \/ Wait

ServiceStep(g) == PutErr(g) \/ CancelRun(g) \/ ServiceEnds(g)

GatewayNext ==
    \/ Signal
    \/ Listen
    \/ \E g \in Failing : Fails(g)
    \/ \E g \in Services : ServiceStep(g)
    \/ StartStep \/ RunMainStep

GatewaySpec == GatewayInit /\ [][GatewayNext]_gatewayVars

\* Goroutines are scheduled and Serve gets to listen, if it does not fail;
\* signals and errors need not come.
GatewayFairSpec ==
    /\ GatewaySpec
    /\ WF_gatewayVars(StartStep) /\ WF_gatewayVars(RunMainStep)
    /\ WF_gatewayVars(Listen)
    /\ \A g \in Services : WF_gatewayVars(ServiceStep(g))

-----------------------------------------------------------------------------
(* Properties.                                                             *)

\* When Run returns nothing of the gateway is left: the transport and the
\* transaction service are closed, the goroutines have ended and runCtx is
\* cancelled, whichever step of the start failed.  A configuration that was
\* loaded fails in no constructor.  And a gateway that dies of an error says so:
\* only an error that came before Run had reached its select can be lost.
CleanReturn ==
    main = "returned" =>
        /\ ~connOpen /\ ~txOpen /\ runDone
        /\ \A g \in Waited : svc[g] = "done"
        /\ runErr # "constructor"
        /\ runErr = "nil" => early

\* Told to stop, or after a fatal error, the gateway stops: every goroutine
\* ends, that of pprof too, for which Run does not wait; none is left in a
\* send to errCh that nobody receives any more.  The one thing that keeps it,
\* in wg.Wait, is a Send that the closing transport left without an answer.
GatewayReturns ==
    (signal \/ \E g \in Services : svc[g] = "failed")
      ~> \/ main = "returned" /\ svc["pprof"] = "done"
         \/ main = "wait" /\ stuck # {}
=============================================================================
