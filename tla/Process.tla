------------------------------- MODULE Process --------------------------------
(***************************************************************************)
(* The life of the server process (cmd/main.go, internal/app,              *)
(* internal/checker/checker.go): it starts, serves requests, checks on a   *)
(* ticker, and ends by a signal, a fatal error or a panic.  Four           *)
(* goroutines matter here: main, the HTTP server, the checker and the      *)
(* handlers of the requests in flight.                                     *)
(*                                                                         *)
(* A supervisor outside the repository starts the process again.  What the *)
(* variables are at the end of a process they stay until then.             *)
(***************************************************************************)
EXTENDS Naturals

CONSTANTS
    Request,     \* HTTP requests that can be in flight together
    MaxBoots     \* bound on the number of starts of the process

ASSUME MaxBootsAssumption == MaxBoots \in Nat \ {0}

VARIABLES
    main,        \* where main() is
    server,      \* the http.Server
    checker,     \* the goroutine of Checker.Run; "nil" when New has failed
    checkerDB,   \* the checker's own database handle
    inflight,    \* requests accepted and not yet answered
    signalled,   \* the context of NotifyContext is cancelled
    exit,        \* how the process has ended, if it has
    boots        \* starts so far

process == <<main, server, checker, checkerDB, inflight, signalled, exit, boots>>

ProcessTypeOK ==
    /\ main \in {"init", "wait", "drain", "handshake", "closeDB", "done"}
    /\ server \in {"off", "starting", "listening", "closed"}
    /\ checker \in {"off", "nil", "started", "select", "checking", "returned"}
    /\ checkerDB \in {"none", "open", "closed"}
    /\ inflight \subseteq Request
    /\ signalled \in BOOLEAN
    /\ exit \in {"no", "clean", "fatal", "panic", "killed"}
    /\ boots \in 1..MaxBoots

ProcessInit ==
    /\ main = "init" /\ server = "off" /\ checker = "off" /\ checkerDB = "none"
    /\ inflight = {} /\ signalled = FALSE /\ exit = "no" /\ boots = 1

Alive == exit = "no"

\* log.Fatal, a panic outside gin's Recovery, a signal nobody waits for.
Die(how) ==
    /\ exit' = how
    /\ UNCHANGED <<main, server, checker, checkerDB, inflight, signalled, boots>>

\* app.New and checker.New.  Without an app the process ends; without a
\* checker it goes on.
Start ==
    /\ Alive /\ main = "init"
    /\ \/ Die("fatal")
       \/ /\ main' = "wait"
          /\ server' = "starting"
          /\ \/ checker' = "started" /\ checkerDB' = "open"
             \/ checker' = "nil" /\ checkerDB' = "none"
          /\ UNCHANGED <<inflight, signalled, exit, boots>>

\* ListenAndServe.  ErrServerClosed, after Shutdown, is not an error.
Listen ==
    /\ Alive /\ server = "starting"
    /\ \/ Die("fatal")
       \/ /\ server' = "listening"
          /\ UNCHANGED <<main, checker, checkerDB, inflight, signalled, exit, boots>>

Accept(r) ==
    /\ Alive /\ server = "listening" /\ r \notin inflight
    /\ inflight' = inflight \cup {r}
    /\ UNCHANGED <<main, server, checker, checkerDB, signalled, exit, boots>>

Reply(r) ==
    /\ Alive /\ r \in inflight
    /\ inflight' = inflight \ {r}
    /\ UNCHANGED <<main, server, checker, checkerDB, signalled, exit, boots>>

\* The goroutine of Checker.Run is scheduled.  On a nil checker it panics.
RunChecker ==
    /\ Alive
    /\ \/ /\ checker = "nil" /\ Die("panic")
       \/ /\ checker = "started" /\ checker' = "select"
          /\ UNCHANGED <<main, server, checkerDB, inflight, signalled, exit, boots>>

\* The select of Run takes a tick, and Check runs.
Tick ==
    /\ Alive /\ checker = "select" /\ checker' = "checking"
    /\ UNCHANGED <<main, server, checkerDB, inflight, signalled, exit, boots>>

\* Mutant: Run leaves its loop with the first check that fails.
EndCheckReturns ==
    /\ Alive /\ checker = "checking"
    /\ \/ Die("panic")
       \/ /\ checker' \in {"select", "returned"}
          /\ UNCHANGED <<main, server, checkerDB, inflight, signalled, exit, boots>>

\* Check is over, or a nil dereference in one of its goroutines was.
EndCheck ==
    /\ Alive /\ checker = "checking"
    /\ \/ Die("panic")
       \/ /\ checker' = "select"
          /\ UNCHANGED <<main, server, checkerDB, inflight, signalled, exit, boots>>

\* SIGINT or SIGTERM.  Before NotifyContext it kills the process, and after
\* the first one more signals change nothing.
Signal ==
    /\ Alive /\ ~signalled
    /\ signalled' = TRUE
    /\ exit' = IF main = "init" THEN "killed" ELSE exit
    /\ UNCHANGED <<main, server, checker, checkerDB, inflight, boots>>

\* http.Server.Shutdown closes the listener ...
StopServer ==
    /\ Alive /\ main = "wait" /\ signalled
    /\ main' = "drain"
    /\ server' = "closed"
    /\ UNCHANGED <<checker, checkerDB, inflight, signalled, exit, boots>>

\* Mutant: an error of Shutdown is not looked at.
DrainAnyway ==
    /\ Alive /\ main = "drain"
    /\ main' = "handshake"
    /\ UNCHANGED <<server, checker, checkerDB, inflight, signalled, exit, boots>>

\* ... and looks at the connections once: the context it is to wait on is the
\* one the signal has cancelled, so a request in flight is an error at once,
\* and main ends the process.  It may end it with nothing in flight too: err
\* is shared with the goroutine of app.Run, which stores ErrServerClosed there.
Drain ==
    /\ Alive /\ main = "drain"
    /\ \/ Die("fatal")
       \/ /\ inflight = {}
          /\ main' = "handshake"
          /\ UNCHANGED <<server, checker, checkerDB, inflight, signalled, exit, boots>>

\* Mutant: done is closed without waiting for Run to receive.
HandshakeWithoutWaiting ==
    /\ Alive /\ main = "handshake"
    /\ main' = "closeDB"
    /\ checker' = IF checker = "select" THEN "returned" ELSE checker
    /\ UNCHANGED <<server, checkerDB, inflight, signalled, exit, boots>>

\* Checker.Shutdown sends on the unbuffered channel done: it meets Run in its
\* select, and never a check.  On a nil checker it panics.
Handshake ==
    /\ Alive /\ main = "handshake"
    /\ \/ checker = "nil" /\ Die("panic")
       \/ /\ checker = "select"
          /\ checker' = "returned"
          /\ main' = "closeDB"
          /\ UNCHANGED <<server, checkerDB, inflight, signalled, exit, boots>>

\* close(done), db.Close, and the end of main.
CloseDB ==
    /\ Alive /\ main = "closeDB"
    /\ \/ Die("fatal")
       \/ /\ checkerDB' = "closed"
          /\ main' = "done"
          /\ exit' = "clean"
          /\ UNCHANGED <<server, checker, inflight, signalled, boots>>

\* The supervisor starts the process again.
Boot ==
    /\ ~Alive /\ boots < MaxBoots
    /\ main' = "init" /\ server' = "off" /\ checker' = "off" /\ checkerDB' = "none"
    /\ inflight' = {} /\ signalled' = FALSE /\ exit' = "no" /\ boots' = boots + 1

\* The steps of the process that concern no request.
Live ==
    \/ Start \/ Listen \/ RunChecker \/ Tick \/ EndCheck \/ Signal
    \/ StopServer \/ Drain \/ Handshake \/ CloseDB

\* main and the checker go on.  A select with both cases ready takes each of
\* them with probability 1/2, hence the strong fairness of Handshake.
ProcessFairness ==
    /\ WF_process(RunChecker) /\ WF_process(EndCheck)
    /\ WF_process(StopServer) /\ WF_process(Drain) /\ WF_process(CloseDB)
    /\ SF_process(Handshake)

-----------------------------------------------------------------------------
(* Properties *)

\* "app exited" is true: when main returns without an error nothing is cut
\* off, no request and no check (cmd/main.go).
CleanExit == exit = "clean" => inflight = {} /\ checker = "returned"

\* The checker never works on the database handle Shutdown has closed.
DatabaseOutlivesChecker == checkerDB = "closed" => checker \notin {"started", "select", "checking"}

\* A signal ends the process, whatever requests and checks are under way, and
\* also when the checker could not be created: nobody waits for ever on the
\* unbuffered channel.
SignalEndsProcess == signalled ~> ~Alive
===============================================================================
