----------------------------- MODULE Lifecycle -----------------------------
(***************************************************************************)
(* The life of the server process (src/cmd/mygpt-cf-tunnel/main.go): the   *)
(* main goroutine, which listens and then waits for a failure, one         *)
(* goroutine per listener in server.Serve, and the one that waits for a    *)
(* signal and shuts the server down.                                       *)
(*                                                                         *)
(* Several processes may live over one address: setup-new-server.sh:112    *)
(* signals the old one and starts the new one at once, run.sh:81 after a   *)
(* second, and systemd after the old one has ended.  An address is either  *)
(* a loopback port, which the kernel lets one process hold at a time, or a *)
(* Unix socket, whose file leads to the process that made it - also when   *)
(* that process is gone - and is unlinked by its path.                     *)
(***************************************************************************)
EXTENDS Naturals, FiniteSets

CONSTANTS Processes,
          Nobody,
          Settings,        \* of LISTEN_ADDR: "loopback" or "unix"
          MaxOpen          \* bound of the requests in progress

Listeners(s) == IF s = "unix" THEN {"socket"} ELSE {"ipv4", "ipv6"}

Addresses == Listeners("unix") \cup Listeners("loopback")

ASSUME LifecycleAssumptions == /\ Nobody \notin Processes
                               /\ Settings \subseteq {"loopback", "unix"}
                               /\ MaxOpen \in Nat

VARIABLES setting,     \* which kind of address is configured
          main,        \* per process, its main goroutine
          serve,       \* per process and listener, the goroutine in Serve
          serveErr,    \* number of values in the channel
          signalled,   \* processes that caught a SIGINT or SIGTERM
          shutdown,    \* the goroutine that waits for the signal
          open,        \* requests in progress
          path,        \* the process the socket file leads to, or Nobody
          refused,     \* history: processes that found their address in use
          met          \* history: processes that lived together over it

goroutineVars == <<serve, serveErr, signalled, shutdown, open>>
lifecycleVars == <<setting, main, goroutineVars, path, refused, met>>

LifecycleInit ==
    /\ setting \in Settings
    /\ main = [p \in Processes |-> "none"]
    /\ serve = [p \in Processes |-> [a \in Addresses |-> "none"]]
    /\ serveErr = [p \in Processes |-> 0]
    /\ signalled = {}
    /\ shutdown = [p \in Processes |-> "none"]
    /\ open = [p \in Processes |-> 0]
    /\ path = Nobody
    /\ refused = {} /\ met = {}

Running(p) == main[p] = "waiting"

Alive(p) == main[p] \notin {"none", "exited"}

(* What the kernel has listening for a process.                            *)
Holds(p) == {a \in Addresses : Alive(p) /\ serve[p][a] \in {"bound", "accepting"}}

InUse(a) == \E q \in Processes : a \in Holds(q)

Goto(p, place) == main' = [main EXCEPT ![p] = place]

Exits(p) == Goto(p, "exited")

Becomes(p, a, state) == serve' = [serve EXCEPT ![p][a] = state]

(* Closing a Unix listener unlinks its path, whoever listens there now.    *)
Unlinks(a) == path' = IF a = "socket" THEN Nobody ELSE path

----------------------------------------------------------------------------
(* From the start of a process to the end of listen.                       *)

(* Those that have an address, or may yet take or remove one.              *)
Around(p) == {q \in Processes \ {p} : \/ main[q] \in {"loading", "bind"}
                                      \/ Holds(q) # {}}

Launch(p) == /\ main[p] = "none"
             /\ Goto(p, "loading")
             /\ met' = IF Around(p) = {} THEN met ELSE met \cup {p} \cup Around(p)
             /\ UNCHANGED <<setting, goroutineVars, path, refused>>

(* Configuration or New fails, or the old socket file cannot be removed:   *)
(* os.Exit, which runs no deferred call.                                   *)
StartFails(p) == /\ main[p] = "loading"
                 /\ Exits(p)
                 /\ UNCHANGED <<setting, goroutineVars, path, refused, met>>

(* Fault: the file a former process left is not removed.                   *)
LeaveSocket(p) == /\ setting = "unix" /\ main[p] = "loading"
                  /\ Goto(p, "bind")
                  /\ UNCHANGED <<setting, goroutineVars, path, refused, met>>

RemoveSocket(p) == /\ setting = "unix" /\ main[p] = "loading"
                   /\ Goto(p, "bind")
                   /\ path' = Nobody
                   /\ UNCHANGED <<setting, goroutineVars, refused, met>>

(* IPv6 may be unavailable, or its port in use; either is ignored.  (A     *)
(* host other than 127.0.0.1 has no IPv6 listener either.)                 *)
ListenIPv6(p) ==
    /\ setting = "loopback" /\ main[p] = "loading"
    /\ Goto(p, "bind")
    /\ \/ ~ InUse("ipv6") /\ Becomes(p, "ipv6", "bound")
       \/ UNCHANGED serve
    /\ UNCHANGED <<setting, serveErr, signalled, shutdown, open, path, refused, met>>

(* The file is made, or it cannot be opened to all and is unlinked again.  *)
ListenSocket(p) ==
    /\ setting = "unix" /\ main[p] = "bind"
    /\ path = Nobody
    /\ \/ Goto(p, "listening") /\ path' = p /\ Becomes(p, "socket", "bound")
       \/ Exits(p) /\ UNCHANGED <<path, serve>>
    /\ UNCHANGED <<setting, serveErr, signalled, shutdown, open, refused, met>>

(* Fault: without IPv4 the service runs with IPv6 alone.                   *)
ListenIPv4OrNot(p) ==
    /\ setting = "loopback" /\ main[p] = "bind"
    /\ Goto(p, "listening")
    /\ IF InUse("ipv4") THEN UNCHANGED serve ELSE Becomes(p, "ipv4", "bound")
    /\ UNCHANGED <<setting, serveErr, signalled, shutdown, open, path, refused, met>>

ListenIPv4(p) ==
    /\ setting = "loopback" /\ main[p] = "bind"
    /\ ~ InUse("ipv4")
    /\ Goto(p, "listening")
    /\ Becomes(p, "ipv4", "bound")
    /\ UNCHANGED <<setting, serveErr, signalled, shutdown, open, path, refused, met>>

(* "address already in use"; an IPv6 listener is closed again.             *)
ListenRefused(p) ==
    /\ main[p] = "bind"
    /\ IF setting = "unix" THEN path # Nobody ELSE InUse("ipv4")
    /\ Exits(p)
    /\ refused' = refused \cup {p}
    /\ UNCHANGED <<setting, goroutineVars, path, met>>

(* The signal is caught from now on, and the listeners are served.         *)
Serve(p) == /\ main[p] = "listening"
            /\ Goto(p, "waiting")
            /\ serve' = [serve EXCEPT ![p] = [a \in Addresses |->
                            IF @[a] = "bound" THEN "accepting" ELSE @[a]]]
            /\ shutdown' = [shutdown EXCEPT ![p] = "armed"]
            /\ UNCHANGED <<setting, serveErr, signalled, open, path, refused, met>>

(* SIGKILL, a panic, or a signal that is not caught yet.  A socket file    *)
(* stays.                                                                  *)
Killed(p) == /\ Alive(p)
             /\ Exits(p)
             /\ UNCHANGED <<setting, goroutineVars, path, refused, met>>

----------------------------------------------------------------------------
(* A process that serves.                                                  *)

(* signal.NotifyContext cancels on the first signal and, until stop runs,  *)
(* goes on catching the ones that follow.                                  *)
Signal(p) == /\ Running(p)
             /\ signalled' = signalled \cup {p}
             /\ UNCHANGED <<setting, main, serve, serveErr, shutdown, open, path,
                            refused, met>>

(* server.Shutdown closes the listeners and waits for the requests ...     *)
BeginShutdown(p) ==
    /\ Running(p) /\ p \in signalled /\ shutdown[p] = "armed"
    /\ shutdown' = [shutdown EXCEPT ![p] = "draining"]
    /\ UNCHANGED <<setting, main, serve, serveErr, signalled, open, path, refused,
                   met>>

(* ... until there are none, or for five seconds.                          *)
EndShutdown(p) ==
    /\ Running(p) /\ shutdown[p] = "draining" /\ Holds(p) = {}
    /\ shutdown' = [shutdown EXCEPT ![p] = "done"]
    /\ UNCHANGED <<setting, main, serve, serveErr, signalled, open, path, refused,
                   met>>

Closing(p) == shutdown[p] \in {"draining", "done"}

(* Fault: the listeners are closed after the requests have ended.          *)
ServeClosedLast(p, a) ==
    /\ Running(p) /\ Closing(p) /\ open[p] = 0
    /\ serve[p][a] = "accepting"
    /\ Becomes(p, a, "returned") /\ Unlinks(a)
    /\ UNCHANGED <<setting, main, serveErr, signalled, shutdown, open, refused, met>>

(* Shutdown closes one of the listeners, and Serve returns                 *)
(* http.ErrServerClosed, which is not sent.                                *)
ServeClosed(p, a) ==
    /\ Running(p) /\ Closing(p)
    /\ serve[p][a] = "accepting"
    /\ Becomes(p, a, "returned") /\ Unlinks(a)
    /\ UNCHANGED <<setting, main, serveErr, signalled, shutdown, open, refused, met>>

(* Fault: the goroutine returns without sending the error.                 *)
ServeFailsSilently(p, a) ==
    /\ Running(p) /\ ~ Closing(p)
    /\ serve[p][a] = "accepting"
    /\ Becomes(p, a, "failed") /\ Unlinks(a)
    /\ UNCHANGED <<setting, main, serveErr, signalled, shutdown, open, refused, met>>

(* Serve returns another error, which is sent.                             *)
ServeFails(p, a) ==
    /\ Running(p) /\ ~ Closing(p)
    /\ serve[p][a] = "accepting"
    /\ Becomes(p, a, "failed") /\ Unlinks(a)
    /\ serveErr' = [serveErr EXCEPT ![p] = @ + 1]
    /\ UNCHANGED <<setting, main, signalled, shutdown, open, refused, met>>

(* main receives; os.Exit again skips the deferred handler.Close.          *)
MainExits(p) ==
    /\ Running(p) /\ serveErr[p] > 0
    /\ serveErr' = [serveErr EXCEPT ![p] = @ - 1]
    /\ Exits(p)
    /\ UNCHANGED <<setting, serve, signalled, shutdown, open, path, refused, met>>

(* A client reaches the process by the port, or by the file.               *)
Reaches(p) == IF setting = "unix" THEN path = p /\ "socket" \in Holds(p)
                                  ELSE "ipv4" \in Holds(p)

RequestBegins(p) ==
    /\ Running(p) /\ Reaches(p)
    /\ open[p] < MaxOpen
    /\ open' = [open EXCEPT ![p] = @ + 1]
    /\ UNCHANGED <<setting, main, serve, serveErr, signalled, shutdown, path,
                   refused, met>>

RequestEnds(p) ==
    /\ Running(p) /\ open[p] > 0
    /\ open' = [open EXCEPT ![p] = @ - 1]
    /\ UNCHANGED <<setting, main, serve, serveErr, signalled, shutdown, path,
                   refused, met>>

Listen(p) == \/ RemoveSocket(p) \/ ListenIPv6(p)
             \/ ListenSocket(p) \/ ListenIPv4(p) \/ ListenRefused(p)

LifecycleNext ==
    \E p \in Processes :
        \/ Launch(p) \/ StartFails(p) \/ Listen(p) \/ Serve(p) \/ Killed(p)
        \/ Signal(p) \/ BeginShutdown(p) \/ EndShutdown(p)
        \/ \E a \in Addresses : ServeClosed(p, a) \/ ServeFails(p, a)
        \/ MainExits(p)
        \/ RequestBegins(p) \/ RequestEnds(p)

(* Every goroutine of a process that can go on does; requests need not end *)
(* (a command's daemon can keep one for ever).                             *)
LifecycleFairness ==
    \A p \in Processes :
        /\ WF_lifecycleVars(Listen(p) \/ Serve(p))
        /\ WF_lifecycleVars(BeginShutdown(p))
        /\ WF_lifecycleVars(EndShutdown(p))
        /\ \A a \in Addresses : WF_lifecycleVars(ServeClosed(p, a))
        /\ WF_lifecycleVars(MainExits(p))

LifecycleSpec == LifecycleInit /\ [][LifecycleNext]_lifecycleVars /\ LifecycleFairness

----------------------------------------------------------------------------

(* When one of the listeners fails the process ends, so that systemd can   *)
(* start it again, even if the other goes on serving and even if a signal  *)
(* has the server shut down at the same time (main.go:63-76).              *)
ListenerFailureEndsProcess ==
    \A p \in Processes, a \in Addresses :
        serve[p][a] = "failed" ~> main[p] = "exited"

(* A signal frees the address, whatever requests are in progress, so that  *)
(* the next process can have it (main.go:54-61; run.sh:82 allows for one   *)
(* second).                                                                *)
SignalFreesAddress == \A p \in Processes : p \in signalled ~> Holds(p) = {}

(* A start fails for an address in use only if another process was there   *)
(* at the time: never for a file that a killed one has left (main.go:87-90 *)
(* "to avoid address already in use").                                     *)
RefusedOnlyByTheLiving == refused \subseteq met

(* A process that serves can be reached, by IPv4 or by its socket file, up *)
(* to its own shutdown or failure: no leftover of an earlier process, nor  *)
(* the end of one whose listeners were closed before it began, takes its   *)
(* address away.  (A process that closes its Unix listener later does: it  *)
(* unlinks the path of its successor, and the successor goes on serving a  *)
(* socket nobody can find.)                                                *)
ServingIsReachable ==
    \A p \in Processes :
        /\ Running(p) /\ shutdown[p] = "armed"
        /\ \A a \in Addresses : serve[p][a] # "failed"
        /\ setting = "loopback" \/ p \notin met
        => Reaches(p)

(* A SIGINT or SIGTERM ends the process: main.go:54-61 catches it in order *)
(* to shut down within five seconds, and main.go:30-34 has the audit sink  *)
(* closed when main returns.                                               *)
SignalEndsProcess ==
    \A p \in Processes : p \in signalled ~> main[p] = "exited"
=============================================================================
