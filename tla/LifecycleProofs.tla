--------------------------- MODULE LifecycleProofs ---------------------------
(* Theorems about any number of server processes over one address.         *)
EXTENDS Lifecycle, TLAPS

Places == {"none", "loading", "bind", "listening", "waiting", "exited"}

LifecycleTypes ==
    /\ setting \in {"loopback", "unix"}
    /\ main \in [Processes -> Places]
    /\ serve \in [Processes ->
                    [Addresses -> {"none", "bound", "accepting", "returned", "failed"}]]
    /\ shutdown \in [Processes -> {"none", "armed", "draining", "done"}]
    /\ path \in Processes \cup {Nobody}
    /\ met \subseteq Processes

(* The address every process of a setting must have.                       *)
Essential == IF setting = "unix" THEN "socket" ELSE "ipv4"

(* It has, may take or may remove an address.                              *)
Contends(p) == main[p] \in {"loading", "bind"} \/ Holds(p) # {}

(* Of two that contend, the later one found the earlier one there.         *)
ContendersHaveMet ==
    \A p, q \in Processes :
        p # q /\ Contends(p) /\ Contends(q) => p \in met /\ q \in met

(* The essential address is taken last, and then kept until a shutdown or  *)
(* a failure.                                                              *)
EssentialIsHeld ==
    \A p \in Processes :
        /\ main[p] \in {"none", "loading", "bind"} => serve[p][Essential] = "none"
        /\ main[p] = "listening" => serve[p][Essential] = "bound"
        /\ Running(p) /\ shutdown[p] = "armed" =>
              serve[p][Essential] \in {"accepting", "failed"}

(* A file that appears after the old one was removed is a contender's.     *)
NewFileIsOfAContender ==
    \A p \in Processes :
        setting = "unix" /\ main[p] = "bind" /\ path # Nobody => p \in met

(* Only contenders take the path away from the process that made it.       *)
PathLeadsHome ==
    \A p \in Processes :
        setting = "unix" /\ "socket" \in Holds(p) => p \in met \/ path = p

(* The inductive invariant: a process knows the ones it may meet from its  *)
(* launch on (ContendersHaveMet), because one can begin to contend only by *)
(* being launched.                                                         *)
LifecycleInv == /\ LifecycleTypes
                /\ ContendersHaveMet
                /\ EssentialIsHeld
                /\ NewFileIsOfAContender
                /\ PathLeadsHome
                /\ RefusedOnlyByTheLiving

(* No process has been launched.                                           *)
LEMMA LifecycleInitInv == LifecycleInit => LifecycleInv
  BY LifecycleAssumptions
  DEF LifecycleInit, LifecycleInv, LifecycleTypes, Places, ContendersHaveMet,
      Contends, Holds, Alive, EssentialIsHeld, Essential, Addresses, Listeners,
      Running, NewFileIsOfAContender, PathLeadsHome, RefusedOnlyByTheLiving

----------------------------------------------------------------------------

(* What the goroutines of one process may do.                              *)
ProcessStep(p) ==
    \/ Launch(p) \/ StartFails(p) \/ Listen(p) \/ Serve(p) \/ Killed(p)
    \/ Signal(p) \/ BeginShutdown(p) \/ EndShutdown(p)
    \/ \E a \in Addresses : ServeClosed(p, a) \/ ServeFails(p, a)
    \/ MainExits(p)
    \/ RequestBegins(p) \/ RequestEnds(p)

(* Every step stays within the declared types.                             *)
LEMMA LifecycleStepTypes ==
    ASSUME LifecycleTypes, NEW p \in Processes, ProcessStep(p)
    PROVE  LifecycleTypes'
  <1> USE LifecycleAssumptions
      DEF LifecycleTypes, Places, Goto, Exits, Becomes, goroutineVars
  <1>1. CASE Launch(p)
    BY <1>1 DEF Launch, Around
  <1>2. CASE StartFails(p) \/ Killed(p) \/ RemoveSocket(p) \/ ListenRefused(p) \/ MainExits(p)
    BY <1>2 DEF StartFails, Killed, RemoveSocket, ListenRefused, MainExits
  <1>3. CASE ListenIPv6(p)
    BY <1>3 DEF ListenIPv6, Addresses, Listeners
  <1>4. CASE ListenSocket(p)
    <2>1. CASE Becomes(p, "socket", "bound") /\ path' = p /\ Goto(p, "listening")
      BY <1>4, <2>1 DEF ListenSocket, Addresses, Listeners
    <2>2. CASE UNCHANGED <<path, serve>> /\ Exits(p)
      BY <1>4, <2>2 DEF ListenSocket
    <2> QED
      BY <1>4, <2>1, <2>2 DEF ListenSocket
  <1>5. CASE ListenIPv4(p)
    BY <1>5 DEF ListenIPv4, Addresses, Listeners
  <1>6. CASE Serve(p)
    BY <1>6 DEF Serve
  <1>7. CASE Signal(p) \/ BeginShutdown(p) \/ EndShutdown(p) \/ RequestBegins(p) \/ RequestEnds(p)
    BY <1>7 DEF Signal, BeginShutdown, EndShutdown, RequestBegins, RequestEnds
  <1>8. ASSUME NEW a \in Addresses, ServeClosed(p, a) \/ ServeFails(p, a)
        PROVE  LifecycleTypes'
    <2>1. path' \in Processes \cup {Nobody}
      BY <1>8 DEF ServeClosed, ServeFails, Unlinks
    <2>2. serve' \in [Processes ->
                [Addresses -> {"none", "bound", "accepting", "returned", "failed"}]]
      <3>1. PICK state \in {"returned", "failed"} :
               serve' = [serve EXCEPT ![p][a] = state]
        BY <1>8 DEF ServeClosed, ServeFails
      <3> QED
        BY <3>1
    <2> QED
      BY <1>8, <2>1, <2>2 DEF ServeClosed, ServeFails
  <1> QED
    BY <1>1, <1>2, <1>3, <1>4, <1>5, <1>6, <1>7, <1>8 DEF ProcessStep, Listen

(* A step is one process's, and changes nothing of another but the path to *)
(* its socket.                                                             *)
LEMMA OthersKeepWhatTheyHold ==
    ASSUME LifecycleTypes, NEW p \in Processes, ProcessStep(p),
           NEW q \in Processes, q # p
    PROVE  /\ setting' = setting
           /\ main'[q] = main[q] /\ serve'[q] = serve[q] /\ shutdown'[q] = shutdown[q]
           /\ Holds(q)' = Holds(q) /\ Contends(q)' = Contends(q)
  <1>1. /\ setting' = setting
        /\ main'[q] = main[q] /\ serve'[q] = serve[q] /\ shutdown'[q] = shutdown[q]
    BY DEF LifecycleTypes, ProcessStep, Launch, StartFails, Killed, Listen,
       RemoveSocket, ListenIPv6, ListenSocket, ListenIPv4, ListenRefused, Serve,
       MainExits, Signal, BeginShutdown, EndShutdown, RequestBegins, RequestEnds,
       ServeClosed, ServeFails, Goto, Exits, Becomes, goroutineVars
  <1>2. Holds(q)' = Holds(q)
    BY <1>1 DEF Holds, Alive
  <1> QED
    BY <1>1, <1>2 DEF Contends

(* A process begins to contend by being launched only.                     *)
LEMMA OnlyALaunchContends ==
    ASSUME LifecycleTypes, NEW p \in Processes, ProcessStep(p), Contends(p)'
    PROVE  Launch(p) \/ Contends(p)
  BY DEF LifecycleTypes, ProcessStep, StartFails, Killed, Listen,
     RemoveSocket, ListenIPv6, ListenSocket, ListenIPv4, ListenRefused, Serve,
     MainExits, Signal, BeginShutdown, EndShutdown, RequestBegins, RequestEnds,
     ServeClosed, ServeFails, Goto, Exits, Becomes, goroutineVars, Contends,
     Holds, Alive

(* Whoever contends after the step was met by the one that was launched.   *)
LEMMA StepContendersHaveMet ==
    ASSUME LifecycleTypes, ContendersHaveMet, NEW p \in Processes, ProcessStep(p)
    PROVE  ContendersHaveMet'
  <1>1. met \subseteq met'
    BY DEF ProcessStep, Launch, StartFails, Killed, Listen,
       RemoveSocket, ListenIPv6, ListenSocket, ListenIPv4, ListenRefused, Serve,
       MainExits, Signal, BeginShutdown, EndShutdown, RequestBegins, RequestEnds,
       ServeClosed, ServeFails
  <1>2. ASSUME NEW q \in Processes, q # p, Contends(q), Launch(p)
        PROVE  p \in met' /\ q \in met'
    BY <1>2 DEF Launch, Around, Contends
  <1>3. ASSUME NEW q \in Processes, NEW r \in Processes, q # r,
               Contends(q)', Contends(r)'
        PROVE  q \in met' /\ r \in met'
    <2>1. \A u \in Processes \ {p} : Contends(u)' => Contends(u)
      BY OthersKeepWhatTheyHold
    <2>2. CASE Contends(q) /\ Contends(r)
      BY <1>1, <1>3, <2>2 DEF ContendersHaveMet
    <2>3. CASE ~ Contends(q)
      BY <1>2, <1>3, <2>1, <2>3, OnlyALaunchContends
    <2>4. CASE ~ Contends(r)
      BY <1>2, <1>3, <2>1, <2>4, OnlyALaunchContends
    <2> QED
      BY <2>2, <2>3, <2>4
  <1> QED
    BY <1>3 DEF ContendersHaveMet

(* Of its own goroutines only a closing or a failing listener gives the    *)
(* essential address up.                                                   *)
LEMMA StepEssentialIsHeld ==
    ASSUME LifecycleTypes, EssentialIsHeld, NEW p \in Processes, ProcessStep(p)
    PROVE  EssentialIsHeld'
  <1>1. ASSUME NEW q \in Processes, q # p
        PROVE  UNCHANGED <<setting, main[q], serve[q], shutdown[q]>>
    BY <1>1, OthersKeepWhatTheyHold
  <1> DEFINE Held(q) ==
        /\ main[q] \in {"none", "loading", "bind"} => serve[q][Essential] = "none"
        /\ main[q] = "listening" => serve[q][Essential] = "bound"
        /\ Running(q) /\ shutdown[q] = "armed" =>
              serve[q][Essential] \in {"accepting", "failed"}
  <1>2. Held(p)'
    <2> USE DEF LifecycleTypes, Goto, Exits, Becomes, goroutineVars, Running,
                Essential, Addresses, Listeners
    <2>0. Held(p)
      BY DEF EssentialIsHeld
    <2>1. CASE Launch(p) \/ StartFails(p) \/ Killed(p) \/ RemoveSocket(p)
                 \/ ListenRefused(p) \/ MainExits(p)
      BY <2>0, <2>1 DEF Launch, StartFails, Killed, RemoveSocket, ListenRefused, MainExits
    <2>2. CASE ListenIPv6(p) \/ ListenSocket(p) \/ ListenIPv4(p)
      BY <2>0, <2>2 DEF ListenIPv6, ListenSocket, ListenIPv4
    <2>3. CASE Serve(p)
      BY <2>0, <2>3 DEF Serve
    <2>4. CASE Signal(p) \/ BeginShutdown(p) \/ EndShutdown(p) \/ RequestBegins(p) \/ RequestEnds(p)
      BY <2>0, <2>4 DEF Signal, BeginShutdown, EndShutdown, RequestBegins, RequestEnds
    <2>5. ASSUME NEW a \in Addresses, ServeClosed(p, a) \/ ServeFails(p, a)
          PROVE  Held(p)'
      BY <2>0, <2>5 DEF ServeClosed, ServeFails, Closing
    <2> QED
      BY <2>1, <2>2, <2>3, <2>4, <2>5 DEF ProcessStep, Listen
  <1>3. ASSUME NEW q \in Processes, q # p PROVE Held(q)'
    BY <1>1, <1>3 DEF EssentialIsHeld, Running, Essential
  <1> QED
    BY <1>2, <1>3 DEF EssentialIsHeld

(* A process that makes or removes the socket file contends.               *)
LEMMA OnlyContendersTouchThePath ==
    ASSUME LifecycleTypes, NEW p \in Processes, ProcessStep(p), path' # path
    PROVE  /\ Contends(p)
           /\ \/ path' = Nobody
              \/ path' = p /\ main'[p] = "listening" /\ main[p] = "bind"
  BY DEF LifecycleTypes, ProcessStep, Launch, StartFails, Killed, Listen,
     RemoveSocket, ListenIPv6, ListenSocket, ListenIPv4, ListenRefused, Serve,
     MainExits, Signal, BeginShutdown, EndShutdown, RequestBegins, RequestEnds,
     ServeClosed, ServeFails, Goto, Exits, Becomes, goroutineVars, Contends,
     Holds, Alive, Unlinks, Running

(* The path to a socket file is lost to contenders, and found by them.     *)
LEMMA StepPath ==
    ASSUME LifecycleInv, NEW p \in Processes, ProcessStep(p)
    PROVE  NewFileIsOfAContender' /\ PathLeadsHome'
  <1> USE DEF LifecycleInv
  <1>1. met \subseteq met' /\ setting' = setting
    BY DEF ProcessStep, Launch, StartFails, Killed, Listen,
       RemoveSocket, ListenIPv6, ListenSocket, ListenIPv4, ListenRefused, Serve,
       MainExits, Signal, BeginShutdown, EndShutdown, RequestBegins, RequestEnds,
       ServeClosed, ServeFails, goroutineVars
  <1>2. ASSUME NEW q \in Processes, q # p, path' # path, Contends(q)
        PROVE  q \in met
    BY <1>2, OnlyContendersTouchThePath DEF ContendersHaveMet
  <1>3. ASSUME NEW q \in Processes, q # p,
               setting = "unix", main'[q] = "bind", path' # Nobody
        PROVE  q \in met
    BY <1>2, <1>3, OthersKeepWhatTheyHold DEF NewFileIsOfAContender, Contends
  <1>4. ASSUME NEW q \in Processes, q # p,
               setting = "unix", "socket" \in Holds(q)'
        PROVE  q \in met \/ path' = q
    BY <1>2, <1>4, OthersKeepWhatTheyHold DEF PathLeadsHome, Contends
  <1>5. ASSUME setting = "unix", main'[p] = "bind"
        PROVE  path' = Nobody
    BY <1>5 DEF LifecycleTypes, ProcessStep, Launch, StartFails, Killed, Listen,
       RemoveSocket, ListenIPv6, ListenSocket, ListenIPv4, ListenRefused, Serve,
       MainExits, Signal, BeginShutdown, EndShutdown, RequestBegins, RequestEnds,
       ServeClosed, ServeFails, Goto, Exits, Becomes, goroutineVars, Running
  <1>6. ASSUME setting = "unix", "socket" \in Holds(p)'
        PROVE  p \in met \/ path' = p
    <2>1. serve[p]["socket"] = "none" \/ main[p] \notin {"none", "loading", "bind"}
      BY <1>6 DEF EssentialIsHeld, Essential
    <2>2. p \in met \/ path = p \/ "socket" \notin Holds(p)
      BY <1>6 DEF PathLeadsHome
    <2> USE DEF LifecycleTypes, Goto, Exits, Becomes, goroutineVars, Holds, Alive
    <2>3. CASE Launch(p) \/ StartFails(p) \/ Killed(p) \/ RemoveSocket(p)
                 \/ ListenRefused(p) \/ MainExits(p)
      BY <1>6, <2>1, <2>2, <2>3
      DEF Launch, StartFails, Killed, RemoveSocket, ListenRefused, MainExits
    <2>4. CASE ListenIPv6(p) \/ ListenSocket(p) \/ ListenIPv4(p)
      BY <1>6, <2>1, <2>4 DEF ListenIPv6, ListenSocket, ListenIPv4
    <2>5. CASE Serve(p)
      BY <1>6, <2>2, <2>5 DEF Serve
    <2>6. CASE Signal(p) \/ BeginShutdown(p) \/ EndShutdown(p) \/ RequestBegins(p) \/ RequestEnds(p)
      BY <1>6, <2>2, <2>6 DEF Signal, BeginShutdown, EndShutdown, RequestBegins, RequestEnds
    <2>7. ASSUME NEW a \in Addresses, ServeClosed(p, a) \/ ServeFails(p, a)
          PROVE  p \in met \/ path' = p
      BY <1>6, <2>2, <2>7 DEF ServeClosed, ServeFails, Unlinks, Running
    <2> QED
      BY <2>3, <2>4, <2>5, <2>6, <2>7 DEF ProcessStep, Listen
  <1>7. NewFileIsOfAContender'
    BY <1>1, <1>3, <1>5 DEF NewFileIsOfAContender
  <1>8. PathLeadsHome'
    BY <1>1, <1>4, <1>6 DEF PathLeadsHome
  <1> QED
    BY <1>7, <1>8

(* Only a start that met another process is refused.                       *)
LEMMA StepRefused ==
    ASSUME LifecycleInv, NEW p \in Processes, ProcessStep(p)
    PROVE  RefusedOnlyByTheLiving'
  <1> USE DEF LifecycleInv, RefusedOnlyByTheLiving
  <1>1. CASE ListenRefused(p)
    <2>1. main[p] = "bind" /\ refused' = refused \cup {p} /\ met' = met
      BY <1>1 DEF ListenRefused
    <2>2. CASE setting = "unix"
      BY <1>1, <2>1, <2>2 DEF ListenRefused, NewFileIsOfAContender
    <2>3. CASE setting # "unix"
      <3>1. PICK q \in Processes : "ipv4" \in Holds(q)
        BY <1>1, <2>3 DEF ListenRefused, InUse
      <3>2. q # p
        BY <2>1, <2>3, <3>1 DEF EssentialIsHeld, Essential, Holds
      <3> QED
        BY <2>1, <3>1, <3>2 DEF ContendersHaveMet, Contends
    <2> QED
      BY <2>2, <2>3
  <1>2. CASE ~ ListenRefused(p)
    <2>1. refused' = refused /\ met \subseteq met'
      BY <1>2 DEF ProcessStep, Launch, StartFails, Killed, Listen,
         RemoveSocket, ListenIPv6, ListenSocket, ListenIPv4, Serve,
         MainExits, Signal, BeginShutdown, EndShutdown, RequestBegins, RequestEnds,
         ServeClosed, ServeFails
    <2> QED
      BY <2>1
  <1> QED
    BY <1>1, <1>2

(* Every step keeps the invariant.                                         *)
LEMMA LifecycleStepInv ==
    LifecycleInv /\ [LifecycleNext]_lifecycleVars => LifecycleInv'
  <1> SUFFICES ASSUME LifecycleInv, [LifecycleNext]_lifecycleVars
               PROVE  LifecycleInv'
    OBVIOUS
  <1>1. ASSUME NEW p \in Processes, ProcessStep(p) PROVE LifecycleInv'
    BY <1>1, LifecycleStepTypes, StepContendersHaveMet, StepEssentialIsHeld,
       StepPath, StepRefused DEF LifecycleInv
  <1>2. CASE UNCHANGED lifecycleVars
    BY <1>2 DEF lifecycleVars, goroutineVars, LifecycleInv, LifecycleTypes,
       ContendersHaveMet, Contends, Holds, Alive, EssentialIsHeld, Essential,
       Running, NewFileIsOfAContender, PathLeadsHome, RefusedOnlyByTheLiving
  <1>3. LifecycleNext => \E p \in Processes : ProcessStep(p)
    BY DEF LifecycleNext, ProcessStep
  <1> QED
    BY <1>1, <1>2, <1>3

(* The invariant holds throughout.                                         *)
LEMMA LifecycleInvariant == LifecycleSpec => []LifecycleInv
  BY LifecycleInitInv, LifecycleStepInv, PTL DEF LifecycleSpec

(* Of any number of processes, a start is refused only if another process  *)
(* was there at the time (main.go:87-90).                                  *)
THEOREM RefusalsAreJustified == LifecycleSpec => []RefusedOnlyByTheLiving
  <1>1. LifecycleInv => RefusedOnlyByTheLiving
    BY DEF LifecycleInv
  <1> QED
    BY LifecycleInvariant, <1>1, PTL

(* Of any number of processes, one that serves can be reached up to its    *)
(* own shutdown or failure, unless over a Unix socket another contended.   *)
THEOREM ServersAreReachable == LifecycleSpec => []ServingIsReachable
  <1>1. LifecycleInv => ServingIsReachable
    <2> SUFFICES ASSUME LifecycleInv, NEW p \in Processes,
                        Running(p), shutdown[p] = "armed",
                        \A a \in Addresses : serve[p][a] # "failed",
                        setting = "loopback" \/ p \notin met
                 PROVE  Reaches(p)
      BY DEF ServingIsReachable
    <2>1. Essential \in Addresses /\ serve[p][Essential] = "accepting"
      BY DEF LifecycleInv, EssentialIsHeld, Essential, Addresses, Listeners
    <2>2. Essential \in Holds(p)
      BY <2>1 DEF Holds, Alive, Running
    <2> QED
      BY <2>2 DEF LifecycleInv, LifecycleTypes, PathLeadsHome, Essential, Reaches
  <1> QED
    BY LifecycleInvariant, <1>1, PTL
=============================================================================
