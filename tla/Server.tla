------------------------------- MODULE Server -------------------------------
(* The life of a server of a wiki and of the process that holds it: the      *)
(* desktop shell's launch (is the wiki open already, which port, what the    *)
(* settings remember), the bind, the endpoint file it publishes, the calls   *)
(* it answers and counts, the flush of those counts once a minute, and the   *)
(* shutdown, whose steps are ordered so that no count is lost. Two programs  *)
(* run the server: the desktop shell (Desks), which asks first whether its   *)
(* wiki is being served, and the headless one, which does not.               *)
EXTENDS Naturals, FiniteSets, Functions

CONSTANTS
    Apps,          \* the processes
    Desks,         \* the ones that run the desktop shell
    Wikis,         \* the wiki directories
    Home,          \* the wiki a headless server's environment names
    Ports,         \* the ports of the machine
    DefaultPort,   \* the one everybody prefers (3000)
    FirstSettings, \* what the shell may remember at first
    Taken,         \* the ports some other program listens on
    None,
    MaxLaunches, MaxCalls, MaxMishaps  \* bounds of the model

ASSUME ServerApps == IsFiniteSet(Apps) /\ Desks \subseteq Apps /\ Home \in [Apps \ Desks -> Wikis]
ASSUME ServerPorts == DefaultPort \in Ports /\ Taken \subseteq Ports
ASSUME ServerSettings == FirstSettings \subseteq [wiki : Wikis, port : Ports \cup {None}]
ASSUME ServerNone == None \notin Ports \cup Wikis
ASSUME ServerBounds == {MaxLaunches, MaxCalls, MaxMishaps} \subseteq Nat

VARIABLES
    app,       \* what each process is doing
    use,       \* each process's calls: being answered, tallied, being flushed
    endpoint,  \* each wiki's server.json: the port it names, or None
    settings,  \* the desktop shell's settings file
    persisted, \* each wiki's api_usage table
    reading,   \* the persisted half of the usage figure a call is putting together
    launches, calls, mishaps,   \* how many of each there were
    answered, lost  \* per wiki: calls answered, and counts dropped (history)

vars == <<app, use, endpoint, settings, persisted, reading, launches, calls,
          mishaps, answered, lost>>

-----------------------------------------------------------------------------
(* A port somebody wrote down is taken or nothing is, the default gives way. *)
Exactly(port) == [exactly |-> TRUE, port |-> port]
Preferably(port) == [exactly |-> FALSE, port |-> port]
Listens == [exactly : BOOLEAN, port : Ports]

ListenFor(port) ==
    IF port = None THEN Preferably(DefaultPort) ELSE Exactly(port)

(* Where a process is: looking for a server of its wiki (read the file, then *)
(* ask the port it names), starting (opening and reconciling), bound,        *)
(* serving, up (published); then the steps of a shutdown.                    *)
Stages == {"off", "reading", "asking", "starting", "bound", "serving", "up",
           "halted", "draining", "settling", "flushing"}
Answering == {"serving", "up"}
Stopping == {"halted", "draining", "settling", "flushing"}
Listening == {"bound", "serving", "up"}

Off == [at |-> "off", wiki |-> None, listen |-> Preferably(DefaultPort),
        port |-> None, seen |-> None, again |-> FALSE]
Idle == [flying |-> 0, tally |-> 0, hand |-> 0]

Busy == Taken \cup {app[a].port : a \in {b \in Apps : app[b].at \in Listening}}

(* The process is gone, and with it what it only had in memory.              *)
Gone(a) ==
    /\ app' = [app EXCEPT ![a] = Off]
    /\ use' = [use EXCEPT ![a] = Idle]
    /\ lost' = IF app[a].wiki = None THEN lost
               ELSE [lost EXCEPT ![app[a].wiki] = @ + use[a].tally + use[a].hand]
    /\ reading' = [reading EXCEPT ![a] = None]

(* A crash before may have left a hint behind, or a copied directory brought *)
(* the one of another wiki with it: either counts as a mishap.               *)
Init ==
    /\ app = [a \in Apps |-> Off]
    /\ use = [a \in Apps |-> Idle]
    /\ \/ endpoint = [w \in Wikis |-> None] /\ mishaps = 0
       \/ \E w \in Wikis, port \in Ports :
             /\ endpoint = [[v \in Wikis |-> None] EXCEPT ![w] = port]
             /\ mishaps = 1 /\ MaxMishaps > 0
    /\ settings \in FirstSettings
    /\ persisted = [w \in Wikis |-> 0]
    /\ reading = [a \in Apps |-> None]
    /\ launches = 0 /\ calls = 0
    /\ answered = [w \in Wikis |-> 0]
    /\ lost = [w \in Wikis |-> 0]

-----------------------------------------------------------------------------
(* Starting.                                                                 *)

(* The shell reads its settings once, and opens the wiki they name.          *)
OpenShell ==
    [Off EXCEPT !.at = "reading", !.wiki = settings.wiki,
                !.listen = ListenFor(settings.port)]

Launch(a) ==
    /\ app[a].at = "off" /\ launches < MaxLaunches
    /\ launches' = launches + 1
    /\ \/ /\ a \in Desks
          /\ app' = [app EXCEPT ![a] = OpenShell]
       \/ /\ a \notin Desks
          /\ \E port \in Ports, exactly \in BOOLEAN :
                /\ exactly \/ port = DefaultPort
                /\ app' = [app EXCEPT ![a] =
                       [Off EXCEPT !.at = "starting", !.wiki = Home[a],
                                   !.listen = [exactly |-> exactly, port |-> port]]]
    /\ UNCHANGED <<use, endpoint, settings, persisted, reading, calls, mishaps,
                   answered, lost>>

(* endpoint::live, its first half: read the hint.                            *)
ReadEndpoint(a) ==
    /\ app[a].at = "reading"
    /\ app' = [app EXCEPT ![a].seen = endpoint[app[a].wiki],
                          ![a].at = IF endpoint[app[a].wiki] = None
                                    THEN "starting" ELSE "asking"]
    /\ UNCHANGED <<use, endpoint, settings, persisted, reading, launches, calls,
                   mishaps, answered, lost>>

(* Its second half: a health check at the port the hint names. A server that *)
(* answers counts the call like any other; what makes the hint true is that  *)
(* it serves this wiki.                                                      *)
Confirms(a, b) ==
    /\ b # a /\ app[b].at \in Answering
    /\ app[b].port = app[a].seen

SameWiki(a, b) == app[b].wiki = app[a].wiki

Counted(b) ==
    /\ use' = [use EXCEPT ![b].tally = @ + 1]
    /\ answered' = [answered EXCEPT ![app[b].wiki] = @ + 1]

(* Nobody answers in time, or somebody does about another wiki: start one.   *)
NotServed(a) ==
    /\ app[a].at = "asking"
    /\ app' = [app EXCEPT ![a].at = "starting", ![a].seen = None]
    /\ \/ /\ \A b \in Apps : ~Confirms(a, b)
          /\ UNCHANGED <<use, answered>>
       \/ \E b \in Apps : Confirms(a, b) /\ ~SameWiki(a, b) /\ Counted(b)
    /\ UNCHANGED <<endpoint, settings, persisted, reading, launches, calls,
                   mishaps, lost>>

(* The wiki is open already: quit, or pick another wiki, which is remembered *)
(* and looked up in its turn.                                                *)
AlreadyOpen(a) ==
    /\ app[a].at = "asking"
    /\ \E b \in Apps : Confirms(a, b) /\ SameWiki(a, b) /\ Counted(b)
    /\ \/ /\ app' = [app EXCEPT ![a] = Off]
          /\ UNCHANGED settings
       \/ \E w \in Wikis \ {app[a].wiki} :
             /\ settings' = [settings EXCEPT !.wiki = w]
             /\ app' = [app EXCEPT ![a] = [@ EXCEPT !.at = "reading",
                                                    !.wiki = w, !.seen = None]]
    /\ UNCHANGED <<endpoint, persisted, reading, launches, calls, mishaps, lost>>

(* bind: the address asked for, or for a preference any free port.           *)
Bindable_Blind(listen) == {listen.port}

Bindable(listen) ==
    IF listen.port \notin Busy THEN {listen.port}
    ELSE IF listen.exactly THEN {} ELSE Ports \ Busy

Bind(a) ==
    /\ app[a].at = "starting"
    /\ \E port \in Bindable(app[a].listen) :
          app' = [app EXCEPT ![a] = [@ EXCEPT !.at = "bound", !.port = port,
                                             !.listen = Preferably(DefaultPort)]]
    /\ UNCHANGED <<use, endpoint, settings, persisted, reading, launches, calls,
                   mishaps, answered, lost>>

(* A port that is taken ends a headless start. The shell offers to forget    *)
(* the port it remembers, and then starts again with any.                    *)
PortTaken(a) ==
    /\ app[a].at = "starting" /\ Bindable(app[a].listen) = {}
    /\ \/ /\ app' = [app EXCEPT ![a] = Off]
          /\ UNCHANGED settings
       \/ /\ a \in Desks /\ app[a].listen.exactly
          /\ settings' = [settings EXCEPT !.port = None]
          /\ app' = [app EXCEPT ![a].listen = Preferably(DefaultPort)]
    /\ UNCHANGED <<use, endpoint, persisted, reading, launches, calls, mishaps,
                   answered, lost>>

Serve(a) ==
    /\ app[a].at = "bound"
    /\ app' = [app EXCEPT ![a].at = "serving"]
    /\ UNCHANGED <<use, endpoint, settings, persisted, reading, launches, calls,
                   mishaps, answered, lost>>

(* Last of all the hint; a hint that cannot be written is not fatal.         *)
Publish_Asked(a) ==
    /\ app[a].at = "serving"
    /\ app' = [app EXCEPT ![a].at = "up"]
    /\ endpoint' = [endpoint EXCEPT ![app[a].wiki] = app[a].listen.port]
    /\ UNCHANGED <<use, settings, persisted, reading, launches, calls, mishaps,
                   answered, lost>>

Publish(a) ==
    /\ app[a].at = "serving"
    /\ app' = [app EXCEPT ![a].at = "up"]
    /\ \/ /\ endpoint' = [endpoint EXCEPT ![app[a].wiki] = app[a].port]
          /\ UNCHANGED mishaps
       \/ /\ mishaps < MaxMishaps /\ mishaps' = mishaps + 1
          /\ UNCHANGED endpoint
    /\ UNCHANGED <<use, settings, persisted, reading, launches, calls, answered, lost>>

-----------------------------------------------------------------------------
(* Calls, their tally and its flush.                                         *)

Call(a) ==
    /\ app[a].at \in Answering /\ calls < MaxCalls
    /\ calls' = calls + 1
    /\ use' = [use EXCEPT ![a].flying = @ + 1]
    /\ UNCHANGED <<app, endpoint, settings, persisted, reading, launches, mishaps,
                   answered, lost>>

(* A call counts itself once it is answered.                                 *)
Answer(a) ==
    /\ use[a].flying > 0
    /\ use' = [use EXCEPT ![a].flying = @ - 1, ![a].tally = @ + 1]
    /\ answered' = [answered EXCEPT ![app[a].wiki] = @ + 1]
    /\ UNCHANGED <<app, endpoint, settings, persisted, reading, launches, calls,
                   mishaps, lost>>

(* flush_usage: the tally is drained, and only then written.                 *)
Drained(a) == [use EXCEPT ![a].hand = use[a].tally, ![a].tally = 0]

Tick(a) ==
    /\ app[a].at \in Answering \cup {"halted", "draining", "settling"}
    /\ use[a].hand = 0 /\ use[a].tally > 0
    /\ use' = Drained(a)
    /\ UNCHANGED <<app, endpoint, settings, persisted, reading, launches, calls,
                   mishaps, answered, lost>>

(* The batch is added to the rows there are; one that cannot be written is   *)
(* dropped with a line in the log.                                           *)
RecordUsage(a) ==
    /\ use[a].hand > 0
    /\ use' = [use EXCEPT ![a].hand = 0]
    /\ \/ /\ persisted' = [persisted EXCEPT ![app[a].wiki] = @ + use[a].hand]
          /\ UNCHANGED <<lost, mishaps>>
       \/ /\ mishaps < MaxMishaps /\ mishaps' = mishaps + 1
          /\ lost' = [lost EXCEPT ![app[a].wiki] = @ + use[a].hand]
          /\ UNCHANGED persisted
    /\ UNCHANGED <<app, endpoint, settings, reading, launches, calls, answered>>

(* GET /api/stats: the persisted counts, and then the tally on top of them.  *)
ReadUsage(a) ==
    /\ app[a].at \in Answering /\ reading[a] = None
    /\ reading' = [reading EXCEPT ![a] = persisted[app[a].wiki]]
    /\ UNCHANGED <<app, use, endpoint, settings, persisted, launches, calls,
                   mishaps, answered, lost>>

MergeUsage(a) ==
    /\ reading[a] # None
    /\ reading' = [reading EXCEPT ![a] = None]
    /\ UNCHANGED <<app, use, endpoint, settings, persisted, launches, calls,
                   mishaps, answered, lost>>

-----------------------------------------------------------------------------
(* Stopping.                                                                 *)

(* The reasons to stop: the window closed or the interrupt came; or the      *)
(* shell was asked for another wiki or another port, which it remembers and  *)
(* restarts for. A choice already remembered is nothing to restart for.      *)
Halt(a) ==
    /\ app[a].at = "up"
    /\ \/ /\ app' = [app EXCEPT ![a].at = "halted"]
          /\ UNCHANGED settings
       \/ /\ a \in Desks
          /\ \/ \E w \in Wikis \ {settings.wiki} :
                   settings' = [settings EXCEPT !.wiki = w]
             \/ \E port \in (Ports \cup {None}) \ {settings.port} :
                   settings' = [settings EXCEPT !.port = port]
          /\ app' = [app EXCEPT ![a].at = "halted", ![a].again = TRUE]
    /\ UNCHANGED <<use, endpoint, persisted, reading, launches, calls, mishaps,
                   answered, lost>>

(* The hint goes before anything is waited for.                              *)
Withdraw(a) ==
    /\ app[a].at = "halted"
    /\ app' = [app EXCEPT ![a].at = "draining"]
    /\ \/ /\ endpoint' = [endpoint EXCEPT ![app[a].wiki] = None]
          /\ UNCHANGED mishaps
       \/ /\ mishaps < MaxMishaps /\ mishaps' = mishaps + 1
          /\ UNCHANGED endpoint
    /\ UNCHANGED <<use, settings, persisted, reading, launches, calls, answered, lost>>

(* The calls in flight finish, and count themselves, before the server does. *)
CallsOver_Unasked(a) == TRUE

CallsOver(a) == use[a].flying = 0 /\ reading[a] = None

Served(a) ==
    /\ app[a].at = "draining" /\ CallsOver(a)
    /\ app' = [app EXCEPT ![a].at = "settling"]
    /\ UNCHANGED <<use, endpoint, settings, persisted, reading, launches, calls,
                   mishaps, answered, lost>>

(* The flusher ends between two flushes, never inside one. Then the watcher  *)
(* is cut off, and the last batch is drained.                                *)
FlusherOver_Deaf(a) == FALSE

FlusherOver(a) == use[a].hand = 0

FinalDrain(a) ==
    /\ app[a].at = "settling" /\ FlusherOver(a)
    /\ app' = [app EXCEPT ![a].at = "flushing"]
    /\ use' = Drained(a)
    /\ UNCHANGED <<endpoint, settings, persisted, reading, launches, calls,
                   mishaps, answered, lost>>

(* Shut down: the process ends, or the shell comes back as a new one.        *)
ShutDown(a) ==
    /\ app[a].at = "flushing" /\ use[a].hand = 0
    /\ use' = [use EXCEPT ![a] = Idle]
    /\ lost' = [lost EXCEPT ![app[a].wiki] = @ + use[a].tally]
    /\ reading' = [reading EXCEPT ![a] = None]
    /\ IF app[a].again /\ launches < MaxLaunches
       THEN /\ app' = [app EXCEPT ![a] = OpenShell]
            /\ launches' = launches + 1
       ELSE app' = [app EXCEPT ![a] = Off] /\ UNCHANGED launches
    /\ UNCHANGED <<endpoint, settings, persisted, calls, mishaps, answered>>

(* A second reason to stop, while the shell is stopping for the first: the   *)
(* server has been taken out of its slot already, so this one finds nothing  *)
(* to wait for and ends the process under the shutdown that is running.      *)
StopAgain(a) ==
    /\ a \in Desks /\ app[a].at \in Stopping
    /\ mishaps < MaxMishaps /\ mishaps' = mishaps + 1
    /\ Gone(a)
    /\ UNCHANGED <<endpoint, settings, persisted, launches, calls, answered>>

(* Serving ended with an error: the shutdown returns it, and flushes nothing.*)
ServingFails(a) ==
    /\ app[a].at = "draining"
    /\ mishaps < MaxMishaps /\ mishaps' = mishaps + 1
    /\ Gone(a)
    /\ UNCHANGED <<endpoint, settings, persisted, launches, calls, answered>>

(* A hard kill, at any point.                                                *)
Crash(a) ==
    /\ app[a].at # "off"
    /\ mishaps < MaxMishaps /\ mishaps' = mishaps + 1
    /\ Gone(a)
    /\ UNCHANGED <<endpoint, settings, persisted, launches, calls, answered>>

-----------------------------------------------------------------------------
Next == \E a \in Apps :
    \/ Launch(a) \/ ReadEndpoint(a) \/ NotServed(a) \/ AlreadyOpen(a)
    \/ Bind(a) \/ PortTaken(a) \/ Serve(a) \/ Publish(a)
    \/ Call(a) \/ Answer(a) \/ Tick(a) \/ RecordUsage(a)
    \/ ReadUsage(a) \/ MergeUsage(a)
    \/ Halt(a) \/ Withdraw(a) \/ Served(a) \/ FinalDrain(a) \/ ShutDown(a)
    \/ StopAgain(a) \/ ServingFails(a) \/ Crash(a)

(* Each step of a start and of a shutdown is code that runs on once it may,  *)
(* a call that is being answered is answered, and a database write ends.     *)
Runs(a) ==
    \/ ReadEndpoint(a) \/ NotServed(a) \/ AlreadyOpen(a) \/ Bind(a) \/ PortTaken(a)
    \/ Serve(a) \/ Publish(a) \/ Withdraw(a) \/ Served(a) \/ FinalDrain(a) \/ ShutDown(a)

Fairness == \A a \in Apps :
    WF_vars(Runs(a)) /\ WF_vars(Answer(a)) /\ WF_vars(RecordUsage(a))
                     /\ WF_vars(MergeUsage(a))

Spec == Init /\ [][Next]_vars /\ Fairness

-----------------------------------------------------------------------------
(* Properties.                                                               *)

Processes == [at : Stages, wiki : Wikis \cup {None}, listen : Listens,
              port : Ports \cup {None}, seen : Ports \cup {None}, again : BOOLEAN]
Usages == [flying : Nat, tally : Nat, hand : Nat]

VariablesTyped ==
    /\ app \in [Apps -> Processes] /\ use \in [Apps -> Usages]
    /\ endpoint \in [Wikis -> Ports \cup {None}]
    /\ settings \in [wiki : Wikis, port : Ports \cup {None}]
    /\ persisted \in [Wikis -> Nat] /\ answered \in [Wikis -> Nat]
    /\ lost \in [Wikis -> Nat]
    /\ reading \in [Apps -> Nat \cup {None}]
    /\ calls \in 0..MaxCalls /\ launches \in 0..MaxLaunches /\ mishaps \in 0..MaxMishaps

PortsApart ==
    \A a, b \in Apps :
       a # b /\ app[a].at \in Listening /\ app[b].at \in Listening
          => app[a].port # app[b].port

(* The variables have their types, and no two processes listen on one port.  *)
TypeOK == VariablesTyped /\ PortsApart

(* What is in a wiki's servers' memory: tallied, or drained and not written. *)
Held(w) == [a \in Apps |-> IF app[a].wiki = w THEN use[a].tally + use[a].hand ELSE 0]
InMemory(w) == SumFunction(Held(w))

(* Every answered call is counted in one place, whichever servers of the     *)
(* wiki answered it and however their flushes interleave: in memory, in the  *)
(* database, or in a batch the log says was dropped; and without a crash, a  *)
(* refused write or a shutdown cut short nothing is dropped, since a         *)
(* shutdown waits for the calls, then for the flusher, and flushes last.     *)
(* And the figure a reader is given counts no call twice, nor one that is    *)
(* not answered yet, though a flush may move counts between the two reads it *)
(* is made of: what it can do is to fall behind for a moment.                *)
EveryCallIsCounted ==
    \A w \in Wikis :
        /\ answered[w] = persisted[w] + InMemory(w) + lost[w]
        /\ mishaps = 0 => lost[w] = 0
        /\ \A a \in Apps : (app[a].wiki = w /\ reading[a] # None) =>
              reading[a] + use[a].tally <= answered[w]

(* The endpoint file of a wiki names a port where a server of that wiki      *)
(* answers, or is about to withdraw the file: it is written after the server *)
(* is ready and removed before the server goes. Two servers of one wiki, a   *)
(* restart and a failed start keep it so; a crash does not, nor a refused    *)
(* write of the file itself.                                                 *)
EndpointsAreTrue ==
    mishaps = 0 =>
        \A w \in Wikis : endpoint[w] # None =>
            \E a \in Apps : /\ app[a].wiki = w /\ app[a].port = endpoint[w]
                            /\ app[a].at \in {"serving", "up", "halted"}

(* A process told to stop stops, whatever is in flight when it is told.      *)
StopsEnd ==
    \A a \in Apps : (app[a].at = "halted") ~> (app[a].at \notin Stopping)

=============================================================================
