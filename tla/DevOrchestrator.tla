-------------------------- MODULE DevOrchestrator --------------------------
(***************************************************************************)
(* The script that starts the development servers: it looks for a free     *)
(* port for each, starts them, and stops all when one of them ends or the  *)
(* user interrupts it. Other programs take and leave ports meanwhile.      *)
(***************************************************************************)
EXTENDS Integers

CONSTANTS Ports, Tries, Codes, Nil

(***************************************************************************)
(* taken are the ports in use by other programs. main is the script: where *)
(* it is, the candidate port, the ports it has settled for. server[s] is   *)
(* what has become of the process of s; a process that was told to stop    *)
(* may go on. The timer of 200 ms runs once shuttingDown is set. code is   *)
(* the exit code, and first remembers why everything ends.                 *)
(***************************************************************************)
VARIABLES taken, main, server, shuttingDown, code, first

vars == <<taken, main, server, shuttingDown, code, first>>

Servers == {"frontend", "backend"}

Init ==
  /\ taken = {}
  /\ main = [pc |-> "idle", run |-> {}, prefer |-> [s \in Servers |-> Nil], next |-> Nil,
             ipv4 |-> FALSE, port |-> [s \in Servers |-> Nil]]
  /\ server = [s \in Servers |-> "none"]
  /\ shuttingDown = FALSE /\ code = 0 /\ first = Nil

-----------------------------------------------------------------------------
\* npm run dev, for both servers or one of them; the preferred ports come from the
\* environment or its files, and what is no port there counts as the default one.
Launch(run, prefer) ==
  /\ main.pc = "idle"
  /\ main' = [main EXCEPT !.pc = "frontend", !.run = run, !.prefer = prefer,
                          !.next = prefer["frontend"]]
  /\ UNCHANGED <<taken, server, shuttingDown, code, first>>

\* Another program binds or leaves a port.
Take(p) ==
  /\ taken' = IF p \in taken THEN taken \ {p} ELSE taken \cup {p}
  /\ UNCHANGED <<main, server, shuttingDown, code, first>>

Then(s) == IF s = "frontend" THEN "backend" ELSE "start"

\* Go on with what follows s, starting at the port it prefers.
Onward(s, m) == [m EXCEPT !.pc = Then(s), !.next = m.prefer["backend"], !.ipv4 = FALSE]

\* A server that is not asked for needs no port.
SkipServer(s) ==
  /\ main.pc = s /\ s \notin main.run
  /\ main' = Onward(s, main)
  /\ UNCHANGED <<taken, server, shuttingDown, code, first>>

ReservedNothing == {}  \* Fault: the backend is not told what the frontend has got
Reserved == {main.port[s] : s \in Servers}
Exhausted(s) == main.next >= main.prefer[s] + Tries \/ main.next \notin Ports

\* findAvailablePort tries one candidate after the other, first on IPv4, then on
\* IPv6; beyond the last port, or after too many, main throws and the script ends.
Search(s) == main.pc = s /\ s \in main.run
NextPort == main' = [main EXCEPT !.next = @ + 1, !.ipv4 = FALSE]

SkipPort(s) ==
  /\ Search(s) /\ ~Exhausted(s)
  /\ main.next \in Reserved
  /\ NextPort
  /\ UNCHANGED <<taken, server, shuttingDown, code, first>>

BindIPv4(s) ==
  /\ Search(s) /\ ~Exhausted(s) /\ ~main.ipv4
  /\ main.next \notin Reserved
  /\ IF main.next \in taken THEN NextPort ELSE main' = [main EXCEPT !.ipv4 = TRUE]
  /\ UNCHANGED <<taken, server, shuttingDown, code, first>>

BindIPv6(s) ==
  /\ Search(s) /\ main.ipv4
  /\ IF main.next \in taken THEN NextPort
     ELSE main' = Onward(s, [main EXCEPT !.port[s] = main.next])
  /\ UNCHANGED <<taken, server, shuttingDown, code, first>>

NoPort(s) ==
  /\ Search(s) /\ Exhausted(s)
  /\ main' = [main EXCEPT !.pc = "exit"]
  /\ code' = 1 /\ first' = 1
  /\ UNCHANGED <<taken, server, shuttingDown>>

\* Both processes are spawned before any event is handled.
Start ==
  /\ main.pc = "start"
  /\ main' = [main EXCEPT !.pc = "run"]
  /\ server' = [s \in Servers |-> IF s \in main.run THEN "running" ELSE "none"]
  /\ UNCHANGED <<taken, shuttingDown, code, first>>

Told(ended) == [s \in Servers |-> IF s \in ended THEN "ended"
                                  ELSE IF server[s] = "running" THEN "stopped" ELSE server[s]]

ShutdownAgain(c, ended) ==  \* Fault: isShuttingDown is not asked
  /\ shuttingDown' = TRUE
  /\ code' = IF code = 0 THEN c ELSE code
  /\ first' = IF shuttingDown THEN first ELSE c
  /\ server' = Told(ended)

\* shutdown does its work once: it remembers the code and tells the processes to
\* stop; ended is the one that has called it, if it is one of them.
Shutdown(c, ended) ==
  /\ shuttingDown' = TRUE
  /\ IF shuttingDown THEN UNCHANGED <<code, first>> ELSE code' = c /\ first' = c
  /\ server' = Told(ended)

\* A process ends: it could not bind its port, it crashed, or it was told to stop.
Ends(s, c) ==
  /\ main.pc = "run" /\ server[s] \in {"running", "stopped"}
  /\ Shutdown(c, {s})
  /\ UNCHANGED <<taken, main>>

\* SIGINT or SIGTERM.
Interrupt ==
  /\ main.pc = "run"
  /\ Shutdown(0, {})
  /\ UNCHANGED <<taken, main>>

ExitLate ==  \* Fault: the timer waits for the processes
  /\ main.pc = "run" /\ shuttingDown
  /\ \A s \in Servers : server[s] \in {"none", "ended"}
  /\ main' = [main EXCEPT !.pc = "exit"]
  /\ UNCHANGED <<taken, server, shuttingDown, code, first>>

\* The timer: the script ends, whether the processes have or not.
Exit ==
  /\ main.pc = "run" /\ shuttingDown
  /\ main' = [main EXCEPT !.pc = "exit"]
  /\ UNCHANGED <<taken, server, shuttingDown, code, first>>

MainStep == Start \/ Exit \/
  \E s \in Servers : SkipServer(s) \/ SkipPort(s) \/ BindIPv4(s) \/ BindIPv6(s) \/ NoPort(s)

Next ==
  \/ \E run \in SUBSET Servers \ {{}}, prefer \in [Servers -> Ports] : Launch(run, prefer)
  \/ \E p \in Ports : Take(p)
  \/ \E s \in Servers : SkipServer(s) \/ SkipPort(s) \/ BindIPv4(s) \/ BindIPv6(s) \/ NoPort(s)
  \/ Start \/ Interrupt \/ Exit
  \/ \E s \in Servers, c \in Codes : Ends(s, c)

Fairness == WF_vars(MainStep)
Spec == Init /\ [][Next]_vars
FairSpec == Spec /\ Fairness

-----------------------------------------------------------------------------
\* The script and the processes keep to their types.
TypeOK ==
  /\ taken \subseteq Ports
  /\ main.pc \in Servers \cup {"idle", "start", "run", "exit"}
  /\ main.port \in [Servers -> Ports \cup {Nil}]
  /\ server \in [Servers -> {"none", "running", "stopped", "ended"}]
  /\ shuttingDown \in BOOLEAN /\ code \in Codes \cup {0, 1}

\* The two servers are given different ports, however other programs take and leave
\* theirs while the script looks, and none far from the one it prefers.
PortsDiffer ==
  /\ main.port["frontend"] # Nil => main.port["frontend"] # main.port["backend"]
  /\ \A s \in Servers : main.port[s] # Nil =>
       main.port[s] \in main.prefer[s]..(main.prefer[s] + Tries - 1)

\* The script ends with the code of what ended it first, whatever the processes it
\* stops then say, and leaves none that it has not told to stop.
EndsForTheFirstReason ==
  main.pc = "exit" => code = first /\ \A s \in Servers : server[s] # "running"

\* The search for ports ends, though ports come and go; and once a process has ended
\* or the user has interrupted, the script ends, also when a process does not stop.
Searching == main.pc \in Servers \cup {"start"}
ScriptSettles ==
  /\ Searching ~> ~Searching
  /\ shuttingDown ~> (main.pc = "exit")

\* The servers get ports of their own and are stopped in order.
ScriptIsTidy == PortsDiffer /\ EndsForTheFirstReason
=============================================================================
