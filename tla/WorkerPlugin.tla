------------------------------ MODULE WorkerPlugin ------------------------------
(***************************************************************************)
(* The OpenClaw plugin as the supervisor of one worker process: it spawns  *)
(* it when the service starts, restarts it a while after it has exited,    *)
(* and stops it for the commands.  The commands wait for the process to    *)
(* exit, so several may be under way; Node reports the exit of a process   *)
(* (close) some time after it, when its output has been read.              *)
(*                                                                         *)
(* One configured worker, enabled and started automatically.               *)
(***************************************************************************)
EXTENDS Naturals, FiniteSets

CONSTANTS Pids,       \* worker processes; the name of one that is over is used again
          Stops,      \* commands that may be waiting for an exit at once
          NoPid,
          MaxCommands, MaxExits   \* bounds: commands; processes that exit by themselves

ASSUME PluginAssumption == NoPid \notin Pids /\ MaxCommands \in Nat /\ MaxExits \in Nat

VARIABLES
  proc,       \* each process: running, dying (told to stop), exited, closed
  child,      \* runtime.child
  timers,     \* restart timers that will fire, each named by the process whose close set it
  timer,      \* runtime.restartTimer
  stoppingAll,
  pauseFile,  \* the flag file exists
  serving,    \* the service has been started and not been stopped
  stops,      \* stopAllWorkers at work: for which command, and the process it waits for
  commands, exits,
  mistaken,   \* history: a close cleared a child that was another process
  forgotten   \* history: a process that no command had stopped closed while one was stopping all

pluginVars == <<proc, child, timers, timer, stoppingAll, pauseFile, serving, stops, commands, exits,
                mistaken, forgotten>>

Running == {p \in Pids : proc[p] = "running"}
NoStop == [of |-> "none", waits |-> NoPid]
StopCommands == {"pause", "restart", "stop"}

PluginTypeOK ==
  /\ proc \in [Pids -> {"running", "dying", "exited", "closed"}]
  /\ child \in Pids \cup {NoPid} /\ timers \subseteq Pids /\ timer \in Pids \cup {NoPid}
  /\ stops \in [Stops -> [of : {"none"} \cup StopCommands, waits : Pids \cup {NoPid}]]
  /\ commands \in 0 .. MaxCommands /\ exits \in 0 .. MaxExits
  /\ {stoppingAll, pauseFile, serving, mistaken, forgotten} \subseteq BOOLEAN

PluginInit ==
  /\ proc = [p \in Pids |-> "closed"] /\ child = NoPid /\ timers = {} /\ timer = NoPid
  /\ stoppingAll = FALSE /\ pauseFile = FALSE /\ serving = FALSE
  /\ stops = [c \in Stops |-> NoStop]
  /\ commands = 0 /\ exits = 0 /\ mistaken = FALSE /\ forgotten = FALSE

Commanded == commands < MaxCommands /\ commands' = commands + 1
Alive(p) == p # NoPid /\ proc[p] \in {"running", "dying"}

\* Faulty: a child that was spawned before is not looked for.
MaySpawnAgain(paused, known) == ~paused

\* spawnWorker goes on unless it is paused or the child it knows is alive.
MaySpawn(paused, known) == ~paused /\ ~Alive(known)

\* The names nobody refers to.
Free(states) ==
  {p \in Pids : states[p] = "closed" /\ p \notin timers /\ \A c \in Stops : stops[c].waits # p}

\* spawnWorker, for the flag and the child as they are by then.  Which free name the process gets
\* makes no difference.
Spawn(paused, known, states) ==
  IF MaySpawn(paused, known)
  THEN /\ Free(states) # {}
       /\ child' = CHOOSE p \in Free(states) : TRUE
       /\ proc' = [states EXCEPT ![child'] = "running"]
  ELSE child' = known /\ proc' = states

ServiceStart ==
  /\ ~serving /\ commands = 0
  /\ serving' = TRUE
  /\ Spawn(pauseFile, child, proc)
  /\ Commanded
  /\ UNCHANGED <<timers, timer, stoppingAll, pauseFile, stops, exits, mistaken, forgotten>>

Resume ==
  /\ serving /\ Commanded
  /\ pauseFile' = FALSE
  /\ Spawn(FALSE, child, proc)
  /\ UNCHANGED <<timers, timer, stoppingAll, serving, stops, exits, mistaken, forgotten>>

\* Pause, the restarts of token rotate and debug, and the service's stop: the first part of each,
\* up to the wait for the child to exit.
BeginStop(c, of) ==
  /\ serving /\ Commanded
  /\ stops[c] = NoStop /\ child # NoPid /\ Alive(child)
  /\ stops' = [stops EXCEPT ![c] = [of |-> of, waits |-> child]]
  /\ pauseFile' = (pauseFile \/ of = "pause")
  /\ serving' = (of # "stop")
  /\ stoppingAll' = TRUE
  /\ timers' = timers \ {timer} /\ timer' = NoPid
  /\ proc' = [proc EXCEPT ![child] = "dying"] /\ child' = NoPid
  /\ UNCHANGED <<exits, mistaken, forgotten>>

\* The same when there is nothing to wait for.  A stop that is waiting is over as far as
\* stoppingAll can tell.
StopAtOnce(of) ==
  /\ serving /\ Commanded
  /\ ~Alive(child)
  /\ pauseFile' = (pauseFile \/ of = "pause")
  /\ serving' = (of # "stop")
  /\ stoppingAll' = FALSE
  /\ timers' = timers \ {timer} /\ timer' = NoPid
  /\ Spawn(pauseFile' \/ of # "restart", NoPid, proc)
  /\ UNCHANGED <<stops, exits, mistaken, forgotten>>

\* The process has exited: the rest of the command.
EndStop(c) ==
  /\ stops[c] # NoStop /\ proc[stops[c].waits] \in {"exited", "closed"}
  /\ stops' = [stops EXCEPT ![c] = NoStop]
  /\ stoppingAll' = FALSE
  /\ Spawn(pauseFile \/ stops[c].of # "restart", child, proc)
  /\ UNCHANGED <<timers, timer, pauseFile, serving, commands, exits, mistaken, forgotten>>

\* SIGTERM, and SIGKILL after three seconds.
Die(p) ==
  /\ proc[p] = "dying"
  /\ proc' = [proc EXCEPT ![p] = "exited"]
  /\ UNCHANGED <<child, timers, timer, stoppingAll, pauseFile, serving, stops, commands, exits, mistaken,
                 forgotten>>

\* The worker's loop ends, as it does when a request throws.
ExitBySelf(p) ==
  /\ proc[p] = "running" /\ exits < MaxExits
  /\ exits' = exits + 1
  /\ proc' = [proc EXCEPT ![p] = "exited"]
  /\ UNCHANGED <<child, timers, timer, stoppingAll, pauseFile, serving, stops, commands, mistaken, forgotten>>

\* Faulty: whether a restart follows is not decided here.
RestartsNever == FALSE

\* What the handler of close asks before it sets the timer.
Restarts == ~stoppingAll /\ ~pauseFile

StoppedByCommand(p) == \E c \in Stops : stops[c].waits = p

\* The handler of close: it clears the child, whichever that is.
Close(p) ==
  /\ proc[p] = "exited"
  /\ proc' = [proc EXCEPT ![p] = "closed"]
  /\ child' = NoPid
  /\ mistaken' = (mistaken \/ child \notin {p, NoPid})
  /\ forgotten' = (forgotten \/ (stoppingAll /\ ~StoppedByCommand(p)))
  /\ IF Restarts
     THEN timers' = timers \cup {p} /\ timer' = p
     ELSE UNCHANGED <<timers, timer>>
  /\ UNCHANGED <<stoppingAll, pauseFile, serving, stops, commands, exits>>

\* A timer that has been overwritten in restartTimer cannot be cleared any more, and fires as well.
RestartTimer(p) ==
  /\ p \in timers
  /\ timers' = timers \ {p} /\ timer' = NoPid
  /\ Spawn(pauseFile, child, proc)
  /\ UNCHANGED <<stoppingAll, pauseFile, serving, stops, commands, exits, mistaken, forgotten>>

CommandStep ==
  \/ ServiceStart \/ Resume
  \/ \E of \in StopCommands : StopAtOnce(of) \/ \E c \in Stops : BeginStop(c, of)

ProcessStep(p) == Die(p) \/ ExitBySelf(p) \/ Close(p) \/ RestartTimer(p)

PluginNext == CommandStep \/ (\E c \in Stops : EndStop(c)) \/ \E p \in Pids : ProcessStep(p)

PluginSpec == PluginInit /\ [][PluginNext]_pluginVars

\* The only worker process that runs, but for those told to stop, is the child the plugin knows,
\* and none runs while the plugin is paused, unless a close reported late cleared another child
\* (spawnWorker, stopAllWorkers and the handler of close).
OnlyChildRuns == mistaken \/ \A p \in Running : p = child /\ ~pauseFile

\* No process is about to end, no timer about to fire and no command about to go on.
Settled ==
  /\ timers = {} /\ \A p \in Pids : proc[p] \in {"running", "closed"}
  /\ \A c \in Stops : stops[c] = NoStop

\* A worker that is to run is never left lying: whatever exits and whatever commands overlap, one
\* runs once everything under way has ended, unless it exited by itself while a command was
\* stopping another (handler of close, restart timer, the end of the commands).
WorkerIsNotLost == serving /\ ~pauseFile /\ Settled => Running # {} \/ forgotten
=============================================================================
