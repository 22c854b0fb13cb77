---------------------------- MODULE PluginService ----------------------------
(***************************************************************************)
(* server/service.go and the registry and lifecycle half of                *)
(* server/runner.go: plugins are loaded and unloaded by RPC while the      *)
(* server runs, and a goroutine started by Service.Start walks through the *)
(* registry every 5 seconds to start what was loaded and stop what was     *)
(* unloaded (pluginRefresh).                                               *)
(*                                                                         *)
(* The registry, activeRunners, is a Go map behind a lock that getRunners  *)
(* gives up before the caller reads the map.  pluginRefresh walks the live *)
(* map, collects the survivors in a new map, and installs that at the end. *)
(* A runner is an object: the registry, the new map, an RPC in flight and  *)
(* the runner's own goroutine hold references to it.                       *)
(*                                                                         *)
(* What a runner does with blocks is module Runner; here its goroutine     *)
(* only checks isRunning and reports the outcome of a put as its status.   *)
(***************************************************************************)
EXTENDS Naturals, FiniteSets

CONSTANTS Plugins,      \* plugin names
          Workers,      \* those of type TypeWorker
          Clients,      \* RPC connections that may be in a call at once
          NoRunner,     \* nil
          Shutdown,     \* whether Service.Stop may be called
          MaxRunners    \* bound: successful Loads

ASSUME ServiceAssumption ==
    /\ Plugins # {}
    /\ Workers \subseteq Plugins
    /\ Shutdown \in BOOLEAN
    /\ MaxRunners \in Nat
    /\ NoRunner \notin 1 .. MaxRunners

VARIABLES reg,       \* reg[n]: activeRunners[n], or NoRunner
          made,      \* runner objects made so far are 1 .. made
          plug,      \* plug[r]: the plugin of runner r
          status,    \* status[r]: r.status
          running,   \* running[r]: r.isRunning
          gor,       \* gor[r]: r's goroutine
          stopped,   \* stopped[r]: r.plugin.Stop has been called
          refresh,   \* pluginRefresh: where it is, plugins left to visit,
                     \* the runner in hand, the new map
          client,    \* client[c]: the RPC call of c
          stopper,   \* Service.Stop: where it is, plugins left, the runner in
                     \* hand, its map and whether that is still activeRunners
          dead       \* the Go runtime has thrown a fatal error

runnerVars == <<plug, status, running, gor, stopped>>
vars == <<reg, made, runnerVars, refresh, client, stopper, dead>>

Runners == 1 .. MaxRunners
RunnerOrNil == Runners \cup {NoRunner}
Empty == [n \in Plugins |-> NoRunner]
Registered == {n \in Plugins : reg[n] # NoRunner}
Alive(r) == gor[r] \in {"check", "put"}

(* Types; a call, a wait and a start never work on nil, and the registry   *)
(* holds runners that were made for their key.                             *)
TypeOK ==
    /\ reg \in [Plugins -> RunnerOrNil]
    /\ made \in 0 .. MaxRunners
    /\ plug \in [Runners -> Plugins]
    /\ status \in [Runners -> {"Unload", "Loaded", "StartOK", "StartError",
                               "PutOK", "PutError"}]
    /\ running \in [Runners -> BOOLEAN]
    /\ gor \in [Runners -> {"none", "check", "put", "done"}]
    /\ stopped \in [Runners -> BOOLEAN]
    /\ refresh \in [pc : {"idle", "iter", "start", "wait", "quit"},
                    todo : SUBSET Plugins, cur : RunnerOrNil,
                    map : [Plugins -> RunnerOrNil]]
    /\ client \in [Clients -> [pc : {"idle", "load", "unload"},
                               plug : Plugins, cur : RunnerOrNil]]
    /\ stopper \in [pc : {"idle", "iter", "wait", "done"},
                    todo : SUBSET Plugins, cur : RunnerOrNil,
                    map : [Plugins -> RunnerOrNil], live : BOOLEAN]
    /\ dead \in BOOLEAN
    /\ \A c \in Clients : client[c].pc = "unload" => client[c].cur \in Runners
    /\ refresh.pc \in {"start", "wait"} => refresh.cur \in Runners
    /\ stopper.pc = "wait" => stopper.cur \in Runners
    /\ \A n \in Registered : reg[n] <= made /\ plug[reg[n]] = n

Init ==
    /\ reg = Empty
    /\ made = 0
    /\ plug = [r \in Runners |-> CHOOSE n \in Plugins : TRUE]
    /\ status = [r \in Runners |-> "Loaded"]
    /\ running = [r \in Runners |-> FALSE]
    /\ gor = [r \in Runners |-> "none"]
    /\ stopped = [r \in Runners |-> FALSE]
    /\ refresh = [pc |-> "idle", todo |-> {}, cur |-> NoRunner, map |-> Empty]
    /\ client = [c \in Clients |-> [pc |-> "idle", cur |-> NoRunner,
                                    plug |-> CHOOSE n \in Plugins : TRUE]]
    /\ stopper = [pc |-> "idle", todo |-> {}, cur |-> NoRunner, map |-> Empty,
                   live |-> FALSE]
    /\ dead = FALSE

-----------------------------------------------------------------------------
(* RPC calls.  Each is a look-up and a change, with the lock released in   *)
(* between.  A Load of a registered plugin, an UnLoad of an unregistered   *)
(* one and a Load that catch-up mode skips change nothing.                 *)

(* Mutant: a registered plugin is loaded again. *)
LoadCheck_Always(c, n) ==
    /\ ~dead /\ client[c].pc = "idle"
    /\ client' = [client EXCEPT ![c].pc = "load", ![c].plug = n]
    /\ UNCHANGED <<reg, made, runnerVars, refresh, stopper, dead>>

LoadCheck(c, n) ==
    /\ ~dead /\ client[c].pc = "idle"
    /\ reg[n] = NoRunner
    /\ client' = [client EXCEPT ![c].pc = "load", ![c].plug = n]
    /\ UNCHANGED <<reg, made, runnerVars, refresh, stopper, dead>>

(* The write to the map that pluginRefresh or Service.Stop may be walking  *)
(* through is a data race: the walk sees the new entry or not, or the      *)
(* runtime notices the write and ends the process.                         *)
LoadSet(c) ==
    LET n == client[c].plug
        r == made + 1
        walked == refresh.pc \in {"iter", "start", "wait"}
        halted == stopper.pc \in {"iter", "wait"} /\ stopper.live
    IN /\ ~dead /\ client[c].pc = "load"
       /\ made < MaxRunners
       /\ made' = r
       /\ plug' = [plug EXCEPT ![r] = n]
       /\ status' = [status EXCEPT ![r] = "Loaded"]
       /\ reg' = [reg EXCEPT ![n] = r]
       /\ refresh' \in {refresh} \cup
             IF walked THEN {[refresh EXCEPT !.todo = @ \cup {n}]} ELSE {}
       /\ stopper' \in {stopper} \cup
             IF halted THEN {[stopper EXCEPT !.todo = @ \cup {n}, !.map[n] = r]}
             ELSE {}
       /\ dead' \in {FALSE, walked \/ halted}
       /\ client' = [client EXCEPT ![c].pc = "idle"]
       /\ UNCHANGED <<running, gor, stopped>>

(* Mutant: found is not looked at. *)
UnloadCheck_Unfound(c, n) ==
    /\ ~dead /\ client[c].pc = "idle"
    /\ client' = [client EXCEPT ![c].pc = "unload", ![c].plug = n,
                                ![c].cur = reg[n]]
    /\ UNCHANGED <<reg, made, runnerVars, refresh, stopper, dead>>

UnloadCheck(c, n) ==
    /\ ~dead /\ client[c].pc = "idle"
    /\ reg[n] # NoRunner
    /\ client' = [client EXCEPT ![c].pc = "unload", ![c].plug = n,
                                ![c].cur = reg[n]]
    /\ UNCHANGED <<reg, made, runnerVars, refresh, stopper, dead>>

UnloadSet(c) ==
    /\ ~dead /\ client[c].pc = "unload"
    /\ status' = [status EXCEPT ![client[c].cur] = "Unload"]
    /\ client' = [client EXCEPT ![c].pc = "idle", ![c].cur = NoRunner]
    /\ UNCHANGED <<reg, made, plug, running, gor, stopped, refresh, stopper, dead>>

-----------------------------------------------------------------------------
(* pluginRefresh. *)

RefreshBegin ==
    /\ ~dead /\ refresh.pc = "idle"
    /\ refresh' = [pc |-> "iter", todo |-> Registered, cur |-> NoRunner,
                   map |-> Empty]
    /\ UNCHANGED <<reg, made, runnerVars, client, stopper, dead>>

(* Mutant: a loaded plugin is passed over like a running one. *)
RefreshVisit_NoStart(n) ==
    LET r == reg[n]
        pc == IF status[r] = "Unload" THEN "wait" ELSE "iter"
    IN /\ ~dead /\ refresh.pc = "iter"
       /\ n \in refresh.todo
       /\ refresh' = [refresh EXCEPT !.pc = pc, !.todo = @ \ {n}, !.cur = r,
                                     !.map[n] = r]
       /\ running' = [running EXCEPT ![r] = @ /\ pc # "wait"]
       /\ UNCHANGED <<reg, made, plug, status, gor, stopped, client, stopper, dead>>

(* One turn of the loop.  For an unloaded plugin runner.Stop has cleared   *)
(* isRunning and waits; for a loaded one plugin.Start is running.          *)
RefreshVisit(n) ==
    LET r == reg[n]
        pc == CASE status[r] = "Unload" -> "wait"
                [] status[r] = "Loaded" -> "start"
                [] OTHER -> "iter"
    IN /\ ~dead /\ refresh.pc = "iter"
       /\ n \in refresh.todo
       /\ refresh' = [refresh EXCEPT !.pc = pc, !.todo = @ \ {n}, !.cur = r,
                                     !.map[n] = r]
       /\ running' = [running EXCEPT ![r] = @ /\ pc # "wait"]
       /\ UNCHANGED <<reg, made, plug, status, gor, stopped, client, stopper, dead>>

(* plugin.Start succeeds: isRunning is set and the goroutine launched (a   *)
(* worker's returns at once), and the status overwritten.                  *)
RefreshStarted ==
    LET r == refresh.cur
    IN /\ ~dead /\ refresh.pc = "start"
       /\ running' = [running EXCEPT ![r] = TRUE]
       /\ gor' = [gor EXCEPT ![r] = IF plug[r] \in Workers THEN "done" ELSE "check"]
       /\ status' = [status EXCEPT ![r] = "StartOK"]
       /\ refresh' = [refresh EXCEPT !.pc = "iter", !.cur = NoRunner]
       /\ UNCHANGED <<reg, made, plug, stopped, client, stopper, dead>>

RefreshStartError ==
    /\ ~dead /\ refresh.pc = "start"
    /\ status' = [status EXCEPT ![refresh.cur] = "StartError"]
    /\ refresh' = [refresh EXCEPT !.pc = "iter", !.cur = NoRunner]
    /\ UNCHANGED <<reg, made, plug, running, gor, stopped, client, stopper, dead>>

(* Mutant: plugin.Stop without wg.Wait. *)
RefreshStopped_NoWait ==
    LET r == refresh.cur
    IN /\ ~dead /\ refresh.pc = "wait"
       /\ stopped' = [stopped EXCEPT ![r] = TRUE]
       /\ \E m \in {refresh.map, [refresh.map EXCEPT ![plug[r]] = NoRunner]} :
             refresh' = [refresh EXCEPT !.pc = "iter", !.cur = NoRunner, !.map = m]
       /\ UNCHANGED <<reg, made, plug, status, running, gor, client, stopper, dead>>

(* wg.Wait returns and plugin.Stop is called; the plugin is dropped from   *)
(* the new map unless that fails.                                          *)
RefreshStopped ==
    LET r == refresh.cur
    IN /\ ~dead /\ refresh.pc = "wait"
       /\ ~Alive(r)
       /\ stopped' = [stopped EXCEPT ![r] = TRUE]
       /\ \E m \in {refresh.map, [refresh.map EXCEPT ![plug[r]] = NoRunner]} :
             refresh' = [refresh EXCEPT !.pc = "iter", !.cur = NoRunner, !.map = m]
       /\ UNCHANGED <<reg, made, plug, status, running, gor, client, stopper, dead>>

(* setRunners(plugins) *)
RefreshEnd ==
    /\ ~dead /\ refresh.pc = "iter"
    /\ refresh.todo = {}
    /\ reg' = refresh.map
    /\ refresh' = [pc |-> "idle", todo |-> {}, cur |-> NoRunner, map |-> Empty]
    /\ stopper' = [stopper EXCEPT !.live = FALSE]
    /\ UNCHANGED <<made, runnerVars, client, dead>>

(* The service goroutine receives from s.stop. *)
RefreshQuit ==
    /\ ~dead /\ refresh.pc = "idle"
    /\ stopper.pc # "idle"
    /\ refresh' = [refresh EXCEPT !.pc = "quit"]
    /\ UNCHANGED <<reg, made, runnerVars, client, stopper, dead>>

-----------------------------------------------------------------------------
(* The runner's goroutine: the isRunning checks, and the status a put ends *)
(* with (no block to put leaves it alone).                                 *)

RunnerCheck(r) ==
    /\ ~dead /\ gor[r] = "check"
    /\ gor' = [gor EXCEPT ![r] = IF running[r] THEN "put" ELSE "done"]
    /\ UNCHANGED <<reg, made, plug, status, running, stopped, refresh, client,
                   stopper, dead>>

RunnerPut(r) ==
    /\ ~dead /\ gor[r] = "put"
    /\ gor' = [gor EXCEPT ![r] = "check"]
    /\ \E s \in {status[r], "PutOK", "PutError"} :
          status' = [status EXCEPT ![r] = s]
    /\ UNCHANGED <<reg, made, plug, running, stopped, refresh, client, stopper, dead>>

-----------------------------------------------------------------------------
(* Service.Stop, from the signal handler's goroutine. *)

StopBegin ==
    /\ ~dead /\ Shutdown /\ stopper.pc = "idle"
    /\ stopper' = [pc |-> "iter", todo |-> Registered, cur |-> NoRunner,
                    map |-> reg, live |-> TRUE]
    /\ UNCHANGED <<reg, made, runnerVars, refresh, client, dead>>

StopRunner(n) ==
    /\ ~dead /\ stopper.pc = "iter"
    /\ n \in stopper.todo
    /\ stopper' = [stopper EXCEPT !.pc = "wait", !.todo = @ \ {n},
                                  !.cur = stopper.map[n]]
    /\ running' = [running EXCEPT ![stopper.map[n]] = FALSE]
    /\ UNCHANGED <<reg, made, plug, status, gor, stopped, refresh, client, dead>>

(* Mutant: plugin.Stop without wg.Wait. *)
StopWaited_NoWait ==
    /\ ~dead /\ stopper.pc = "wait"
    /\ stopped' = [stopped EXCEPT ![stopper.cur] = TRUE]
    /\ stopper' = [stopper EXCEPT !.pc = "iter", !.cur = NoRunner]
    /\ UNCHANGED <<reg, made, plug, status, running, gor, refresh, client, dead>>

StopWaited ==
    /\ ~dead /\ stopper.pc = "wait"
    /\ ~Alive(stopper.cur)
    /\ stopped' = [stopped EXCEPT ![stopper.cur] = TRUE]
    /\ stopper' = [stopper EXCEPT !.pc = "iter", !.cur = NoRunner]
    /\ UNCHANGED <<reg, made, plug, status, running, gor, refresh, client, dead>>

StopEnd ==
    /\ ~dead /\ stopper.pc = "iter"
    /\ stopper.todo = {}
    /\ stopper' = [stopper EXCEPT !.pc = "done"]
    /\ UNCHANGED <<reg, made, runnerVars, refresh, client, dead>>

Refresh == \/ RefreshBegin \/ RefreshStarted \/ RefreshStartError
           \/ RefreshStopped \/ RefreshEnd \/ RefreshQuit
           \/ \E n \in Plugins : RefreshVisit(n)

Stopping == StopBegin \/ StopWaited \/ StopEnd \/ \E n \in Plugins : StopRunner(n)

Goroutine(r) == RunnerCheck(r) \/ RunnerPut(r)

Call(c) == \/ LoadSet(c) \/ UnloadSet(c)
           \/ \E n \in Plugins : LoadCheck(c, n) \/ UnloadCheck(c, n)

Next ==
    \/ Refresh
    \/ Stopping
    \/ \E r \in Runners : Goroutine(r)
    \/ \E c \in Clients : Call(c)

Spec == Init /\ [][Next]_vars

(* The ticker keeps firing and goroutines keep being scheduled; nobody is  *)
(* bound to call.                                                          *)
LiveSpec ==
    /\ Spec
    /\ WF_vars(Refresh)
    /\ \A r \in Runners : WF_vars(Goroutine(r))

-----------------------------------------------------------------------------
(* Every live runner is the registered one of its plugin: none runs out of *)
(* reach of UnLoad and Stop, and no plugin has two.                        *)
NoOrphan ==
    \A r \in Runners : Alive(r) => reg[plug[r]] = r

(* plugin.Stop comes when the runner's goroutine has ended or not begun,   *)
(* whether pluginRefresh or Service.Stop calls it, and a goroutine that    *)
(* ended is never launched again.  So a stopped runner puts no more        *)
(* blocks, with one exception: pluginRefresh may still start, for its      *)
(* first time, a runner that Service.Stop has just stopped.                *)
NoPutAfterStop ==
    [][\A r \in Runners :
          /\ stopped'[r] /\ ~stopped[r] => ~Alive(r)'
          /\ ~Alive(r) /\ Alive(r)' =>
                gor[r] = "none" /\ (stopped[r] => stopper.pc # "idle")]_vars

(* A loaded plugin is started or reported as failed, unless it has left    *)
(* the registry or the service is being stopped.                           *)
LoadedIsStarted ==
    \A r \in Runners :
        (r <= made /\ status[r] = "Loaded") ~>
            (status[r] # "Loaded" \/ reg[plug[r]] # r \/ stopper.pc # "idle" \/ dead)

(* What README.md:10 and README.md:132 say of unload: a plugin that was     *)
(* unloaded is stopped, without a restart of the server.                   *)
UnloadStops ==
    \A r \in Runners : (status[r] = "Unload") ~> (~Alive(r) \/ dead)
=============================================================================
