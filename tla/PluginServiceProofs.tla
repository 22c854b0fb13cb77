-------------------------- MODULE PluginServiceProofs --------------------------
(***************************************************************************)
(* Proofs about PluginService for every set of plugins and workers and any *)
(* number of loads, with or without a shutdown of the service.  Types and  *)
(* NoPutAfterStop hold for any number of callers.  NoOrphan needs          *)
(* OneCaller: registerPlugin looks a plugin up and registers it in two     *)
(* critical sections, and two callers between them would both register it. *)
(***************************************************************************)
EXTENDS PluginService, TLAPS

(* TypeOK, by who changes what. *)
RegistryTypes ==
    /\ reg \in [Plugins -> RunnerOrNil]
    /\ made \in 0 .. MaxRunners
    /\ plug \in [Runners -> Plugins]
    /\ dead \in BOOLEAN
    /\ \A n \in Registered : reg[n] <= made /\ plug[reg[n]] = n
RunnerTypes ==
    /\ status \in [Runners -> {"Unload", "Loaded", "StartOK", "StartError",
                               "PutOK", "PutError"}]
    /\ running \in [Runners -> BOOLEAN]
    /\ gor \in [Runners -> {"none", "check", "put", "done"}]
    /\ stopped \in [Runners -> BOOLEAN]
RefreshTypes ==
    /\ refresh \in [pc : {"idle", "iter", "start", "wait", "quit"},
                    todo : SUBSET Plugins, cur : RunnerOrNil,
                    map : [Plugins -> RunnerOrNil]]
    /\ refresh.pc \in {"start", "wait"} => refresh.cur \in Runners
ClientTypes ==
    /\ client \in [Clients -> [pc : {"idle", "load", "unload"},
                               plug : Plugins, cur : RunnerOrNil]]
    /\ \A c \in Clients : client[c].pc = "unload" => client[c].cur \in Runners
StopperTypes ==
    /\ stopper \in [pc : {"idle", "iter", "wait", "done"},
                    todo : SUBSET Plugins, cur : RunnerOrNil,
                    map : [Plugins -> RunnerOrNil], live : BOOLEAN]
    /\ stopper.pc = "wait" => stopper.cur \in Runners

LEMMA TypeParts ==
    TypeOK <=> RegistryTypes /\ RunnerTypes /\ RefreshTypes /\ ClientTypes /\ StopperTypes
  BY DEF TypeOK, RegistryTypes, RunnerTypes, RefreshTypes, ClientTypes, StopperTypes

Walking == refresh.pc \in {"iter", "start", "wait"}

(* What a map says of a plugin is a runner that was made for it. *)
Owned(map) ==
    \A n \in Plugins : map[n] # NoRunner => map[n] <= made /\ plug[map[n]] = n

(* A walk visits only what is in its map. *)
WalksInv ==
    /\ Owned(refresh.map)
    /\ Owned(stopper.map)
    /\ Walking => refresh.todo \subseteq Registered
    /\ stopper.pc \in {"iter", "wait"} =>
          \A n \in stopper.todo : stopper.map[n] # NoRunner
    /\ refresh.pc \in {"start", "wait"} => refresh.cur <= made

(* Nothing becomes "Loaded" a second time, so a runner that pluginRefresh  *)
(* has stopped is never the one it is starting.                            *)
StoppedInv ==
    stopper.pc = "idle" =>
        /\ \A r \in Runners : stopped[r] => r <= made /\ status[r] # "Loaded" /\ ~Alive(r)
        /\ refresh.pc = "start" => ~stopped[refresh.cur]
        /\ refresh.pc = "wait" => status[refresh.cur] # "Loaded"

Types == RegistryTypes /\ RunnerTypes /\ RefreshTypes /\ ClientTypes /\ StopperTypes

IInv == Types /\ WalksInv /\ StoppedInv

-----------------------------------------------------------------------------
LEMMA ConstantFacts ==
    /\ Plugins # {}
    /\ MaxRunners \in Nat
    /\ NoRunner \notin Runners
    /\ Runners \subseteq Nat
  BY ServiceAssumption DEF Runners

(* What a step leaves alone keeps its type. *)
LEMMA Frame ==
    ASSUME Types
    PROVE  /\ UNCHANGED <<reg, made, plug, dead>> => RegistryTypes'
           /\ UNCHANGED <<status, running, gor, stopped>> => RunnerTypes'
           /\ UNCHANGED refresh => RefreshTypes'
           /\ UNCHANGED client => ClientTypes'
           /\ UNCHANGED stopper => StopperTypes'
  BY DEF Types, RegistryTypes, RunnerTypes, RefreshTypes, ClientTypes, StopperTypes,
     Registered

LEMMA IInvInit == Init => IInv
  <1> SUFFICES ASSUME Init PROVE IInv
    OBVIOUS
  <1>1. (CHOOSE n \in Plugins : TRUE) \in Plugins
    BY ConstantFacts
  <1>2. Empty \in [Plugins -> RunnerOrNil] /\ \A n \in Plugins : Empty[n] = NoRunner
    BY DEF Empty, RunnerOrNil
  <1>3. Registered = {}
    BY <1>2 DEF Init, Registered
  <1>4. RegistryTypes
    <2>1. plug \in [Runners -> Plugins]
      BY <1>1 DEF Init
    <2>2. reg \in [Plugins -> RunnerOrNil]
      BY <1>2 DEF Init
    <2>3. 0 \in 0 .. MaxRunners
      BY ConstantFacts
    <2>4. made \in 0 .. MaxRunners
      BY <2>3 DEF Init
    <2>5. dead \in BOOLEAN
      BY DEF Init
    <2> QED
      BY <2>1, <2>2, <2>4, <2>5, <1>3 DEF RegistryTypes
  <1>5. RunnerTypes
    BY DEF Init, RunnerTypes
  <1>6. RefreshTypes /\ StopperTypes
    BY <1>2 DEF Init, RefreshTypes, StopperTypes, RunnerOrNil
  <1>7. ClientTypes
    BY <1>1 DEF Init, ClientTypes, RunnerOrNil
  <1>8. WalksInv
    BY <1>2 DEF Init, WalksInv, Owned, Walking
  <1>9. StoppedInv
    BY DEF Init, StoppedInv
  <1> QED
    BY <1>4, <1>5, <1>6, <1>7, <1>8, <1>9 DEF IInv, Types

-----------------------------------------------------------------------------
(* The calls. *)

LEMMA LoadCheckStep ==
    ASSUME IInv, NEW c \in Clients, NEW n \in Plugins, LoadCheck(c, n)
    PROVE  IInv'
  <1> USE DEF LoadCheck, runnerVars
  <1>1. ClientTypes'
    BY DEF IInv, Types, ClientTypes
  <1>2. Types'
    BY <1>1, Frame DEF IInv, Types
  <1>3. WalksInv'
    BY DEF IInv, WalksInv, Owned, Walking, Registered
  <1>4. StoppedInv'
    BY DEF IInv, StoppedInv, Alive
  <1> QED
    BY <1>2, <1>3, <1>4 DEF IInv

LEMMA UnloadCheckStep ==
    ASSUME IInv, NEW c \in Clients, NEW n \in Plugins, UnloadCheck(c, n)
    PROVE  IInv'
  <1> USE DEF UnloadCheck, runnerVars
  <1>0. reg[n] \in Runners
    BY DEF IInv, Types, RegistryTypes, RunnerOrNil
  <1>1. ClientTypes'
    BY <1>0 DEF IInv, Types, ClientTypes, RunnerOrNil
  <1>2. Types'
    BY <1>1, Frame DEF IInv, Types
  <1>3. WalksInv'
    BY DEF IInv, WalksInv, Owned, Walking, Registered
  <1>4. StoppedInv'
    BY DEF IInv, StoppedInv, Alive
  <1> QED
    BY <1>2, <1>3, <1>4 DEF IInv

LEMMA UnloadSetStep ==
    ASSUME IInv, NEW c \in Clients, UnloadSet(c)
    PROVE  IInv'
  <1> USE DEF UnloadSet
  <1>0. client[c].cur \in Runners
    BY DEF IInv, Types, ClientTypes
  <1>1. ClientTypes'
    BY DEF IInv, Types, ClientTypes, RunnerOrNil
  <1>2. RunnerTypes'
    BY <1>0 DEF IInv, Types, RunnerTypes
  <1>3. Types'
    BY <1>1, <1>2, Frame DEF IInv, Types
  <1>4. WalksInv'
    BY DEF IInv, WalksInv, Owned, Walking, Registered
  <1>5. StoppedInv'
    BY <1>0 DEF IInv, Types, RunnerTypes, StoppedInv, Alive
  <1> QED
    BY <1>3, <1>4, <1>5 DEF IInv

(* A new runner has a number of its own: no map, walk or goroutine knows it. *)
LEMMA LoadSetStep ==
    ASSUME IInv, NEW c \in Clients, LoadSet(c)
    PROVE  IInv'
  <1> DEFINE n == client[c].plug
             r == made + 1
  <1>0. n \in Plugins /\ r \in Runners /\ r \in 0 .. MaxRunners /\ made \in Nat
    BY ConstantFacts DEF LoadSet, IInv, Types, ClientTypes, RegistryTypes, Runners
  <1>1. /\ made' = r
        /\ plug' = [plug EXCEPT ![r] = n]
        /\ status' = [status EXCEPT ![r] = "Loaded"]
        /\ reg' = [reg EXCEPT ![n] = r]
        /\ refresh' = refresh \/ refresh' = [refresh EXCEPT !.todo = @ \cup {n}]
        /\ stopper' = stopper \/ stopper' = [stopper EXCEPT !.todo = @ \cup {n}, !.map[n] = r]
        /\ client' = [client EXCEPT ![c].pc = "idle"]
        /\ UNCHANGED <<running, gor, stopped>>
    BY DEF LoadSet
  <1>2. dead' \in BOOLEAN
    BY DEF LoadSet
  <1>3. \A m \in Registered : reg[m] # r
    BY <1>0, ConstantFacts DEF IInv, Types, RegistryTypes, Registered, RunnerOrNil
  <1>4. RegistryTypes'
    BY <1>0, <1>1, <1>2, <1>3, ConstantFacts DEF IInv, Types, RegistryTypes, Registered, RunnerOrNil
  <1>5. RunnerTypes'
    BY <1>0, <1>1 DEF IInv, Types, RunnerTypes
  <1>6. RefreshTypes'
    BY <1>0, <1>1 DEF IInv, Types, RefreshTypes
  <1>7. ClientTypes'
    BY <1>0, <1>1 DEF IInv, Types, ClientTypes
  <1>8. StopperTypes'
    <2>1. CASE stopper' = stopper
      BY <2>1 DEF IInv, Types, StopperTypes
    <2>2. CASE stopper' = [stopper EXCEPT !.todo = @ \cup {n}, !.map[n] = r]
      <3> DEFINE S == [pc : {"idle", "iter", "wait", "done"}, todo : SUBSET Plugins,
                       cur : RunnerOrNil, map : [Plugins -> RunnerOrNil], live : BOOLEAN]
      <3>1. stopper \in S /\ (stopper.pc = "wait" => stopper.cur \in Runners)
        BY DEF IInv, Types, StopperTypes
      <3>2. [stopper.map EXCEPT ![n] = r] \in [Plugins -> RunnerOrNil]
        BY <1>0, <3>1 DEF RunnerOrNil
      <3>3. stopper.todo \cup {n} \in SUBSET Plugins
        BY <1>0, <3>1
      <3>4. stopper' = [[stopper EXCEPT !.todo = stopper.todo \cup {n}]
                          EXCEPT !.map = [stopper.map EXCEPT ![n] = r]]
        BY <2>2, <3>1
      <3> HIDE DEF n, r
      <3>5. stopper' \in S /\ stopper'.pc = stopper.pc /\ stopper'.cur = stopper.cur
        BY <3>1, <3>2, <3>3, <3>4
      <3> QED
        BY <3>1, <3>5 DEF StopperTypes
    <2> QED
      BY <1>1, <2>1, <2>2
  <1>9. WalksInv'
    <2>1. \A map : map \in [Plugins -> RunnerOrNil] /\ Owned(map) =>
              \A m \in Plugins : map[m] # NoRunner => map[m] <= made' /\ plug'[map[m]] = m
      <3> SUFFICES ASSUME NEW map \in [Plugins -> RunnerOrNil], Owned(map),
                          NEW m \in Plugins, map[m] # NoRunner
                   PROVE  map[m] <= made' /\ plug'[map[m]] = m
        OBVIOUS
      <3>1. map[m] \in Runners /\ map[m] <= made /\ plug[map[m]] = m
        BY DEF Owned, RunnerOrNil
      <3>2. map[m] \in Nat
        BY <3>1, ConstantFacts
      <3>3. map[m] # r /\ map[m] <= r
        BY <3>1, <3>2, <1>0
      <3> QED
        BY <3>1, <3>3, <1>0, <1>1 DEF IInv, Types, RegistryTypes
    <2>2. Owned(refresh.map)'
      BY <1>1, <2>1 DEF Owned, IInv, Types, RefreshTypes, WalksInv
    <2>3. Owned(stopper.map)'
      <3>1. CASE stopper' = stopper
        BY <3>1, <2>1 DEF Owned, IInv, Types, StopperTypes, WalksInv
      <3>2. CASE stopper' = [stopper EXCEPT !.todo = @ \cup {n}, !.map[n] = r]
        <4>1. stopper'.map = [stopper.map EXCEPT ![n] = r]
          BY <3>2 DEF IInv, Types, StopperTypes
        <4>2. plug'[r] = n
          BY <1>0, <1>1 DEF IInv, Types, RegistryTypes
        <4> QED
          BY <4>1, <4>2, <1>0, <1>1, <2>1 DEF Owned, IInv, Types, StopperTypes, WalksInv
      <3> QED
        BY <1>1, <3>1, <3>2
    <2>4. Registered' = Registered \cup {n}
      BY <1>0, <1>1, ConstantFacts DEF Registered, IInv, Types, RegistryTypes
    <2>5. (Walking => refresh.todo \subseteq Registered)'
      BY <1>1, <2>4 DEF Walking, IInv, Types, RefreshTypes, WalksInv
    <2>6. (stopper.pc \in {"iter", "wait"} => \A m \in stopper.todo : stopper.map[m] # NoRunner)'
      <3>1. r # NoRunner
        BY <1>0, ConstantFacts
      <3>2. CASE stopper' = stopper
        BY <3>2 DEF IInv, WalksInv
      <3>3. CASE stopper' = [stopper EXCEPT !.todo = @ \cup {n}, !.map[n] = r]
        <4>1. /\ stopper'.pc = stopper.pc
              /\ stopper'.todo = stopper.todo \cup {n}
              /\ stopper'.map = [stopper.map EXCEPT ![n] = r]
          BY <3>3 DEF IInv, Types, StopperTypes
        <4> HIDE DEF n, r
        <4>2. ASSUME stopper.pc \in {"iter", "wait"}, NEW m \in stopper'.todo
              PROVE  stopper'.map[m] # NoRunner
          BY <4>1, <4>2, <3>1, <1>0 DEF IInv, Types, StopperTypes, WalksInv
        <4> QED
          BY <4>1, <4>2
      <3> QED
        BY <1>1, <3>2, <3>3
    <2>7. (refresh.pc \in {"start", "wait"} => refresh.cur <= made)'
      <3>1. refresh'.pc = refresh.pc /\ refresh'.cur = refresh.cur
        BY <1>1 DEF IInv, Types, RefreshTypes
      <3>2. refresh.pc \in {"start", "wait"} => refresh.cur \in Nat /\ refresh.cur <= made
        BY ConstantFacts DEF IInv, Types, RefreshTypes, WalksInv
      <3> QED
        BY <1>0, <1>1, <3>1, <3>2
    <2> QED
      BY <2>2, <2>3, <2>5, <2>6, <2>7 DEF WalksInv
  <1>10. StoppedInv'
    <2>1. refresh'.pc = refresh.pc /\ refresh'.cur = refresh.cur /\ stopper'.pc = stopper.pc
      BY <1>1 DEF IInv, Types, RefreshTypes, StopperTypes
    <2>2. ASSUME stopper.pc = "idle", NEW q \in Runners, stopped[q]
          PROVE  q <= made' /\ status'[q] # "Loaded"
      <3>1. q <= made /\ q # r /\ q \in Nat /\ status[q] # "Loaded"
        BY <1>0, <2>2, ConstantFacts DEF IInv, StoppedInv
      <3> QED
        BY <1>0, <1>1, <3>1 DEF IInv, Types, RunnerTypes
    <2>3. ASSUME stopper.pc = "idle", refresh.pc = "wait"
          PROVE  status'[refresh.cur] # "Loaded"
      <3>1. refresh.cur \in Runners /\ refresh.cur <= made /\ status[refresh.cur] # "Loaded"
        BY <2>3 DEF IInv, Types, RefreshTypes, WalksInv, StoppedInv
      <3>2. refresh.cur # r
        BY <1>0, <3>1, ConstantFacts
      <3> QED
        BY <1>0, <1>1, <3>1, <3>2 DEF IInv, Types, RunnerTypes
    <2> QED
      BY <1>1, <2>1, <2>2, <2>3 DEF IInv, StoppedInv, Alive
  <1> QED
    BY <1>4, <1>5, <1>6, <1>7, <1>8, <1>9, <1>10 DEF IInv, Types

-----------------------------------------------------------------------------
(* pluginRefresh. *)

LEMMA RefreshBeginStep ==
    ASSUME IInv, RefreshBegin
    PROVE  IInv'
  <1> USE DEF RefreshBegin, runnerVars
  <1>1. Empty \in [Plugins -> RunnerOrNil] /\ \A n \in Plugins : Empty[n] = NoRunner
    BY DEF Empty, RunnerOrNil
  <1>2. RefreshTypes'
    BY <1>1 DEF RefreshTypes, RunnerOrNil, Registered
  <1>3. Types'
    BY <1>2, Frame DEF IInv, Types
  <1>4. WalksInv'
    BY <1>1 DEF IInv, WalksInv, Owned, Walking, Registered
  <1>5. StoppedInv'
    BY DEF IInv, StoppedInv, Alive
  <1> QED
    BY <1>3, <1>4, <1>5 DEF IInv

(* What is visited is registered: the walk never has nil in hand. *)
LEMMA RefreshVisitStep ==
    ASSUME IInv, NEW n \in Plugins, RefreshVisit(n)
    PROVE  IInv'
  <1> DEFINE r == reg[n]
             pc == CASE status[r] = "Unload" -> "wait"
                     [] status[r] = "Loaded" -> "start"
                     [] OTHER -> "iter"
  <1>1. /\ refresh.pc = "iter" /\ n \in refresh.todo
        /\ refresh' = [refresh EXCEPT !.pc = pc, !.todo = @ \ {n}, !.cur = r, !.map[n] = r]
        /\ running' = [running EXCEPT ![r] = @ /\ pc # "wait"]
        /\ UNCHANGED <<reg, made, plug, status, gor, stopped, client, stopper, dead>>
    BY DEF RefreshVisit
  <1>2. r \in Runners /\ r <= made /\ plug[r] = n
    BY <1>1 DEF IInv, Types, RegistryTypes, WalksInv, Walking, Registered, RunnerOrNil
  <1>3. /\ pc \in {"wait", "start", "iter"}
        /\ pc = "start" => status[r] = "Loaded"
        /\ pc = "wait" => status[r] # "Loaded"
    OBVIOUS
  <1> HIDE DEF pc
  <1>4. /\ refresh'.pc = pc
        /\ refresh'.todo = refresh.todo \ {n}
        /\ refresh'.cur = r
        /\ refresh'.map = [refresh.map EXCEPT ![n] = r]
    BY <1>1 DEF IInv, Types, RefreshTypes
  <1>5. RefreshTypes'
    <2> DEFINE S == [pc : {"idle", "iter", "start", "wait", "quit"}, todo : SUBSET Plugins,
                     cur : RunnerOrNil, map : [Plugins -> RunnerOrNil]]
    <2>1. refresh \in S
      BY DEF IInv, Types, RefreshTypes
    <2>2. [refresh.map EXCEPT ![n] = r] \in [Plugins -> RunnerOrNil]
      BY <1>2, <2>1 DEF RunnerOrNil
    <2>3. refresh.todo \ {n} \in SUBSET Plugins /\ r \in RunnerOrNil
      BY <1>2, <2>1 DEF RunnerOrNil
    <2>4. refresh' = [[[[refresh EXCEPT !.pc = pc] EXCEPT !.todo = refresh.todo \ {n}]
                         EXCEPT !.cur = r] EXCEPT !.map = [refresh.map EXCEPT ![n] = r]]
      BY <1>1, <2>1
    <2> HIDE DEF r
    <2>5. refresh' \in S
      BY <1>3, <2>1, <2>2, <2>3, <2>4
    <2> QED
      BY <2>5, <1>4, <1>2 DEF RefreshTypes
  <1>6. RunnerTypes'
    <2>1. (running[r] /\ pc # "wait") \in BOOLEAN
      OBVIOUS
    <2>2. running' \in [Runners -> BOOLEAN]
      BY <1>1, <1>2, <2>1 DEF IInv, Types, RunnerTypes
    <2> QED
      BY <1>1, <2>2 DEF IInv, Types, RunnerTypes
  <1>7. Types'
    BY <1>1, <1>5, <1>6, Frame DEF IInv, Types
  <1>8. WalksInv'
    <2>1. Owned(refresh.map)'
      BY <1>1, <1>2, <1>4 DEF Owned, IInv, Types, RefreshTypes, WalksInv
    <2>2. Owned(stopper.map)'
      BY <1>1 DEF Owned, IInv, WalksInv
    <2>3. Registered' = Registered
      BY <1>1 DEF Registered
    <2>4. refresh'.todo \subseteq Registered'
      BY <1>1, <1>4, <2>3 DEF IInv, WalksInv, Walking
    <2>5. refresh'.cur <= made'
      BY <1>1, <1>2, <1>4
    <2> QED
      BY <1>1, <2>1, <2>2, <2>4, <2>5 DEF IInv, WalksInv
  <1>9. StoppedInv'
    BY <1>1, <1>2, <1>3, <1>4 DEF IInv, StoppedInv, Alive
  <1> QED
    BY <1>7, <1>8, <1>9 DEF IInv

(* The walk goes on with what it has: no map, no plugin left changes. *)
LEMMA WalkGoesOn ==
    ASSUME IInv, refresh.pc \in {"start", "wait"},
           refresh' = [refresh EXCEPT !.pc = "iter", !.cur = NoRunner],
           UNCHANGED <<reg, made, plug, stopper>>
    PROVE  RefreshTypes' /\ WalksInv'
  <1>1. RefreshTypes'
    BY DEF IInv, Types, RefreshTypes, RunnerOrNil
  <1>2. refresh'.pc = "iter" /\ refresh'.todo = refresh.todo /\ refresh'.map = refresh.map
    BY DEF IInv, Types, RefreshTypes
  <1>3. Registered' = Registered
    BY DEF Registered
  <1>4. WalksInv'
    BY <1>2, <1>3 DEF IInv, WalksInv, Owned, Walking
  <1> QED
    BY <1>1, <1>4

LEMMA RefreshStartedStep ==
    ASSUME IInv, RefreshStarted
    PROVE  IInv'
  <1> DEFINE r == refresh.cur
             g == IF plug[r] \in Workers THEN "done" ELSE "check"
  <1>1. /\ refresh.pc = "start"
        /\ running' = [running EXCEPT ![r] = TRUE]
        /\ gor' = [gor EXCEPT ![r] = g]
        /\ status' = [status EXCEPT ![r] = "StartOK"]
        /\ refresh' = [refresh EXCEPT !.pc = "iter", !.cur = NoRunner]
        /\ UNCHANGED <<reg, made, plug, stopped, client, stopper, dead>>
    BY DEF RefreshStarted
  <1>2. r \in Runners
    BY <1>1 DEF IInv, Types, RefreshTypes
  <1>3. g \in {"none", "check", "put", "done"}
    OBVIOUS
  <1> HIDE DEF g
  <1>4. RunnerTypes'
    BY <1>1, <1>2, <1>3 DEF IInv, Types, RunnerTypes
  <1>5. RefreshTypes' /\ WalksInv'
    BY <1>1, WalkGoesOn
  <1>6. Types'
    BY <1>1, <1>4, <1>5, Frame DEF IInv, Types
  <1>7. refresh'.pc = "iter"
    BY <1>1 DEF IInv, Types, RefreshTypes
  <1>8. StoppedInv'
    <2>1. ASSUME stopper.pc = "idle", NEW q \in Runners, stopped[q]
          PROVE  q # r /\ q <= made /\ status[q] # "Loaded" /\ ~Alive(q)
      BY <1>1, <2>1 DEF IInv, StoppedInv
    <2> QED
      BY <1>1, <1>2, <1>7, <2>1 DEF IInv, Types, RunnerTypes, StoppedInv, Alive
  <1> QED
    BY <1>5, <1>6, <1>8 DEF IInv

LEMMA RefreshStartErrorStep ==
    ASSUME IInv, RefreshStartError
    PROVE  IInv'
  <1> USE DEF RefreshStartError
  <1>1. refresh.cur \in Runners
    BY DEF IInv, Types, RefreshTypes
  <1>2. RunnerTypes'
    BY <1>1 DEF IInv, Types, RunnerTypes
  <1>3. RefreshTypes' /\ WalksInv'
    BY WalkGoesOn
  <1>4. Types'
    BY <1>2, <1>3, Frame DEF IInv, Types
  <1>5. refresh'.pc = "iter"
    BY DEF IInv, Types, RefreshTypes
  <1>6. StoppedInv'
    BY <1>1, <1>5 DEF IInv, Types, RunnerTypes, StoppedInv, Alive
  <1> QED
    BY <1>3, <1>4, <1>6 DEF IInv

(* wg.Wait has returned: the runner that is stopped is not alive, and it   *)
(* was unloaded, not loaded.                                               *)
LEMMA RefreshStoppedStep ==
    ASSUME IInv, RefreshStopped
    PROVE  IInv'
  <1> DEFINE r == refresh.cur
             dropped == [refresh.map EXCEPT ![plug[r]] = NoRunner]
  <1>1. /\ refresh.pc = "wait" /\ ~Alive(r)
        /\ stopped' = [stopped EXCEPT ![r] = TRUE]
        /\ UNCHANGED <<reg, made, plug, status, running, gor, client, stopper, dead>>
    BY DEF RefreshStopped
  <1>2. PICK m \in {refresh.map, dropped} :
           refresh' = [refresh EXCEPT !.pc = "iter", !.cur = NoRunner, !.map = m]
    BY DEF RefreshStopped
  <1>3. r \in Runners /\ r <= made /\ plug[r] \in Plugins
    BY <1>1 DEF IInv, Types, RefreshTypes, RegistryTypes, WalksInv
  <1>4. /\ m \in [Plugins -> RunnerOrNil]
        /\ \A n \in Plugins : m[n] # NoRunner => m[n] = refresh.map[n]
    BY <1>2, <1>3 DEF IInv, Types, RefreshTypes, RunnerOrNil
  <1>5. RefreshTypes' /\ refresh'.pc = "iter" /\ refresh'.todo = refresh.todo /\ refresh'.map = m
    BY <1>2, <1>4 DEF IInv, Types, RefreshTypes, RunnerOrNil
  <1>6. RunnerTypes'
    BY <1>1, <1>3 DEF IInv, Types, RunnerTypes
  <1>7. Types'
    BY <1>1, <1>5, <1>6, Frame DEF IInv, Types
  <1>8. WalksInv'
    <2>1. Owned(refresh.map)'
      BY <1>1, <1>4, <1>5 DEF Owned, IInv, WalksInv
    <2>2. Owned(stopper.map)'
      BY <1>1 DEF Owned, IInv, WalksInv
    <2>3. Registered' = Registered
      BY <1>1 DEF Registered
    <2> QED
      BY <1>1, <1>5, <2>1, <2>2, <2>3 DEF IInv, WalksInv, Walking
  <1>9. StoppedInv'
    BY <1>1, <1>3, <1>5 DEF IInv, Types, RunnerTypes, StoppedInv, Alive
  <1> QED
    BY <1>7, <1>8, <1>9 DEF IInv

LEMMA RefreshEndStep ==
    ASSUME IInv, RefreshEnd
    PROVE  IInv'
  <1> USE DEF RefreshEnd, runnerVars
  <1>1. Empty \in [Plugins -> RunnerOrNil] /\ \A n \in Plugins : Empty[n] = NoRunner
    BY DEF Empty, RunnerOrNil
  <1>2. RefreshTypes'
    BY <1>1 DEF RefreshTypes, RunnerOrNil
  <1>3. StopperTypes' /\ stopper'.pc = stopper.pc /\ stopper'.todo = stopper.todo
        /\ stopper'.map = stopper.map
    BY DEF IInv, Types, StopperTypes
  <1>4. RegistryTypes'
    BY DEF IInv, Types, RegistryTypes, RefreshTypes, WalksInv, Owned, Registered
  <1>5. Types'
    BY <1>2, <1>3, <1>4, Frame DEF IInv, Types
  <1>6. WalksInv'
    BY <1>1, <1>3 DEF IInv, WalksInv, Owned, Walking
  <1>7. StoppedInv'
    BY <1>3 DEF IInv, StoppedInv, Alive
  <1> QED
    BY <1>5, <1>6, <1>7 DEF IInv

LEMMA RefreshQuitStep ==
    ASSUME IInv, RefreshQuit
    PROVE  IInv'
  <1> USE DEF RefreshQuit, runnerVars
  <1>1. RefreshTypes' /\ refresh'.pc = "quit" /\ refresh'.map = refresh.map
    BY DEF IInv, Types, RefreshTypes
  <1>2. Types'
    BY <1>1, Frame DEF IInv, Types
  <1>3. WalksInv'
    BY <1>1 DEF IInv, WalksInv, Owned, Walking
  <1>4. StoppedInv'
    BY <1>1 DEF IInv, StoppedInv, Alive
  <1> QED
    BY <1>2, <1>3, <1>4 DEF IInv

-----------------------------------------------------------------------------
(* The runner's goroutine: it never brings a runner to life, and a put     *)
(* never ends in "Loaded".                                                 *)

LEMMA RunnerCheckStep ==
    ASSUME IInv, NEW r \in Runners, RunnerCheck(r)
    PROVE  IInv'
  <1> USE DEF RunnerCheck
  <1>1. RunnerTypes'
    BY DEF IInv, Types, RunnerTypes
  <1>2. Types'
    BY <1>1, Frame DEF IInv, Types
  <1>3. WalksInv'
    BY DEF IInv, WalksInv, Owned, Walking, Registered
  <1>4. StoppedInv'
    BY DEF IInv, Types, RunnerTypes, StoppedInv, Alive
  <1> QED
    BY <1>2, <1>3, <1>4 DEF IInv

LEMMA RunnerPutStep ==
    ASSUME IInv, NEW r \in Runners, RunnerPut(r)
    PROVE  IInv'
  <1>1. /\ gor[r] = "put" /\ gor' = [gor EXCEPT ![r] = "check"]
        /\ UNCHANGED <<reg, made, plug, running, stopped, refresh, client, stopper, dead>>
    BY DEF RunnerPut
  <1>2. PICK s \in {status[r], "PutOK", "PutError"} : status' = [status EXCEPT ![r] = s]
    BY DEF RunnerPut
  <1>3. RunnerTypes'
    BY <1>1, <1>2 DEF IInv, Types, RunnerTypes
  <1>4. Types'
    BY <1>1, <1>3, Frame DEF IInv, Types
  <1>5. WalksInv'
    BY <1>1 DEF IInv, WalksInv, Owned, Walking, Registered
  <1>6. \A q \in Runners : status[q] # "Loaded" => status'[q] # "Loaded"
    BY <1>2 DEF IInv, Types, RunnerTypes
  <1>7. StoppedInv'
    BY <1>1, <1>6 DEF IInv, Types, RunnerTypes, RefreshTypes, StoppedInv, Alive
  <1> QED
    BY <1>4, <1>5, <1>7 DEF IInv

-----------------------------------------------------------------------------
(* Service.Stop. *)

LEMMA StopBeginStep ==
    ASSUME IInv, StopBegin
    PROVE  IInv'
  <1> USE DEF StopBegin, runnerVars
  <1>1. StopperTypes'
    BY DEF IInv, Types, RegistryTypes, StopperTypes, RunnerOrNil, Registered
  <1>2. Types'
    BY <1>1, Frame DEF IInv, Types
  <1>3. WalksInv'
    BY DEF IInv, Types, RegistryTypes, WalksInv, Owned, Walking, Registered
  <1>4. StoppedInv'
    BY DEF StoppedInv
  <1> QED
    BY <1>2, <1>3, <1>4 DEF IInv

LEMMA StopRunnerStep ==
    ASSUME IInv, NEW n \in Plugins, StopRunner(n)
    PROVE  IInv'
  <1> USE DEF StopRunner
  <1>1. stopper.map[n] \in Runners
    BY DEF IInv, Types, StopperTypes, WalksInv, RunnerOrNil
  <1>2. /\ StopperTypes'
        /\ stopper'.pc = "wait"
        /\ stopper'.todo = stopper.todo \ {n}
        /\ stopper'.map = stopper.map
    BY <1>1 DEF IInv, Types, StopperTypes, RunnerOrNil
  <1>3. RunnerTypes'
    BY <1>1 DEF IInv, Types, RunnerTypes
  <1>4. Types'
    BY <1>2, <1>3, Frame DEF IInv, Types
  <1>5. WalksInv'
    BY <1>2 DEF IInv, WalksInv, Owned, Walking, Registered
  <1>6. StoppedInv'
    BY <1>2 DEF StoppedInv
  <1> QED
    BY <1>4, <1>5, <1>6 DEF IInv

LEMMA StopWaitedStep ==
    ASSUME IInv, StopWaited
    PROVE  IInv'
  <1> USE DEF StopWaited
  <1>1. stopper.cur \in Runners
    BY DEF IInv, Types, StopperTypes
  <1>2. /\ StopperTypes'
        /\ stopper'.pc = "iter"
        /\ stopper'.todo = stopper.todo
        /\ stopper'.map = stopper.map
    BY DEF IInv, Types, StopperTypes, RunnerOrNil
  <1>3. RunnerTypes'
    BY <1>1 DEF IInv, Types, RunnerTypes
  <1>4. Types'
    BY <1>2, <1>3, Frame DEF IInv, Types
  <1>5. WalksInv'
    BY <1>2 DEF IInv, WalksInv, Owned, Walking, Registered
  <1>6. StoppedInv'
    BY <1>2 DEF StoppedInv
  <1> QED
    BY <1>4, <1>5, <1>6 DEF IInv

LEMMA StopEndStep ==
    ASSUME IInv, StopEnd
    PROVE  IInv'
  <1> USE DEF StopEnd, runnerVars
  <1>1. StopperTypes' /\ stopper'.pc = "done" /\ stopper'.map = stopper.map
    BY DEF IInv, Types, StopperTypes
  <1>2. Types'
    BY <1>1, Frame DEF IInv, Types
  <1>3. WalksInv'
    BY <1>1 DEF IInv, WalksInv, Owned, Walking, Registered
  <1>4. StoppedInv'
    BY <1>1 DEF StoppedInv
  <1> QED
    BY <1>2, <1>3, <1>4 DEF IInv

-----------------------------------------------------------------------------
(* Every step preserves the invariant. *)
LEMMA IInvStep == IInv /\ [Next]_vars => IInv'
  <1> SUFFICES ASSUME IInv, [Next]_vars PROVE IInv'
    OBVIOUS
  <1>1. CASE Refresh
    BY <1>1, RefreshBeginStep, RefreshVisitStep, RefreshStartedStep, RefreshStartErrorStep,
       RefreshStoppedStep, RefreshEndStep, RefreshQuitStep DEF Refresh
  <1>2. CASE Stopping
    BY <1>2, StopBeginStep, StopRunnerStep, StopWaitedStep, StopEndStep DEF Stopping
  <1>3. ASSUME NEW r \in Runners, Goroutine(r) PROVE IInv'
    BY <1>3, RunnerCheckStep, RunnerPutStep DEF Goroutine
  <1>4. ASSUME NEW c \in Clients, Call(c) PROVE IInv'
    BY <1>4, LoadCheckStep, LoadSetStep, UnloadCheckStep, UnloadSetStep DEF Call
  <1>5. CASE UNCHANGED vars
    <2> USE <1>5 DEF vars, runnerVars
    <2>1. Types'
      BY Frame DEF IInv, Types
    <2>2. WalksInv'
      BY DEF IInv, WalksInv, Owned, Walking, Registered
    <2>3. StoppedInv'
      BY DEF IInv, StoppedInv, Alive
    <2> QED
      BY <2>1, <2>2, <2>3 DEF IInv
  <1> QED
    BY <1>1, <1>2, <1>3, <1>4, <1>5 DEF Next

LEMMA Inductive == Spec => []IInv
  BY IInvInit, IInvStep, PTL DEF Spec

(* Types: no call, walk or wait ever works on nil (server/runner.go), and  *)
(* the registry holds the runners that were made for their keys.           *)
THEOREM TypeCorrect == Spec => []TypeOK
  <1>1. IInv => TypeOK
    BY TypeParts DEF IInv, Types
  <1> QED
    BY <1>1, Inductive, PTL

-----------------------------------------------------------------------------
(* A goroutine is launched once in the life of its runner: "Loaded" is what *)
(* pluginRefresh starts, and nothing writes it a second time.               *)

OnceInv ==
    /\ \A r \in Runners : gor[r] # "none" => r <= made /\ status[r] # "Loaded"
    /\ refresh.pc = "start" => gor[refresh.cur] = "none"

LEMMA OnceInit == Init => OnceInv
  BY DEF Init, OnceInv

(* A step that launches nothing, loads nothing and keeps the walk where it  *)
(* is, or takes it on to anything but a start.                              *)
LEMMA OnceFrame ==
    ASSUME OnceInv, made' = made,
           \A r \in Runners : gor'[r] # "none" <=> gor[r] # "none",
           \A r \in Runners : gor[r] # "none" /\ status[r] # "Loaded" => status'[r] # "Loaded",
           refresh' = refresh \/ refresh'.pc # "start",
           refresh.pc = "start" => refresh.cur \in Runners
    PROVE  OnceInv'
  BY DEF OnceInv

(* Only what is "Loaded" is taken in hand to be started. *)
LEMMA OnceRefreshVisit ==
    ASSUME IInv, OnceInv, NEW n \in Plugins, RefreshVisit(n)
    PROVE  OnceInv'
  <1> DEFINE r == reg[n]
             pc == CASE status[r] = "Unload" -> "wait"
                     [] status[r] = "Loaded" -> "start"
                     [] OTHER -> "iter"
  <1>1. /\ refresh.pc = "iter" /\ n \in refresh.todo
        /\ refresh' = [refresh EXCEPT !.pc = pc, !.todo = @ \ {n}, !.cur = r, !.map[n] = r]
        /\ UNCHANGED <<made, status, gor>>
    BY DEF RefreshVisit
  <1>2. r \in Runners
    BY <1>1 DEF IInv, Types, RegistryTypes, WalksInv, Walking, Registered, RunnerOrNil
  <1>3. pc = "start" => gor[r] = "none"
    BY <1>2 DEF OnceInv
  <1> HIDE DEF pc
  <1>4. refresh'.pc = pc /\ refresh'.cur = r
    BY <1>1 DEF IInv, Types, RefreshTypes
  <1> QED
    BY <1>1, <1>3, <1>4 DEF OnceInv

LEMMA OnceRefreshStarted ==
    ASSUME IInv, OnceInv, RefreshStarted
    PROVE  OnceInv'
  <1> DEFINE r == refresh.cur
  <1>1. r \in Runners /\ r <= made
    BY DEF RefreshStarted, IInv, Types, RefreshTypes, WalksInv
  <1>2. refresh'.pc = "iter" /\ made' = made
    BY DEF RefreshStarted, IInv, Types, RefreshTypes
  <1>3. /\ status'[r] = "StartOK"
        /\ \A q \in Runners : q # r => gor'[q] = gor[q] /\ status'[q] = status[q]
    BY <1>1 DEF RefreshStarted, IInv, Types, RunnerTypes
  <1> QED
    BY <1>1, <1>2, <1>3 DEF OnceInv

(* A new runner has no goroutine yet. *)
LEMMA OnceLoadSet ==
    ASSUME IInv, OnceInv, NEW c \in Clients, LoadSet(c)
    PROVE  OnceInv'
  <1> DEFINE r == made + 1
  <1>1. r \in Runners /\ made \in Nat
    BY ConstantFacts DEF LoadSet, IInv, Types, RegistryTypes, Runners
  <1>2. /\ made' = r
        /\ status' = [status EXCEPT ![r] = "Loaded"]
        /\ gor' = gor
        /\ refresh'.pc = refresh.pc /\ refresh'.cur = refresh.cur
    BY DEF LoadSet, IInv, Types, RefreshTypes
  <1>3. ASSUME NEW q \in Runners, gor[q] # "none"
        PROVE  q <= made' /\ status'[q] # "Loaded"
    <2>1. q <= made /\ q \in Nat /\ status[q] # "Loaded"
      BY <1>3, ConstantFacts DEF OnceInv
    <2>2. q # r /\ q <= r
      BY <1>1, <2>1
    <2> QED
      BY <1>1, <1>2, <2>1, <2>2 DEF IInv, Types, RunnerTypes
  <1> QED
    BY <1>2, <1>3 DEF OnceInv

LEMMA OnceStep == IInv /\ OnceInv /\ [Next]_vars => OnceInv'
  <1> SUFFICES ASSUME IInv, OnceInv, [Next]_vars PROVE OnceInv'
    OBVIOUS
  <1>0. refresh.pc = "start" => refresh.cur \in Runners
    BY DEF IInv, Types, RefreshTypes
  <1>1. CASE Refresh
    <2>1. CASE RefreshBegin \/ RefreshEnd \/ RefreshQuit
      <3>1. refresh'.pc # "start" /\ UNCHANGED <<made, status, gor>>
        BY <2>1 DEF RefreshBegin, RefreshEnd, RefreshQuit, runnerVars, IInv, Types, RefreshTypes
      <3> QED
        BY <1>0, <3>1, OnceFrame
    <2>2. CASE RefreshStartError
      <3>1. refresh'.pc # "start" /\ UNCHANGED <<made, gor>>
        BY <2>2 DEF RefreshStartError, IInv, Types, RefreshTypes
      <3>2. \A q \in Runners : status[q] # "Loaded" => status'[q] # "Loaded"
        BY <2>2 DEF RefreshStartError, IInv, Types, RunnerTypes
      <3> QED
        BY <1>0, <3>1, <3>2, OnceFrame
    <2>3. CASE RefreshStopped
      <3>1. refresh'.pc # "start" /\ UNCHANGED <<made, status, gor>>
        BY <2>3 DEF RefreshStopped, IInv, Types, RefreshTypes
      <3> QED
        BY <1>0, <3>1, OnceFrame
    <2> QED
      BY <1>1, <2>1, <2>2, <2>3, OnceRefreshVisit, OnceRefreshStarted DEF Refresh
  <1>2. CASE Stopping
    <2>1. UNCHANGED <<made, status, gor, refresh>>
      BY <1>2 DEF Stopping, StopBegin, StopRunner, StopWaited, StopEnd, runnerVars
    <2> QED
      BY <1>0, <2>1, OnceFrame
  <1>3. ASSUME NEW r \in Runners, Goroutine(r) PROVE OnceInv'
    <2>1. UNCHANGED <<made, refresh>>
      BY <1>3 DEF Goroutine, RunnerCheck, RunnerPut
    <2>2. \A q \in Runners : gor'[q] # "none" <=> gor[q] # "none"
      BY <1>3 DEF Goroutine, RunnerCheck, RunnerPut, IInv, Types, RunnerTypes
    <2>3. \A q \in Runners : status[q] # "Loaded" => status'[q] # "Loaded"
      BY <1>3 DEF Goroutine, RunnerCheck, RunnerPut, IInv, Types, RunnerTypes
    <2> QED
      BY <1>0, <2>1, <2>2, <2>3, OnceFrame
  <1>4. ASSUME NEW c \in Clients, Call(c) PROVE OnceInv'
    <2>1. CASE LoadSet(c)
      BY <2>1, OnceLoadSet
    <2>2. CASE UnloadSet(c)
      <3>1. UNCHANGED <<made, gor, refresh>>
        BY <2>2 DEF UnloadSet
      <3>2. \A q \in Runners : status[q] # "Loaded" => status'[q] # "Loaded"
        BY <2>2 DEF UnloadSet, IInv, Types, RunnerTypes
      <3> QED
        BY <1>0, <3>1, <3>2, OnceFrame
    <2>3. ASSUME NEW n \in Plugins, LoadCheck(c, n) \/ UnloadCheck(c, n) PROVE OnceInv'
      <3>1. UNCHANGED <<made, status, gor, refresh>>
        BY <2>3 DEF LoadCheck, UnloadCheck, runnerVars
      <3> QED
        BY <1>0, <3>1, OnceFrame
    <2> QED
      BY <1>4, <2>1, <2>2, <2>3 DEF Call
  <1>5. CASE UNCHANGED vars
    BY <1>0, <1>5, OnceFrame DEF vars, runnerVars
  <1> QED
    BY <1>1, <1>2, <1>3, <1>4, <1>5 DEF Next

(* Only pluginRefresh's start brings a runner to life, and it has one in    *)
(* hand that never ran and that it has not itself stopped.                  *)
LEMMA OnlyStartLaunches ==
    ASSUME IInv, OnceInv, [Next]_vars, NEW r \in Runners, ~Alive(r), Alive(r)'
    PROVE  gor[r] = "none" /\ (stopped[r] => stopper.pc # "idle")
  <1>1. CASE RefreshStarted
    <2>1. r = refresh.cur /\ refresh.pc = "start"
      BY <1>1 DEF RefreshStarted, Alive, IInv, Types, RunnerTypes
    <2> QED
      BY <2>1 DEF OnceInv, IInv, StoppedInv
  <1>2. CASE \E q \in Runners : Goroutine(q)
    BY <1>2 DEF Goroutine, RunnerCheck, RunnerPut, Alive, IInv, Types, RunnerTypes
  <1>3. CASE gor' = gor
    BY <1>3 DEF Alive
  <1>4. [Next]_vars => RefreshStarted \/ (\E q \in Runners : Goroutine(q)) \/ gor' = gor
    BY DEF Next, Refresh, RefreshBegin, RefreshVisit, RefreshStartError, RefreshStopped,
       RefreshEnd, RefreshQuit, Stopping, StopBegin, StopRunner, StopWaited, StopEnd,
       Call, LoadCheck, LoadSet, UnloadCheck, UnloadSet, vars, runnerVars
  <1> QED
    BY <1>1, <1>2, <1>3, <1>4

(* plugin.Stop is called only by the two who have waited for the goroutine. *)
LEMMA StopWaits ==
    ASSUME IInv, [Next]_vars, NEW r \in Runners, stopped'[r], ~stopped[r]
    PROVE  ~Alive(r)'
  <1>1. CASE RefreshStopped
    BY <1>1 DEF RefreshStopped, Alive, IInv, Types, RunnerTypes
  <1>2. CASE StopWaited
    BY <1>2 DEF StopWaited, Alive, IInv, Types, RunnerTypes
  <1>3. [Next]_vars => RefreshStopped \/ StopWaited \/ stopped' = stopped
    BY DEF Next, Refresh, RefreshBegin, RefreshVisit, RefreshStarted, RefreshStartError,
       RefreshEnd, RefreshQuit, Stopping, StopBegin, StopRunner, StopEnd, Goroutine,
       RunnerCheck, RunnerPut, Call, LoadCheck, LoadSet, UnloadCheck, UnloadSet, vars,
       runnerVars
  <1> QED
    BY <1>1, <1>2, <1>3

(* plugin.Stop never runs beside the runner's goroutine, on refresh and on  *)
(* shutdown (runner.Stop, server/runner.go), no goroutine is launched a     *)
(* second time, and a stopped runner comes to life only when pluginRefresh  *)
(* first starts it while the service is being stopped.                      *)
THEOREM NoPutAfterStopAlways == Spec => NoPutAfterStop
  <1> DEFINE A == \A r \in Runners :
                      /\ stopped'[r] /\ ~stopped[r] => ~Alive(r)'
                      /\ ~Alive(r) /\ Alive(r)' =>
                            gor[r] = "none" /\ (stopped[r] => stopper.pc # "idle")
  <1>1. IInv /\ OnceInv /\ [Next]_vars => A
    BY OnlyStartLaunches, StopWaits
  <1>2. Init => IInv /\ OnceInv
    BY IInvInit, OnceInit
  <1>3. IInv /\ OnceInv /\ [Next]_vars => (IInv /\ OnceInv)'
    BY IInvStep, OnceStep
  <1>4. NoPutAfterStop <=> [][A]_vars
    BY DEF NoPutAfterStop
  <1> HIDE DEF A
  <1> QED
    BY <1>1, <1>2, <1>3, <1>4, PTL DEF Spec

-----------------------------------------------------------------------------
(* No runner is out of reach, when one caller calls at a time.  A walk that *)
(* ends installs its own map over the registry, so what has to hold all the *)
(* way through it is that a live runner is still to be visited or already   *)
(* in the new map; and a Load in flight may write over nothing.             *)

OneCaller == \A c, d \in Clients : c = d

StartedInv == \A r \in Runners : gor[r] # "none" => r <= made
LoadInv == \A c \in Clients : client[c].pc = "load" => reg[client[c].plug] = NoRunner
MapInv ==
    Walking => \A n \in Plugins : refresh.map[n] # NoRunner => refresh.map[n] = reg[n]
InHandInv ==
    refresh.pc \in {"start", "wait"} => refresh.map[plug[refresh.cur]] = refresh.cur
KeptInv ==
    Walking => \A r \in Runners :
                   Alive(r) => plug[r] \in refresh.todo \/ refresh.map[plug[r]] = r

OrphanInv == StartedInv /\ LoadInv /\ MapInv /\ InHandInv /\ KeptInv /\ NoOrphan

LEMMA OrphanInit == Init => OrphanInv
  BY DEF Init, OrphanInv, StartedInv, LoadInv, MapInv, InHandInv, KeptInv, NoOrphan,
     Alive, Walking

(* A step that brings no runner to life, begins no Load and leaves the     *)
(* registry and the walk alone.                                            *)
LEMMA OrphanFrame ==
    ASSUME OrphanInv, UNCHANGED <<reg, made, plug, refresh>>,
           \A r \in Runners : Alive(r)' => Alive(r),
           \A r \in Runners : gor'[r] # "none" => gor[r] # "none",
           \A c \in Clients : client'[c].pc = "load" => client'[c] = client[c]
    PROVE  OrphanInv'
  <1>1. StartedInv' /\ LoadInv'
    BY DEF OrphanInv, StartedInv, LoadInv
  <1>2. MapInv' /\ InHandInv'
    BY DEF OrphanInv, MapInv, InHandInv, Walking
  <1>3. KeptInv' /\ NoOrphan'
    BY DEF OrphanInv, KeptInv, NoOrphan, Walking
  <1> QED
    BY <1>1, <1>2, <1>3 DEF OrphanInv

LEMMA OrphanLoadCheck ==
    ASSUME IInv, OrphanInv, NEW c \in Clients, NEW n \in Plugins, LoadCheck(c, n)
    PROVE  OrphanInv'
  <1> USE DEF LoadCheck, runnerVars
  <1>1. StartedInv' /\ MapInv' /\ InHandInv'
    BY DEF OrphanInv, StartedInv, MapInv, InHandInv, Walking
  <1>2. LoadInv'
    BY DEF IInv, Types, ClientTypes, OrphanInv, LoadInv
  <1>3. KeptInv' /\ NoOrphan'
    BY DEF OrphanInv, KeptInv, NoOrphan, Walking, Alive
  <1> QED
    BY <1>1, <1>2, <1>3 DEF OrphanInv

(* The new runner is not alive yet, and nothing was registered in its place. *)
LEMMA OrphanLoadSet ==
    ASSUME OneCaller, IInv, OrphanInv, NEW c \in Clients, LoadSet(c)
    PROVE  OrphanInv'
  <1> DEFINE n == client[c].plug
             r == made + 1
  <1>0. n \in Plugins /\ r \in Runners /\ made \in Nat
    BY ConstantFacts DEF LoadSet, IInv, Types, ClientTypes, RegistryTypes, Runners
  <1>1. /\ made' = r
        /\ plug' = [plug EXCEPT ![r] = n]
        /\ reg' = [reg EXCEPT ![n] = r]
        /\ refresh' = refresh \/ refresh' = [refresh EXCEPT !.todo = @ \cup {n}]
        /\ client' = [client EXCEPT ![c].pc = "idle"]
        /\ gor' = gor
    BY DEF LoadSet
  <1>2. /\ refresh'.pc = refresh.pc /\ refresh'.cur = refresh.cur
        /\ refresh'.map = refresh.map /\ refresh.todo \subseteq refresh'.todo
    BY <1>1 DEF IInv, Types, RefreshTypes
  <1>3. reg[n] = NoRunner
    BY DEF LoadSet, OrphanInv, LoadInv
  <1>4. \A q \in Runners : q <= made => q # r /\ plug'[q] = plug[q] /\ q <= made'
    <2> SUFFICES ASSUME NEW q \in Runners, q <= made
                 PROVE  q # r /\ plug'[q] = plug[q] /\ q <= r
      BY <1>1
    <2>1. q \in Nat
      BY ConstantFacts
    <2>2. q # r /\ q <= r
      BY <1>0, <2>1
    <2> QED
      BY <1>0, <1>1, <2>2 DEF IInv, Types, RegistryTypes
  <1>5. \A q \in Runners : Alive(q) => q <= made /\ plug'[q] = plug[q]
    BY <1>4 DEF Alive, OrphanInv, StartedInv
  <1> HIDE DEF n, r
  <1>6. StartedInv'
    BY <1>1, <1>4 DEF OrphanInv, StartedInv
  <1>7. LoadInv'
    BY <1>0, <1>1 DEF OneCaller, LoadInv, IInv, Types, ClientTypes
  <1>8. MapInv'
    <2> SUFFICES ASSUME Walking, NEW m \in Plugins, refresh.map[m] # NoRunner
                 PROVE  refresh.map[m] = reg'[m]
      BY <1>2 DEF MapInv, Walking
    <2>1. refresh.map[m] = reg[m] /\ m # n
      BY <1>3 DEF OrphanInv, MapInv
    <2> QED
      BY <1>0, <1>1, <2>1 DEF IInv, Types, RegistryTypes
  <1>9. InHandInv'
    <2>1. refresh.pc \in {"start", "wait"} => plug'[refresh.cur] = plug[refresh.cur]
      BY <1>4 DEF IInv, Types, RefreshTypes, WalksInv
    <2> QED
      BY <1>2, <2>1 DEF OrphanInv, InHandInv
  <1>10. KeptInv'
    BY <1>1, <1>2, <1>5 DEF OrphanInv, KeptInv, Alive, Walking
  <1>11. NoOrphan'
    <2> SUFFICES ASSUME NEW q \in Runners, Alive(q)
                 PROVE  reg'[plug'[q]] = q
      BY <1>1 DEF NoOrphan, Alive
    <2>1. plug'[q] = plug[q] /\ reg[plug[q]] = q /\ plug[q] \in Plugins /\ q # NoRunner
      BY <1>5, ConstantFacts DEF OrphanInv, NoOrphan, IInv, Types, RegistryTypes
    <2>2. plug[q] # n
      BY <2>1, <1>3
    <2> QED
      BY <1>0, <1>1, <2>1, <2>2 DEF IInv, Types, RegistryTypes
  <1> QED
    BY <1>6, <1>7, <1>8, <1>9, <1>10, <1>11 DEF OrphanInv

(* A walk begins with every registered plugin to visit. *)
LEMMA OrphanRefreshBegin ==
    ASSUME IInv, OrphanInv, RefreshBegin
    PROVE  OrphanInv'
  <1> USE DEF RefreshBegin, runnerVars
  <1>1. StartedInv' /\ LoadInv' /\ NoOrphan'
    BY DEF OrphanInv, StartedInv, LoadInv, NoOrphan, Alive
  <1>2. MapInv' /\ InHandInv'
    BY DEF MapInv, InHandInv, Empty
  <1>3. \A r \in Runners : Alive(r) => plug[r] \in Registered
    BY ConstantFacts DEF OrphanInv, NoOrphan, Registered, IInv, Types, RegistryTypes
  <1>4. KeptInv'
    BY <1>3 DEF KeptInv, Alive
  <1> QED
    BY <1>1, <1>2, <1>4 DEF OrphanInv

LEMMA OrphanRefreshVisit ==
    ASSUME IInv, OrphanInv, NEW n \in Plugins, RefreshVisit(n)
    PROVE  OrphanInv'
  <1> DEFINE r == reg[n]
  <1>1. /\ refresh.pc = "iter" /\ n \in refresh.todo
        /\ UNCHANGED <<reg, made, plug, gor, client>>
    BY DEF RefreshVisit
  <1>2. /\ refresh'.todo = refresh.todo \ {n}
        /\ refresh'.cur = r
        /\ refresh'.map = [refresh.map EXCEPT ![n] = r]
    BY DEF RefreshVisit, IInv, Types, RefreshTypes
  <1>3. plug[r] = n /\ r \in Runners
    BY <1>1 DEF IInv, Types, RegistryTypes, WalksInv, Walking, Registered, RunnerOrNil
  <1>4. StartedInv' /\ LoadInv' /\ NoOrphan'
    BY <1>1 DEF OrphanInv, StartedInv, LoadInv, NoOrphan, Alive
  <1>5. MapInv'
    BY <1>1, <1>2 DEF OrphanInv, MapInv, Walking, IInv, Types, RefreshTypes
  <1>6. InHandInv'
    BY <1>1, <1>2, <1>3 DEF InHandInv, IInv, Types, RefreshTypes
  <1>7. KeptInv'
    <2> SUFFICES ASSUME NEW q \in Runners, Alive(q)
                 PROVE  plug[q] \in refresh'.todo \/ refresh'.map[plug[q]] = q
      BY <1>1 DEF KeptInv, Alive
    <2>1. reg[plug[q]] = q
      BY DEF OrphanInv, NoOrphan
    <2>2. plug[q] \in refresh.todo \/ refresh.map[plug[q]] = q
      BY <1>1 DEF OrphanInv, KeptInv, Walking
    <2> QED
      BY <1>2, <2>1, <2>2 DEF IInv, Types, RefreshTypes, RegistryTypes
  <1> QED
    BY <1>4, <1>5, <1>6, <1>7 DEF OrphanInv

(* The runner that comes to life is the one in hand: the new map has it, so *)
(* the registry does.                                                       *)
LEMMA OrphanRefreshStarted ==
    ASSUME IInv, OrphanInv, RefreshStarted
    PROVE  OrphanInv'
  <1> DEFINE r == refresh.cur
  <1>1. /\ refresh.pc = "start"
        /\ UNCHANGED <<reg, made, plug, client>>
    BY DEF RefreshStarted
  <1>2. refresh'.pc = "iter" /\ refresh'.todo = refresh.todo /\ refresh'.map = refresh.map
    BY DEF RefreshStarted, IInv, Types, RefreshTypes
  <1>3. r \in Runners /\ r <= made /\ r # NoRunner /\ plug[r] \in Plugins
    BY <1>1, ConstantFacts DEF IInv, Types, RefreshTypes, RegistryTypes, WalksInv
  <1>4. refresh.map[plug[r]] = r /\ reg[plug[r]] = r
    BY <1>1, <1>3 DEF OrphanInv, InHandInv, MapInv, Walking
  <1>5. \A q \in Runners : q # r => gor'[q] = gor[q]
    BY DEF RefreshStarted, IInv, Types, RunnerTypes
  <1>6. StartedInv'
    BY <1>1, <1>3, <1>5 DEF OrphanInv, StartedInv
  <1>7. LoadInv' /\ MapInv' /\ InHandInv'
    BY <1>1, <1>2 DEF OrphanInv, LoadInv, MapInv, InHandInv, Walking
  <1>8. KeptInv'
    BY <1>1, <1>2, <1>4, <1>5 DEF OrphanInv, KeptInv, Walking, Alive
  <1>9. NoOrphan'
    BY <1>1, <1>4, <1>5 DEF OrphanInv, NoOrphan, Alive
  <1> QED
    BY <1>6, <1>7, <1>8, <1>9 DEF OrphanInv

LEMMA OrphanRefreshStartError ==
    ASSUME IInv, OrphanInv, RefreshStartError
    PROVE  OrphanInv'
  <1> USE DEF RefreshStartError
  <1>1. refresh'.pc = "iter" /\ refresh'.todo = refresh.todo /\ refresh'.map = refresh.map
    BY DEF IInv, Types, RefreshTypes
  <1>2. StartedInv' /\ LoadInv' /\ MapInv' /\ InHandInv'
    BY <1>1 DEF OrphanInv, StartedInv, LoadInv, MapInv, InHandInv, Walking
  <1>3. KeptInv' /\ NoOrphan'
    BY <1>1 DEF OrphanInv, KeptInv, NoOrphan, Walking, Alive
  <1> QED
    BY <1>2, <1>3 DEF OrphanInv

(* What is dropped from the new map is the runner in hand, which is not     *)
(* alive any more.                                                          *)
LEMMA OrphanRefreshStopped ==
    ASSUME IInv, OrphanInv, RefreshStopped
    PROVE  OrphanInv'
  <1> DEFINE r == refresh.cur
             dropped == [refresh.map EXCEPT ![plug[r]] = NoRunner]
  <1>1. /\ refresh.pc = "wait" /\ ~Alive(r)
        /\ UNCHANGED <<reg, made, plug, gor, client>>
    BY DEF RefreshStopped
  <1>2. PICK m \in {refresh.map, dropped} :
           refresh' = [refresh EXCEPT !.pc = "iter", !.cur = NoRunner, !.map = m]
    BY DEF RefreshStopped
  <1>3. refresh'.pc = "iter" /\ refresh'.todo = refresh.todo /\ refresh'.map = m
    BY <1>2 DEF IInv, Types, RefreshTypes
  <1>4. refresh.map[plug[r]] = r /\ r \in Runners /\ plug[r] \in Plugins
    BY <1>1 DEF OrphanInv, InHandInv, IInv, Types, RefreshTypes, RegistryTypes
  <1>5. \A n \in Plugins : m[n] # NoRunner => m[n] = refresh.map[n]
    BY <1>2, <1>4 DEF IInv, Types, RefreshTypes
  <1>6. \A n \in Plugins : n # plug[r] => m[n] = refresh.map[n]
    BY <1>2 DEF IInv, Types, RefreshTypes
  <1>7. StartedInv' /\ LoadInv' /\ InHandInv' /\ NoOrphan'
    BY <1>1, <1>3 DEF OrphanInv, StartedInv, LoadInv, InHandInv, NoOrphan, Alive
  <1>8. MapInv'
    BY <1>1, <1>3, <1>5 DEF OrphanInv, MapInv, Walking
  <1>9. KeptInv'
    <2> SUFFICES ASSUME NEW q \in Runners, Alive(q)
                 PROVE  plug[q] \in refresh.todo \/ m[plug[q]] = q
      BY <1>1, <1>3 DEF KeptInv, Alive
    <2>1. plug[q] \in refresh.todo \/ refresh.map[plug[q]] = q
      BY <1>1 DEF OrphanInv, KeptInv, Walking
    <2>2. plug[q] \in Plugins
      BY DEF IInv, Types, RegistryTypes
    <2>3. refresh.map[plug[q]] = q => plug[q] # plug[r]
      BY <1>1, <1>4
    <2> QED
      BY <1>6, <2>1, <2>2, <2>3
  <1> QED
    BY <1>7, <1>8, <1>9 DEF OrphanInv

(* setRunners: nothing is left to visit, so every live runner is in the map *)
(* that becomes the registry.                                               *)
LEMMA OrphanRefreshEnd ==
    ASSUME IInv, OrphanInv, RefreshEnd
    PROVE  OrphanInv'
  <1> USE DEF RefreshEnd, runnerVars
  <1>1. StartedInv' /\ MapInv' /\ InHandInv' /\ KeptInv'
    BY DEF OrphanInv, StartedInv, MapInv, InHandInv, KeptInv, Walking
  <1>2. LoadInv'
    BY DEF OrphanInv, LoadInv, MapInv, Walking, IInv, Types, ClientTypes
  <1>3. NoOrphan'
    BY DEF OrphanInv, KeptInv, NoOrphan, Walking, Alive
  <1> QED
    BY <1>1, <1>2, <1>3 DEF OrphanInv

LEMMA OrphanRefreshQuit ==
    ASSUME IInv, OrphanInv, RefreshQuit
    PROVE  OrphanInv'
  <1> USE DEF RefreshQuit, runnerVars
  <1>1. refresh'.pc = "quit"
    BY DEF IInv, Types, RefreshTypes
  <1>2. StartedInv' /\ LoadInv' /\ NoOrphan'
    BY DEF OrphanInv, StartedInv, LoadInv, NoOrphan, Alive
  <1>3. MapInv' /\ InHandInv' /\ KeptInv'
    BY <1>1 DEF MapInv, InHandInv, KeptInv, Walking
  <1> QED
    BY <1>2, <1>3 DEF OrphanInv

LEMMA OrphanStep == OneCaller /\ IInv /\ OrphanInv /\ [Next]_vars => OrphanInv'
  <1> SUFFICES ASSUME OneCaller, IInv, OrphanInv, [Next]_vars PROVE OrphanInv'
    OBVIOUS
  <1>1. CASE Refresh
    BY <1>1, OrphanRefreshBegin, OrphanRefreshVisit, OrphanRefreshStarted,
       OrphanRefreshStartError, OrphanRefreshStopped, OrphanRefreshEnd, OrphanRefreshQuit
    DEF Refresh
  <1>2. CASE Stopping
    <2>1. UNCHANGED <<reg, made, plug, refresh, gor, client>>
      BY <1>2 DEF Stopping, StopBegin, StopRunner, StopWaited, StopEnd, runnerVars
    <2> QED
      BY <2>1, OrphanFrame DEF Alive
  <1>3. ASSUME NEW r \in Runners, Goroutine(r) PROVE OrphanInv'
    <2>1. UNCHANGED <<reg, made, plug, refresh, client>>
      BY <1>3 DEF Goroutine, RunnerCheck, RunnerPut
    <2>2. Alive(r) /\ \A q \in Runners : q # r => gor'[q] = gor[q]
      BY <1>3 DEF Goroutine, RunnerCheck, RunnerPut, Alive, IInv, Types, RunnerTypes
    <2> QED
      BY <2>1, <2>2, OrphanFrame DEF Alive
  <1>4. ASSUME NEW c \in Clients, Call(c) PROVE OrphanInv'
    <2>1. ASSUME NEW n \in Plugins, LoadCheck(c, n) PROVE OrphanInv'
      BY <2>1, OrphanLoadCheck
    <2>2. CASE LoadSet(c)
      BY <2>2, OrphanLoadSet
    <2>3. ASSUME NEW n \in Plugins, UnloadCheck(c, n) PROVE OrphanInv'
      <3>1. \A d \in Clients : client'[d].pc = "load" => client'[d] = client[d]
        BY <2>3 DEF UnloadCheck, IInv, Types, ClientTypes
      <3> QED
        BY <2>3, <3>1, OrphanFrame DEF UnloadCheck, runnerVars, Alive
    <2>4. CASE UnloadSet(c)
      <3>1. \A d \in Clients : client'[d].pc = "load" => client'[d] = client[d]
        BY <2>4 DEF UnloadSet, IInv, Types, ClientTypes
      <3> QED
        BY <2>4, <3>1, OrphanFrame DEF UnloadSet, Alive
    <2> QED
      BY <1>4, <2>1, <2>2, <2>3, <2>4 DEF Call
  <1>5. CASE UNCHANGED vars
    BY <1>5, OrphanFrame DEF vars, runnerVars, Alive
  <1> QED
    BY <1>1, <1>2, <1>3, <1>4, <1>5 DEF Next

(* Every live runner is the registered one of its plugin, so UnLoad and     *)
(* Service.Stop reach it and no plugin is indexed twice, whatever walk,     *)
(* stop and put run beside the one caller (server/runner.go, setRunners).   *)
THEOREM NoOrphanAlways ==
    ASSUME OneCaller
    PROVE  Spec => []NoOrphan
  <1>1. IInv /\ OrphanInv /\ [Next]_vars => (IInv /\ OrphanInv)'
    BY IInvStep, OrphanStep
  <1>2. Init => IInv /\ OrphanInv
    BY IInvInit, OrphanInit
  <1>3. IInv /\ OrphanInv => NoOrphan
    BY DEF OrphanInv
  <1> QED
    BY <1>1, <1>2, <1>3, PTL DEF Spec
=============================================================================
