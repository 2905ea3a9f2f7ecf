-------------------------------- MODULE Jiaa --------------------------------
(***************************************************************************)
(* jiaa (jiaa-src/main.c, inputsystem.c): the program on top of the C      *)
(* interface.  Its main thread opens the overlay, makes a connector, a     *)
(* kernel and a process, looks its addresses up, loops and shuts down; its *)
(* input thread copies key events into pressedKeys.  Every handle lives in *)
(* a C variable, which keeps its value when the handle is gone.            *)
(***************************************************************************)
EXTENDS FfiHandles

CONSTANTS
  Keys,      \* key codes the main loop looks at
  Beyond,    \* a code that is not below 500, the length of pressedKeys
  Hover,     \* KEY_LEFTCTRL; the other keys change the player
  ConnectorName \* of the connector, "qemu_procfs"

ASSUME JiaaAssumption == Hover \in Keys /\ Beyond \notin Keys

VARIABLES
  pc,          \* main: where it is
  var,         \* main: its C variables inv, conn, kernel, egggame, module, ...
  player,      \* main: writePlayer and shouldHover
  running,     \* shared
  thread,      \* input thread: "none", "open", "loop", "read", "apply", "exited"
  input,       \* input thread: the last event in its buffer
  pressedKeys, \* shared: the codes set in it
  misused      \* a call got a reference that was not valid

mainVars == <<pc, var, player>>
threadVars == <<thread, input, pressedKeys>>
jiaaVars == <<mainVars, running, threadVars, misused, handleVars>>

Events == [type : {"key", "other"}, code : Keys \cup {Beyond}, down : BOOLEAN]

JiaaInit ==
  /\ HandleInit
  /\ pc = "start"
  /\ var = [v \in {"inv", "conn", "kernel", "egggame", "module", "osModuleInfo", "mem"} |-> 0]
  /\ player = [write |-> FALSE, hover |-> FALSE]
  /\ running = TRUE
  /\ thread = "none" /\ pressedKeys = {} /\ misused = FALSE
  /\ input = [type |-> "other", code |-> Beyond, down |-> FALSE]

----------------------------------------------------------------------------
(* main *)

Goto(label) == pc' = label /\ UNCHANGED <<var, player>>

Exit == Goto("exited")

(* The result of a call goes into a variable, 0 for nothing. *)
Assign(v, label, otherwise) ==
  /\ var' = [var EXCEPT ![v] = IF ret' # "ptr" THEN 0
                               ELSE CHOOSE i \in Slots : heap'[i] # heap[i]]
  /\ pc' = IF ret' = "null" THEN otherwise ELSE label
  /\ UNCHANGED player

(* main passes what its variable holds, valid or not. *)
Pass(v, kind, action) ==
  /\ misused' = (misused \/ ~Is(var[v], kind))
  /\ IF Is(var[v], kind) THEN action ELSE Call("void") /\ UNCHANGED <<heap, refs, lost>>

CreateThread ==
  /\ pc = "start"
  /\ \/ thread' = "open" /\ Goto("overlay")
     \/ UNCHANGED thread /\ Exit
  /\ UNCHANGED <<running, input, pressedKeys, misused, handleVars>>

OpenOverlay ==
  /\ pc = "overlay"
  /\ Goto("inventory") \/ Exit
  /\ UNCHANGED <<running, threadVars, misused, handleVars>>

MakeInventory ==
  /\ pc = "inventory"
  /\ InventoryTryNew
  /\ Assign("inv", "connector", "connector")
  /\ UNCHANGED <<running, threadVars, misused>>

MakeConnector ==
  /\ pc = "connector"
  /\ Pass("inv", "inventory", InventoryCreateConnector(var["inv"], ConnectorName))
  /\ Assign("conn", "kernel", "free_inv")
  /\ UNCHANGED <<running, threadVars>>

MakeKernel ==
  /\ pc = "kernel"
  /\ Pass("conn", "connector", BuildKernel(var["conn"]))
  /\ Assign("kernel", "process", "free_conn")
  /\ UNCHANGED <<running, threadVars>>

FindProcess ==
  /\ pc = "process"
  /\ Pass("kernel", "kernel", KernelIntoProcess(var["kernel"]))
  /\ Assign("egggame", "module", "free_kernel")
  /\ UNCHANGED <<running, threadVars>>

FindModule ==
  /\ pc = "module"
  /\ Pass("egggame", "process", ProcessModuleInfo(var["egggame"]))
  /\ Assign("module", "trait", "free_process")
  /\ UNCHANGED <<running, threadVars>>

BorrowModule ==
  /\ pc = "trait"
  /\ Pass("module", "module", ModuleInfoTrait(var["module"]))
  /\ Assign("osModuleInfo", "mem", "mem")
  /\ UNCHANGED <<running, threadVars>>

BorrowMemory ==
  /\ pc = "mem"
  /\ Pass("egggame", "process", ProcessVirtMem(var["egggame"]))
  /\ Assign("mem", "scan", "scan")
  /\ UNCHANGED <<running, threadVars>>

(* The addresses are found by their signatures, or main gives up. *)
ScanSignatures ==
  /\ pc = "scan"
  /\ Goto("loop") \/ Goto("end")
  /\ UNCHANGED <<running, threadVars, misused, handleVars>>

(* The error exits free what main believes it still owns. *)
FreeAndGo(v, kind, free, label) ==
  /\ Pass(v, kind, free)
  /\ Goto(label)
  /\ UNCHANGED <<running, threadVars>>

FreeProcess == pc = "free_process" /\ FreeAndGo("egggame", "process", ProcessFree(var["egggame"]), "free_kernel")
FreeKernel == pc = "free_kernel" /\ FreeAndGo("kernel", "kernel", KernelFree(var["kernel"]), "free_inv_conn")
FreeInventoryFirst == pc = "free_inv_conn" /\ FreeAndGo("inv", "inventory", InventoryFree(var["inv"]), "free_conn_last")
FreeConnectorLast == pc = "free_conn_last" /\ FreeAndGo("conn", "connector", ConnectorFree(var["conn"]), "exited")
FreeConnector == pc = "free_conn" /\ FreeAndGo("conn", "connector", ConnectorFree(var["conn"]), "free_inv")
FreeInventory == pc = "free_inv" /\ FreeAndGo("inv", "inventory", InventoryFree(var["inv"]), "exited")

(* One turn of the main loop: a key changes the player, or toggles the     *)
(* hover when the last toggle is long enough ago; once set, writePlayer    *)
(* stays and every turn writes the player back.                            *)
MainLoop ==
  /\ pc = "loop"
  /\ IF ~running THEN Goto("end")
     ELSE /\ \E toggle \in {FALSE, (Hover \in pressedKeys)} :
               LET hover == IF toggle THEN ~player.hover ELSE player.hover
               IN  player' = [hover |-> hover,
                              write |-> player.write \/ hover
                                        \/ pressedKeys \cap (Keys \ {Hover}) # {}]
          /\ UNCHANGED <<pc, var>>
  /\ UNCHANGED <<running, threadVars, misused, handleVars>>

(* end: *)
Shutdown ==
  /\ pc = "end"
  /\ running' = FALSE
  /\ Goto("join")
  /\ UNCHANGED <<threadVars, misused, handleVars>>

JoinThread ==
  /\ pc = "join" /\ thread = "exited"
  /\ Goto("end_module")
  /\ UNCHANGED <<running, threadVars, misused, handleVars>>

EndModule == pc = "end_module" /\ FreeAndGo("osModuleInfo", "osmodule", OsProcessModuleFree(var["osModuleInfo"]), "end_kernel")
EndKernel == pc = "end_kernel" /\ FreeAndGo("kernel", "kernel", KernelFree(var["kernel"]), "free_inv")

----------------------------------------------------------------------------
(* RunInputSystem *)

(* The buffer for events is on the stack and not initialised. *)
OpenInput ==
  /\ thread = "open"
  /\ thread' \in {"loop", "exited"}
  /\ input' \in Events
  /\ UNCHANGED <<mainVars, running, pressedKeys, misused, handleVars>>

\* Mutant of TestRunning: the flag is read once, before the loop
TestRunningHoisted ==
  /\ thread = "loop"
  /\ thread' = "read"
  /\ UNCHANGED <<mainVars, running, input, pressedKeys, misused, handleVars>>

TestRunning ==
  /\ thread = "loop"
  /\ thread' = IF running THEN "read" ELSE "exited"
  /\ UNCHANGED <<mainVars, running, input, pressedKeys, misused, handleVars>>

(* read gives an event, or nothing and the loop goes on, or -1 while there  *)
(* is none: then the last event, or what the buffer held, counts again.     *)
ReadInput ==
  /\ thread = "read"
  /\ \/ \E e \in Events : input' = e /\ thread' = "apply"
     \/ UNCHANGED input /\ thread' = "apply"
     \/ UNCHANGED input /\ thread' = "loop"
  /\ UNCHANGED <<mainVars, running, pressedKeys, misused, handleVars>>

ApplyInput ==
  /\ thread = "apply"
  /\ thread' = "loop"
  /\ pressedKeys' = CASE input.type # "key" -> pressedKeys
                      [] input.type = "key" /\ input.down -> pressedKeys \cup {input.code}
                      [] OTHER -> pressedKeys \ {input.code}
  /\ UNCHANGED <<mainVars, running, input, misused, handleVars>>

Main ==
  \/ CreateThread \/ OpenOverlay \/ MakeInventory \/ MakeConnector \/ MakeKernel
  \/ FindProcess \/ FindModule \/ BorrowModule \/ BorrowMemory \/ ScanSignatures
  \/ FreeProcess \/ FreeKernel \/ FreeInventoryFirst \/ FreeConnectorLast
  \/ FreeConnector \/ FreeInventory
  \/ MainLoop \/ Shutdown \/ JoinThread \/ EndModule \/ EndKernel

InputThread == pc # "exited" /\ (OpenInput \/ TestRunning \/ ReadInput \/ ApplyInput)

JiaaNext == Main \/ InputThread

JiaaSpec == JiaaInit /\ [][JiaaNext]_jiaaVars
                     /\ WF_jiaaVars(Main) /\ WF_jiaaVars(InputThread)

----------------------------------------------------------------------------
(* Whatever the keys do, the thread that main waits for at its end sees     *)
(* running and exits, so main ends: its read never waits.                   *)
JoinReturns == (pc = "join") ~> (pc = "exited")

(* main never passes a reference that is no longer valid: kernel_build and  *)
(* kernel_into_process say that the reference they take becomes invalid.    *)
CallsValid == ~misused
=============================================================================
