------------------------------- MODULE Session -------------------------------
(***************************************************************************)
(* The host's side of the emulator: serve of cmd/ataritalos, Decode and    *)
(* Handle of protocol.go, and the Session of session.go, which keeps one   *)
(* machine or none.  A request is answered before the next is read; the    *)
(* only long one is run_instructions, a loop over Machine.Step that ends   *)
(* at the count or at the first error and keeps the machine in both cases. *)
(*                                                                         *)
(* The machine is the processor of module Cpu.  What mouse, key and        *)
(* framebuffer do to the devices is in the modules of those; here any of   *)
(* their answers can come back.                                            *)
(***************************************************************************)
EXTENDS Cpu

CONSTANTS Counts,             \* the counts a host asks for
          MaxRunInstructions  \* maxRunInstructions, 100 million

ASSUME SessionAssumption == MaxRunInstructions \in Nat

VARIABLES
  left,      \* instructions left of the run_instructions being served
  answer,    \* the code of the last response, "ok" for a success
  quit       \* serve has returned

vars == <<cpuVars, left, answer, quit>>

Codes ==
  {"ok", "already_booted", "no_rom", "boot_failed", "not_booted", "invalid_request",
   "bus_fault", "unsupported_input", "not_implemented", "unknown_operation"}

(* The answers of the requests that leave the processor alone. *)
OfBooted ==
  [mouse       |-> {"ok", "invalid_request", "unsupported_input"},
   key         |-> {"ok", "invalid_request", "unsupported_input"},
   framebuffer |-> {"ok", "bus_fault"}]

(* Those no machine is needed for: hello and capabilities, the operations  *)
(* of the contract that are not there yet, and the others.                 *)
Stateless ==
  [hello |-> "ok", capabilities |-> "ok", snapshot |-> "not_implemented",
   other |-> "unknown_operation"]

Idle == ~ quit /\ left = 0

Respond(code) == answer' = code /\ UNCHANGED <<left, quit>>

Init ==
  /\ CpuInit
  /\ left = 0 /\ answer = "ok" /\ quit = FALSE

(* A line that is no request is answered, and the next one read. *)
BadLine == Idle /\ Respond("invalid_request") /\ UNCHANGED cpuVars

(* Mutant of Boot: the machine is kept before it is reset. *)
BootKeepsAnything ==
  /\ Idle
  /\ \/ On /\ Respond("already_booted") /\ UNCHANGED cpuVars
     \/ ~ On /\ \E code \in {"no_rom", "boot_failed"} : Respond(code) /\ UNCHANGED cpuVars
     \/ /\ ~ On
        /\ cpu' = Ended(ResetCpu(NewCpu)) /\ UNCHANGED <<guest, frames, arrivals>>
        /\ Respond(IF cpu'.at = "failed" THEN "boot_failed" ELSE "ok")

(* The ROM may be missing or of no use, and the reset vectors may be.  The *)
(* session keeps the machine only when it has been reset.                  *)
Boot ==
  /\ Idle
  /\ \/ On /\ Respond("already_booted") /\ UNCHANGED cpuVars
     \/ ~ On /\ \E code \in {"no_rom", "boot_failed"} : Respond(code) /\ UNCHANGED cpuVars
     \/ PowerOn /\ Respond(IF On' THEN "ok" ELSE "boot_failed")

Reset == Idle /\ PowerOff /\ Respond("ok")

RunInstructions(count) ==
  /\ Idle /\ UNCHANGED cpuVars
  /\ \/ ~ On /\ Respond("not_booted")
     \/ On /\ count \notin 1 .. MaxRunInstructions /\ Respond("invalid_request")
     \/ /\ On /\ count \in 1 .. MaxRunInstructions
        /\ left' = count /\ UNCHANGED <<answer, quit>>

(* One turn of the loop. *)
RunStep ==
  /\ left > 0
  /\ Step
  /\ left' = IF cpu'.at = "failed" THEN 0 ELSE left - 1
  /\ answer' = CASE cpu'.at = "failed" -> "bus_fault"
                 [] cpu'.at # "failed" /\ left = 1 -> "ok"
                 [] OTHER -> answer
  /\ UNCHANGED quit

AskMachine ==
  /\ Idle /\ UNCHANGED cpuVars
  /\ \E op \in DOMAIN OfBooted : \E code \in IF On THEN OfBooted[op] ELSE {"not_booted"} :
       Respond(code)

AskStateless ==
  /\ Idle /\ UNCHANGED cpuVars
  /\ \E op \in DOMAIN Stateless : Respond(Stateless[op])

Quit == Idle /\ quit' = TRUE /\ answer' = "ok" /\ UNCHANGED <<cpuVars, left>>

Next ==
  \/ BadLine \/ Boot \/ Reset \/ AskMachine \/ AskStateless \/ Quit
  \/ \E count \in Counts : RunInstructions(count)
  \/ RunStep

(* The loop of a run goes on by itself; nothing makes the host ask.  Only   *)
(* RunStep takes an instruction off a run.                                 *)
TurnOfTheLoop == left > 0 /\ left' \in 0 .. (left - 1)

Spec == Init /\ [][Next]_vars /\ WF_left(TurnOfTheLoop)

-----------------------------------------------------------------------------
(* Properties. *)

(* The processor is well typed, a run is under way only on a machine, and  *)
(* only while the session serves.                                          *)
TypeOK ==
  /\ CpuTypeOK
  /\ left \in 0 .. MaxRunInstructions
  /\ left > 0 => On /\ ~ quit
  /\ answer \in Codes /\ quit \in BOOLEAN

(* What the host was told last is true of the machine: "boot_failed" and   *)
(* "not_booted" that there is none, "already_booted" and "bus_fault" that  *)
(* there still is one.                                                     *)
AnswersTellTheMachine ==
  Idle => /\ answer \in {"boot_failed", "no_rom", "not_booted"} => ~ On
          /\ answer \in {"already_booted", "bus_fault"} => On

(* The registers and the memory a guest ends with. *)
HasFinished ==
  LET g == Guests[guest]
  IN /\ On /\ cpu.prefetch[1] = g.end
     /\ \A r \in DOMAIN g.result : cpu.d[r] = g.result[r]
     /\ \A a \in DOMAIN g.memory : cpu.ram[a] = g.memory[a]

(* However the host slices its runs and wherever interrupts fall, a guest  *)
(* that is run again and again comes to its end with the result it has     *)
(* when it runs alone.                                                     *)
GuestsFinish ==
  (Guests[guest].end # 0 /\ <>[]On /\ []<>(left > 0)) => <>HasFinished

=============================================================================
