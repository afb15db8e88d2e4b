-------------------------------- MODULE IrLed --------------------------------
(***************************************************************************)
(* app/src/ir_led.c: a frame to the air conditioner, sent from the         *)
(* downlink callback (main.c:352) by a user of the shared clock who looks  *)
(* at none of its answers.  While interrupts are locked no other user      *)
(* runs.  The length of a pulse is left out: a frame is its spaces, 0 for  *)
(* a short one and 1 for a long one.                                       *)
(***************************************************************************)
EXTENDS Hfclk, Integers, Sequences

CONSTANT Ir  \* the user that sends

ASSUME IrAssumption == Ir \in Users

VARIABLES
  ir,       \* where ir_led_send is
  irq,      \* are interrupts locked
  latency,  \* of the chip: "low power" or "constant"
  data,     \* the command's bytes
  q, t,     \* the loops' counters, uint8_t
  check,    \* uint8_t
  spaces    \* the frame so far

frame == <<data, q, t, check, spaces>>
sending == <<ir, irq, latency, frame>>
irVars == <<vars, sending>>

\* Bytes that every command begins with, and the bytes in which they differ.
Address == <<74, 117, 195, 100, 155>>
command_ac_high_18c_move == Address \o <<255, 0, 246, 9, 103, 152>>
command_ac_medium_18c_move == Address \o <<255, 0, 241, 14, 103, 152>>
command_cooldown_2h == Address \o <<251, 4, 241, 14, 103, 152>>
command_off == Address \o <<255, 0, 241, 14, 119, 136>>

Commands == {command_ac_high_18c_move, command_ac_medium_18c_move, command_cooldown_2h, command_off}

command_size == Len(command_off)

\* Type invariant, with that of the clock.
IrTypeOK ==
  /\ TypeOK
  /\ ir \in {"idle", "called", "sending", "sent"}
  /\ irq \in BOOLEAN /\ latency \in {"low power", "constant"}
  /\ data \in Commands
  /\ q \in 0..command_size /\ t \in 0..8 /\ check \in 0..255
  /\ spaces \in Seq({0, 1})

IrInit ==
  /\ Init
  /\ ir = "idle" /\ irq = FALSE /\ latency = "low power"
  /\ data = command_off /\ q = 0 /\ t = 0 /\ check = 0 /\ spaces = <<>>  \* no call

\* The command is looked up (an unknown one changes nothing), the latency is switched.
Call ==
  /\ ir = "idle" /\ ir' = "called"
  /\ data' \in Commands /\ latency' = "constant"
  /\ UNCHANGED <<vars, irq, q, t, check, spaces>>

MutantLock ==
  /\ ir = "called"
  /\ ir' = "sending" /\ irq' = TRUE
  /\ q' = 0 /\ t' = 0 /\ check' = data[1] /\ spaces' = <<>>
  /\ UNCHANGED <<vars, latency, data>>

\* whatever hfclk_enable returned; the header is eight signals
Lock ==
  /\ ir = "called" /\ pc[Ir] = "using"
  /\ ir' = "sending" /\ irq' = TRUE
  /\ q' = 0 /\ t' = 0 /\ check' = data[1] /\ spaces' = <<>>
  /\ UNCHANGED <<vars, latency, data>>

MutantShift(byte) == (byte * 2 + byte \div 128) % 128

\* check << 1
Shift(byte) == (byte * 2) % 256

SendBit ==
  /\ ir = "sending" /\ q < command_size /\ t < 8
  /\ spaces' = Append(spaces, IF check \div 128 = 0 THEN 0 ELSE 1)
  /\ check' = Shift(check)
  /\ t' = t + 1
  /\ UNCHANGED <<vars, ir, irq, latency, data, q>>

NextByte ==
  /\ ir = "sending" /\ q < command_size /\ t = 8
  /\ q' = q + 1 /\ t' = 0
  /\ check' = IF q' < command_size THEN data[q' + 1] ELSE check
  /\ UNCHANGED <<vars, ir, irq, latency, data, spaces>>

\* the last signal
Unlock ==
  /\ ir = "sending" /\ q = command_size
  /\ ir' = "sent" /\ irq' = FALSE
  /\ UNCHANGED <<vars, latency, frame>>

LowPower ==
  /\ ir = "sent" /\ pc[Ir] = "idle"
  /\ ir' = "idle" /\ latency' = "low power"
  /\ data' = command_off /\ q' = 0 /\ t' = 0 /\ check' = 0 /\ spaces' = <<>>
  /\ UNCHANGED <<vars, irq>>

\* the calls of hfclk_enable and hfclk_disable
IrClock ==
  /\ \/ ir = "called" /\ hfclk_enable(Ir)
     \/ ir = "sent" /\ hfclk_disable(Ir)
  /\ UNCHANGED sending

ir_led_send == Call \/ IrClock \/ Lock \/ SendBit \/ NextByte \/ Unlock \/ LowPower

Others ==
  /\ ~irq
  /\ \E u \in Users \ {Ir} : hfclk_enable(u) \/ hfclk_disable(u)
  /\ UNCHANGED sending

IrNext == ir_led_send \/ Others

IrSpec == IrInit /\ [][IrNext]_irVars
----------------------------------------------------------------------------
\* A frame is timed with the high-frequency clock running from its first signal to its
\* last, whoever else uses the clock, unless the clock ever refused to start.
FrameHasClock == ir = "sending" /\ "on" \notin failed => clock

\* The bits of a command, each byte's highest first.
Weight == <<128, 64, 32, 16, 8, 4, 2, 1>>

BitOf(d, i) == (d[(i - 1) \div 8 + 1] \div Weight[((i - 1) % 8) + 1]) % 2

\* A frame that was sent holds the bits of its command, in their order.
FrameIsCommand ==
  ir = "sent" => spaces = [i \in 1..(8 * command_size) |-> BitOf(data, i)]
=============================================================================
