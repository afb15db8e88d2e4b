SPECIFICATION IrSpec
CONSTANTS
  main = main
  downlink = downlink
  ir_led = ir_led
  smp = smp
  Users = {main, downlink, ir_led, smp}
  NoUser = NoUser
  Ir = ir_led
INVARIANTS ClockMatchesCount FrameHasClock FrameIsCommand
PROPERTY ContractSpec
