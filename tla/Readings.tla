------------------------------ MODULE Readings ------------------------------
(***************************************************************************)
(* The readings of a round of the main loop (main.c:187-245) with sensor.c *)
(* as external_sensor_power.conf builds it, adc.c and the converter's      *)
(* driver.  The sensor is powered by a regulator that counts its users     *)
(* (external) and is on after a reset.                                     *)
(***************************************************************************)
EXTENDS AdcNrfx, Integers

CONSTANTS
  Values,       \* what the converter may read, 0 to 1023
  Offsets,      \* values of app/power_offset; 0 stands for none
  MaxFailures   \* bound: readings that end between enable and disable

ASSUME ReadingsAssumption ==
  /\ Values \subseteq 0..1023 /\ Offsets \subseteq Int /\ MaxFailures \in Nat

VARIABLES
  round,      \* where main is
  refcount,   \* of the regulator (external)
  power,      \* is the sensor powered (external)
  fresh,      \* which of the readings were measured in this round
  voltage,    \* uint16_t
  report,     \* the type of the last message
  failures    \* readings that ended between enable and disable, for the bound

main == <<round, refcount, power, fresh, voltage, report, failures>>
vars == <<adc, main>>

UInt16 == 0..65535

\* Type invariant.
TypeOK ==
  /\ AdcTypeOK
  /\ round \in {"setup", "stopped", "rest", "fetch", "temperature", "humidity", "disable",
                "adc", "converting", "reported"}
  /\ refcount \in Nat /\ power \in BOOLEAN
  /\ fresh \subseteq {"temperature", "humidity", "voltage"}
  /\ voltage \in UInt16
  /\ report \in {"none", "readings", "error readings", "error adc"}
  /\ failures \in 0..MaxFailures

Init ==
  /\ AdcInit
  /\ round = "setup" /\ refcount = 1 /\ power = TRUE
  /\ fresh = {} /\ voltage = 0 /\ report = "none" /\ failures = 0

\* sensor_setup, whose error ends main; adc_setup, whose error nobody looks at
Setup ==
  /\ round = "setup"
  /\ \/ round' = "rest" /\ refcount' = 0 /\ power' = FALSE
     \/ round' = "stopped" /\ UNCHANGED <<refcount, power>>
  /\ \E s \in Setups : adc_nrfx_channel_setup(s)
  /\ UNCHANGED <<fresh, voltage, report, failures>>

\* LORA_UPLINK_TYPE_ERROR_READINGS
ErrorReadings == round' = "reported" /\ report' = "error readings"

\* sensor_fetch_readings: regulator_enable
Enable ==
  /\ round = "rest" /\ fresh' = {}
  /\ \/ /\ round' = "fetch" /\ refcount' = refcount + 1 /\ power' = TRUE
        /\ UNCHANGED report
     \/ /\ refcount = 0 /\ ErrorReadings  \* only the first user switches
        /\ UNCHANGED <<refcount, power>>
  /\ UNCHANGED <<adc, voltage, failures>>

\* sensor_sample_fetch, sensor_channel_get twice: each returns at once with an error
Step(from, to, readings) ==
  /\ round = from /\ round' = to
  /\ fresh' = fresh \cup readings
  /\ UNCHANGED <<adc, refcount, power, voltage, report, failures>>

SampleFetch == Step("fetch", "temperature", {})
GetTemperature == Step("temperature", "humidity", {"temperature"})
GetHumidity == Step("humidity", "disable", {"humidity"})

MutantFetchFails ==
  /\ round \in {"fetch", "temperature", "humidity"} /\ failures < MaxFailures
  /\ failures' = failures + 1
  /\ round' = "adc"
  /\ UNCHANGED <<adc, refcount, power, fresh, voltage, report>>

FetchFails ==
  /\ round \in {"fetch", "temperature", "humidity"} /\ failures < MaxFailures
  /\ failures' = failures + 1
  /\ ErrorReadings
  /\ UNCHANGED <<adc, refcount, power, fresh, voltage>>

\* regulator_disable: the last user switches off
Disable ==
  /\ round = "disable" /\ round' = "adc"
  /\ refcount' = refcount - 1
  /\ power' = (refcount > 1)
  /\ UNCHANGED <<adc, fresh, voltage, report, failures>>

DisableFails ==
  /\ round = "disable" /\ refcount = 1 /\ failures < MaxFailures
  /\ failures' = failures + 1
  /\ ErrorReadings
  /\ UNCHANGED <<adc, refcount, power, fresh, voltage>>
----------------------------------------------------------------------------
\* adc_read_internal: ((adc_value * 1000) / 1024 * 1200 * 3) / 1000
Conversion(v) == (((v * 1000) \div 1024) * 1200 * 3) \div 1000

\* app/power_offset, or ADC_OFFSET_DEFAULT_MV (with APP_EXTERNAL_DCDC)
PowerOffset(o) == IF o = 0 THEN 500 ELSE o

\* lora_readings.voltage, a uint16_t
Voltage(v, o) == (Conversion(v) + PowerOffset(o)) % 65536

Sample ==
  /\ round = "adc" /\ round' = "converting"
  /\ \E r \in Requests : ReadStarts(r)
  /\ UNCHANGED <<refcount, power, fresh, voltage, report, failures>>

\* LORA_UPLINK_TYPE_ERROR_ADC
SampleFails ==
  /\ round = "adc" /\ round' = "reported" /\ report' = "error adc"
  /\ \E r \in Requests : ReadRefused(r)
  /\ UNCHANGED <<refcount, power, fresh, voltage, failures>>

Convert == event_handler /\ UNCHANGED main

\* LORA_UPLINK_TYPE_READINGS
Sampled ==
  /\ round = "converting" /\ ReadReturns
  /\ \E v \in Values, o \in Offsets : voltage' = Voltage(v, o)
  /\ fresh' = fresh \cup {"voltage"}
  /\ round' = "reported" /\ report' = "readings"
  /\ UNCHANGED <<refcount, power, failures>>

\* the message, the end of the round and its sleep
Rest ==
  /\ round = "reported" /\ round' = "rest"
  /\ UNCHANGED <<adc, refcount, power, fresh, voltage, report, failures>>

Reading == Enable \/ SampleFetch \/ GetTemperature \/ GetHumidity \/ FetchFails
           \/ Disable \/ DisableFails \/ Sample \/ SampleFails \/ Sampled \/ Rest

Next == Setup \/ Reading \/ Convert

Spec == Init /\ [][Next]_vars
----------------------------------------------------------------------------
\* A message of readings carries three values that were measured in its round, never one
\* that an earlier round left in the buffers.
ReportFresh ==
  round = "reported" /\ report = "readings" => fresh = {"temperature", "humidity", "voltage"}

\* Does not hold.  app/Kconfig, APP_POWER_DOWN_EXTERNAL_SENSOR: the sensor's port is powered
\* down when it is not in use.  A reading that ends between enable and disable leaves it powered, and counted
\* as a user of the regulator, for good.
PoweredDown == round = "rest" => ~power
=============================================================================
