------------------------------ MODULE AdcNrfx ------------------------------
(***************************************************************************)
(* drivers/adc/adc_nrfx_adc_internal.c: a read of the nRF51's converter,   *)
(* with the thread that asks for it and the interrupt that ends each       *)
(* sampling.  adc_context and the hardware are external.                   *)
(***************************************************************************)
EXTENDS FiniteSets, Naturals

CONSTANTS
  ChannelCount,  \* CONFIG_ADC_NRFX_ADC_CHANNEL_COUNT
  Setups,        \* configurations that adc_channel_setup is given
  Requests       \* sequences that adc_read is given

ASSUME AdcAssumption ==
  /\ ChannelCount \in Nat \ {0}
  /\ Setups \subseteq [channel_id : Nat, acquisition : BOOLEAN, differential : BOOLEAN,
                       gain : {"1/3", "2/3", "1", "other"}, input : Nat,
                       reference : {"internal", "other"}]
  /\ Requests \subseteq [channels : SUBSET Nat, oversampling : Nat, resolution : Nat,
                         size : Nat, extra : Nat]
  /\ \A r \in Requests : IsFiniteSet(r.channels)

VARIABLES
  config,           \* of each channel: <<gain, supply?>> and reference as last written
  reader,           \* the thread in adc_read: "out" or "wait"
  sequence,         \* its request (a member of Requests)
  m_data_buffer,    \* m_data.buffer, as an index into the caller's buffer
  enabled,          \* the channels enabled in the hardware (external)
  active_channels,
  converting,       \* is a sampling under way (external)
  sampling_index,   \* of adc_context (external)
  sync,             \* its semaphore (external)
  written           \* what the hardware wrote: <<index, sampling, channel>>

m_data == <<m_data_buffer, active_channels>>
ctx == <<sampling_index, sync>>
adc == <<config, reader, sequence, m_data, enabled, converting, ctx, written>>

Channels == 0..(ChannelCount - 1)
Unset == [scaling |-> <<"1", FALSE>>, reference |-> "unset"]

AdcTypeOK ==
  /\ config \in [Channels -> [scaling : {"1/3", "2/3", "1"} \X BOOLEAN,
                              reference : {"unset", "internal"}]]
  /\ reader \in {"out", "wait"} /\ sequence \in Requests
  /\ enabled \subseteq Channels
  /\ m_data_buffer \in Nat /\ active_channels \in 0..ChannelCount
  /\ converting \in BOOLEAN /\ sampling_index \in Nat /\ sync \in 0..1
  /\ written \subseteq Nat \X Nat \X Channels

AdcInit ==
  /\ config = [c \in Channels |-> Unset]
  /\ reader = "out" /\ sequence \in Requests
  /\ enabled = {} /\ m_data_buffer = 0 /\ active_channels = 0
  /\ converting = FALSE /\ sampling_index = 0 /\ sync = 0 /\ written = {}
----------------------------------------------------------------------------
GainValid(s) == s.gain \in {"1/3", "2/3"} \/ (s.gain = "1" /\ s.input # 0)

SetupValid(s) ==
  /\ s.channel_id < ChannelCount /\ s.acquisition /\ ~s.differential
  /\ GainValid(s) /\ s.reference = "internal"

\* adc_nrfx_channel_setup: the gain is written before the reference is found invalid
adc_nrfx_channel_setup(s) ==
  /\ config' = IF s.channel_id < ChannelCount /\ s.acquisition /\ ~s.differential /\ GainValid(s)
               THEN [config EXCEPT ![s.channel_id] =
                       [scaling |-> <<s.gain, s.input = 0>>,
                        reference |-> IF SetupValid(s) THEN s.reference ELSE @.reference]]
               ELSE config
  /\ UNCHANGED <<reader, sequence, m_data, enabled, converting, ctx, written>>

\* the checks of start_read before anything is changed
SelectionValid(r) ==
  /\ r.channels # {} /\ r.channels \subseteq Channels
  /\ r.oversampling = 0 /\ r.resolution \in {8, 9, 10}

MutantNeededBufferSize(r) == Cardinality(r.channels)

\* check_buffer_size, in samples
NeededBufferSize(r) == Cardinality(r.channels) * (1 + r.extra)

\* adc_nrfx_read up to the first return, or to the wait for the interrupt.  The lock of
\* the context is taken and, with an error, released here.
ReadRefused(r) ==
  /\ reader = "out"
  /\ IF SelectionValid(r)
     THEN r.size < NeededBufferSize(r) /\ enabled' = r.channels
     ELSE UNCHANGED enabled
  /\ UNCHANGED <<config, reader, sequence, m_data, converting, ctx, written>>

ReadStarts(r) ==
  /\ reader = "out"
  /\ SelectionValid(r) /\ r.size >= NeededBufferSize(r)
  /\ reader' = "wait" /\ sequence' = r
  /\ enabled' = r.channels /\ active_channels' = Cardinality(r.channels)
  /\ m_data_buffer' = 0 /\ written' = {}
  /\ sampling_index' = 0 /\ converting' = TRUE
  /\ UNCHANGED <<config, sync>>

\* nrfx_adc_buffer_convert: one sample per enabled channel, in their order (external)
Position(c) == Cardinality({d \in enabled : d < c})

Converted ==
  written' = written \cup {<<m_data_buffer + Position(c), sampling_index, c>> : c \in enabled}

\* event_handler: adc_context_on_sampling_done, which goes on with the next sampling
\* after adc_context_update_buffer_pointer ...
SampleAgain ==
  /\ converting /\ sampling_index < sequence.extra
  /\ Converted
  /\ sampling_index' = sampling_index + 1
  /\ m_data_buffer' = m_data_buffer + active_channels
  /\ UNCHANGED <<config, reader, sequence, active_channels, enabled, converting, sync>>

\* ... or repeats it, which leaves the pointer alone ...
SampleRepeat ==
  /\ converting /\ Converted
  /\ sequence.extra > 0  \* the callback that asks for it comes with the options
  /\ UNCHANGED <<config, reader, sequence, m_data, enabled, converting, ctx>>

\* ... or is at the end of the sequence, or told to finish by the callback
SampleLast ==
  /\ converting /\ Converted
  /\ converting' = FALSE /\ sync' = 1
  /\ UNCHANGED <<config, reader, sequence, m_data, enabled, sampling_index>>

event_handler == SampleAgain \/ SampleRepeat \/ SampleLast

\* adc_context_wait_for_completion and the release of the lock
ReadReturns ==
  /\ reader = "wait" /\ sync = 1
  /\ reader' = "out" /\ sync' = 0
  /\ UNCHANGED <<config, sequence, m_data, enabled, converting, sampling_index, written>>
----------------------------------------------------------------------------
\* Through any number of samplings and repetitions the hardware writes inside the caller's
\* buffer, and each sample lands at the place of its sampling and of its channel.
SamplesInPlace ==
  \A w \in written :
    /\ w[1] < sequence.size
    /\ w[1] = w[2] * Cardinality(sequence.channels)
                + Cardinality({d \in sequence.channels : d < w[3]})
=============================================================================
