----------------------------- MODULE MCReadings -----------------------------
EXTENDS Readings

\* adc_setup's configuration of channel 0, and one for each error of the set-up
Adc == [channel_id |-> 0, acquisition |-> TRUE, differential |-> FALSE, gain |-> "1/3",
        input |-> 0, reference |-> "internal"]

MCSetups == {Adc, [Adc EXCEPT !.input = 8], [Adc EXCEPT !.channel_id = 2],
             [Adc EXCEPT !.acquisition = FALSE], [Adc EXCEPT !.differential = TRUE],
             [Adc EXCEPT !.gain = "1"], [Adc EXCEPT !.reference = "other"]}

\* adc_read_internal's sequence, one with both channels sampled three times, and one for
\* each error of a read
Single == [channels |-> {0}, oversampling |-> 0, resolution |-> 10, size |-> 1, extra |-> 0]
Double == [channels |-> {0, 1}, oversampling |-> 0, resolution |-> 8, size |-> 6, extra |-> 2]

MCRequests == {Single, Double, [Double EXCEPT !.size = 5], [Single EXCEPT !.channels = {}],
               [Single EXCEPT !.channels = {1, 2}], [Single EXCEPT !.oversampling = 1],
               [Single EXCEPT !.resolution = 12]}

MCOffsets == {0, -1, 300}
=============================================================================
