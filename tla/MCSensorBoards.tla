--------------------------- MODULE MCSensorBoards ---------------------------
\* An AD board and a counter: three requests a second of four slots; the ring holds two frames and a
\* byte; three seconds of requests.
EXTENDS SensorBoards
Id(data, kind) == [data |-> data, low |-> <<kind, 1>>]
MCBoards == <<[type |-> AD, canid |-> Id("adclo", "adc")], [type |-> COUNTER, canid |-> Id("counter", "counter")]>>
=============================================================================
