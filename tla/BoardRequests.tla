--------------------------- MODULE BoardRequests ---------------------------
(***************************************************************************)
(* What the daemons ask the sensor boards for.  SENSOR_MAP[n*8] says of    *)
(* each node what board it has.                                            *)
(***************************************************************************)
EXTENDS Integers, Sequences, SequencesExt

CONSTANT Second  \* slots of a second, the measure of all pauses

AD == 1
ISO == 2
COUNTER == 3

\* What board b is asked for, one request after the other, by CAN id.
Requests(b) ==
  CASE b.type = AD -> <<[b.canid EXCEPT !.data = "adclo"], [b.canid EXCEPT !.data = "adchi"]>>
    [] b.type \in {ISO, COUNTER} -> <<b.canid>>
    [] OTHER -> <<>>
\* A round of requests, to all boards.
RequestsOf(bs) == FlattenSeq([n \in DOMAIN bs |-> Requests(bs[n])])
=============================================================================
