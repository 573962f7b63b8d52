-------------------------- MODULE MCEarlierDaemons --------------------------
\* One actuator and two sensor nodes.  Second 2 and pauses of 1 keep daemon2's half second; a pause
\* of daemon4 is longer than a tenth of it.  Boards numbered as both builds need, and as
\* daemon2 does not.
EXTENDS EarlierDaemons
Board(type, data, kind, num) == [type |-> type, canid |-> [data |-> data, kind |-> kind, num |-> num]]
MCConfigs ==
  {<<Board(AD, "adclo", "adc", 0), Board(ISO, "iso", "iso", 1)>>,
   <<Board(AD, "adclo", "adc", 1), Board(ISO, "iso", "iso", 0)>>}
MCUnitTicks == [sec |-> 1]
MCPause == [daemon2 |-> 1, daemon4 |-> 1]
=============================================================================
