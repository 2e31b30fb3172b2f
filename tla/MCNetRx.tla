------------------------------ MODULE MCNetRx ------------------------------
(* NetRx on small instances: firmware that is about to wrap its serial, and *)
(* firmware of each generation in mid-sequence.                             *)
EXTENDS NetRx

MCStarts ==
  { <<FW_28, TRUE, 65533>>, <<FW_28, FALSE, 65534>>,
    <<FW_21, TRUE, 5>>, <<FW_21, FALSE, 0>>, <<FW_LEGACY, FALSE, 5>> }

\* Firmware 2.1 whose next frame gets serial 0.
StartsAtWrap == { <<FW_21, FALSE, 65535>> }
=============================================================================
