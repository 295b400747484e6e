---------------------------- MODULE MCUartDriver ----------------------------
(* UartDriver for TLC: every constant gets its value in the cfg.           *)
EXTENDS UartDriver
=============================================================================
