----------------------------- MODULE MCUartStub -----------------------------
(* UartStub for TLC: every constant gets its value in the cfg.             *)
EXTENDS UartStub
=============================================================================
