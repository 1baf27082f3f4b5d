----------------------------- MODULE MCEchoFlow -----------------------------
(* EchoFlow for TLC: the queue sizes of the two ends. *)
EXTENDS EchoFlow

CONSTANTS ClientQueue, ServerQueue

QueueSizes == [e \in Ends |-> IF e = "c" THEN ClientQueue ELSE ServerQueue]
=============================================================================
