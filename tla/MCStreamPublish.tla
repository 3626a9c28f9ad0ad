-------------------------- MODULE MCStreamPublish --------------------------
(* A small instance of StreamPublish: chunks of one to three bytes.       *)
EXTENDS StreamPublish

CONSTANTS a, b, t, u

MCChunks == {<<a>>, <<b>>, <<a, b>>, <<b, b, a>>}

=============================================================================
