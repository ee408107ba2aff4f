----------------------------- MODULE MCIoBuffer -----------------------------
(* Model checking of IoBuffer: three byte values, pieces of at most        *)
(* MaxData bytes, no put once more than MaxReadable bytes are readable.    *)
EXTENDS IoBuffer
=============================================================================
