------------------------------ MODULE MCRingBuf ------------------------------
(* Messages with headers of one, two and three bytes. *)
EXTENDS RingBuf

MCMessage == {<<1>>, <<3>>, <<0, 3>>, <<2, 1, 3>>, <<1, 2, 3, 0>>}
=============================================================================
