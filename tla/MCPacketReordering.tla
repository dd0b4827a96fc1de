------------------------ MODULE MCPacketReordering ------------------------
(* Short streams whose sequence numbers wrap.                                *)
EXTENDS PacketReordering

\* A pair of frames, a packet with a bad header, and fragmented frames with
\* whole ones between them.
ShortStream ==
  <<"pair", "bad", "whole", "begin", "middle", "end", "whole", "begin", "end">>

\* A camera that sends its parameter sets, aggregated, before a key frame.
KeyFrameStream == <<"begin", "end", "pair", "begin", "end">>
=============================================================================
