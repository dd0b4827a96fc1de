----------------------------- MODULE FrameStream -----------------------------
(* What a MultiFramedRTPSource promises its sink: frames of the stream, each *)
(* with all its pieces, in the order they were sent, none of them twice.     *)
(* Some may be missing.                                                      *)
(*                                                                           *)
(* The stream is the sequence of the packets' kinds: a packet is a whole     *)
(* frame, a pair of frames, or the beginning, the middle or the end of one.  *)
(* The pieces of packet n are <<n, 1>> and, of a pair, <<n, 2>>.             *)
EXTENDS Naturals, Sequences

CONSTANT Stream

VARIABLE given     \* the frame given last, <<>> before the first

Fragmented(a, b) ==
  /\ a < b
  /\ Stream[a] = "begin" /\ Stream[b] = "end"
  /\ \A i \in a + 1..b - 1 : Stream[i] = "middle"

Fragments(a, b) == [i \in 1..b - a + 1 |-> <<a + i - 1, 1>>]

\* The frames of the stream, as the sequences of their pieces.
Frames ==
  {<<<<n, 1>>>> : n \in {i \in DOMAIN Stream : Stream[i] \in {"whole", "pair"}}}
    \cup {<<<<n, 2>>>> : n \in {i \in DOMAIN Stream : Stream[i] = "pair"}}
    \cup {Fragments(r[1], r[2]) :
            r \in {s \in (DOMAIN Stream) \X (DOMAIN Stream) : Fragmented(s[1], s[2])}}

\* The frame f ends before the frame g begins.
Precedes(f, g) ==
  LET last  == f[Len(f)]
      first == g[1]
  IN  last[1] < first[1] \/ (last[1] = first[1] /\ last[2] < first[2])

Init == given = <<>>

Give ==
  \E f \in Frames :
    /\ given = <<>> \/ Precedes(given, f)
    /\ given' = f

Spec == Init /\ [][Give]_given
=============================================================================
